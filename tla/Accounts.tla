------------------------------ MODULE Accounts ------------------------------
(***************************************************************************)
(* AuthService.ts with AuthController.ts, and UserService.ts with          *)
(* UserController.ts: an account signs in with a challenge, its user is    *)
(* created at the first login, and requests of the user, of other users    *)
(* and of further logins run between the calls of the database.  A row     *)
(* that is not there is NoRow; e-mails are the first ten characters of the *)
(* address.                                                                *)
(***************************************************************************)
EXTENDS Integers, Sequences, FiniteSets

CONSTANTS
    Account,            \* Stellar accounts, each a user once it has signed in
    Wallet,
    Prefix,             \* account to the first ten characters of its address
    Login, Invite,      \* requests
    Choices,            \* what preferences and wallet settings can say
    Default,            \* the defaults of a new row
    NoRow, Idle,
    MaxInvitations

VARIABLES
    users,              \* accounts that have a user
    preferences,        \* of each user, or NoRow
    walletSettings,     \* of each user and wallet, or NoRow
    invitations,        \* [account, linked]: rows, not yet expired
    logins, invites,    \* requests under way
    keys,               \* the server's signing key: how often it was drawn anew
    chosen              \* history: preferences each user has asked for last

accountVars == <<users, preferences, walletSettings, invitations, logins, invites, keys, chosen>>

Init ==
    /\ users = {}
    /\ preferences = [a \in Account |-> NoRow]
    /\ walletSettings = [p \in Account \X Wallet |-> NoRow]
    /\ invitations = <<>>
    /\ logins = [l \in Login |-> Idle]
    /\ invites = [i \in Invite |-> Idle]
    /\ keys = 0
    /\ chosen = [a \in Account |-> NoRow]

-----------------------------------------------------------------------------
(* generateChallenge: signed with the key the process has.                  *)
GenerateChallenge(l, a) ==
    /\ logins[l] = Idle
    /\ logins' = [logins EXCEPT ![l] = [step |-> "challenged", account |-> a, key |-> keys]]
    /\ UNCHANGED <<users, preferences, walletSettings, invitations, invites, keys, chosen>>

At(l, step) == logins[l] # Idle /\ logins[l].step = step
Ends(l) == logins' = [logins EXCEPT ![l] = Idle]
Goes(l, step) == logins' = [logins EXCEPT ![l].step = step]

(* login, verifyChallenge: the signatures, then the user is looked up.      *)
VerifyChallenge(l) ==
    /\ At(l, "challenged")
    /\ IF logins[l].key = keys /\ logins[l].account \notin users
         THEN Goes(l, "unknown")
         ELSE Ends(l)
    /\ UNCHANGED <<users, preferences, walletSettings, invitations, invites, keys, chosen>>

(* The first login: both the address and the e-mail are unique.             *)
CreateUser(l) ==
    /\ At(l, "unknown")
    /\ LET account == logins[l].account
       IN  IF \A b \in users : b # account /\ Prefix[b] # Prefix[account]
             THEN users' = users \cup {account} /\ Goes(l, "created")
             ELSE Ends(l) /\ UNCHANGED users
    /\ UNCHANGED <<preferences, walletSettings, invitations, invites, keys, chosen>>

MutUpsert(l) ==
    /\ At(l, "created")
    /\ preferences' = [preferences EXCEPT ![logins[l].account] = Default]
    /\ Ends(l)
    /\ UNCHANGED <<users, walletSettings, invitations, invites, keys, chosen>>
(* Its preferences: refused, and the login with it, if the user has some.   *)
CreatePreferences(l) ==
    /\ At(l, "created")
    /\ preferences' = [preferences EXCEPT ![logins[l].account] = IF @ = NoRow THEN Default ELSE @]
    /\ Ends(l)
    /\ UNCHANGED <<users, walletSettings, invitations, invites, keys, chosen>>

(* A call of the database fails: 401, and what was written stays.           *)
LoginFails(l) ==
    /\ logins[l] # Idle
    /\ Ends(l)
    /\ UNCHANGED <<users, preferences, walletSettings, invitations, invites, keys, chosen>>

(* The process starts anew; without SERVER_SECRET_KEY it draws another key. *)
Restart(sameKey) ==
    /\ logins' = [l \in Login |-> IF logins[l] # Idle /\ logins[l].step = "challenged"
                                    THEN logins[l] ELSE Idle]
    /\ invites' = [i \in Invite |-> Idle]
    /\ keys' = IF sameKey THEN keys ELSE 1 - keys
    /\ UNCHANGED <<users, preferences, walletSettings, invitations, chosen>>

-----------------------------------------------------------------------------
(* updatePreferences, updateWalletSettings: upserts.                        *)
UpdatePreferences(a, choice) ==
    /\ a \in users
    /\ preferences' = [preferences EXCEPT ![a] = choice]
    /\ chosen' = [chosen EXCEPT ![a] = choice]
    /\ UNCHANGED <<users, walletSettings, invitations, logins, invites, keys>>

UpdateWalletSettings(a, w, choice) ==
    /\ a \in users
    /\ walletSettings' = [walletSettings EXCEPT ![<<a, w>>] = choice]
    /\ UNCHANGED <<users, preferences, invitations, logins, invites, keys, chosen>>

(* inviteUser, inviteToSafe: the invitee is looked up, then the row is      *)
(* created with what was found.                                             *)
FindInvitee(i, a) ==
    /\ invites[i] = Idle
    /\ users # {}
    /\ invites' = [invites EXCEPT ![i] = [account |-> a, linked |-> a \in users]]
    /\ UNCHANGED <<users, preferences, walletSettings, invitations, logins, keys, chosen>>

CreateInvitation(i) ==
    /\ invites[i] # Idle
    /\ Len(invitations) < MaxInvitations
    /\ invitations' = Append(invitations, invites[i])
    /\ invites' = [invites EXCEPT ![i] = Idle]
    /\ UNCHANGED <<users, preferences, walletSettings, logins, keys, chosen>>

(* getUserProfile: the invitations linked to the user; discoverSafes reads  *)
(* only.                                                                    *)
Profile(a) == {k \in DOMAIN invitations : invitations[k].account = a /\ invitations[k].linked}

Next ==
    \/ \E l \in Login :
          \/ \E a \in Account : GenerateChallenge(l, a)
          \/ VerifyChallenge(l) \/ CreateUser(l) \/ CreatePreferences(l) \/ LoginFails(l)
    \/ \E sameKey \in BOOLEAN : Restart(sameKey)
    \/ \E a \in Account, choice \in Choices :
          \/ UpdatePreferences(a, choice)
          \/ \E w \in Wallet : UpdateWalletSettings(a, w, choice)
    \/ \E i \in Invite : (\E a \in Account : FindInvitee(i, a)) \/ CreateInvitation(i)

Spec == Init /\ [][Next]_accountVars

-----------------------------------------------------------------------------
(* What a user has chosen stands: a first login that is still under way     *)
(* never sets the preferences of a user who has changed them back to the    *)
(* defaults, however many logins of one account overlap.                    *)
ChoiceStands == \A a \in Account : chosen[a] # NoRow => preferences[a] = chosen[a]

(* schema.prisma:79 "Linked User ID if they exist": an invited account that *)
(* has a user sees the invitation in its profile.                           *)
InvitedSee ==
    \A k \in DOMAIN invitations : invitations[k].account \in users => k \in Profile(invitations[k].account)
=============================================================================
