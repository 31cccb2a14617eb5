----------------------------- MODULE TaskRoutes -----------------------------
(***************************************************************************)
(* backend/src/routes/tasks.ts: the router of /api/tasks.  Express gives a *)
(* request to the first route, in the order of the file, whose method and  *)
(* path match; a segment ":x" of a route matches every segment.            *)
(***************************************************************************)
EXTENDS Integers, Sequences

CONSTANTS Outcome   \* what the service called may do: "done", "missing", "error"

VARIABLES
    request,        \* method and path
    served,         \* the place of the route that served it, 0 before
    reply,          \* the status code, 0 before
    ran             \* whether a service was asked to do what the route is for

routeVars == <<request, served, reply, ran>>

Any == ":"
R(method, path) == [method |-> method, path |-> path]

(* In the order of registration.                                            *)
Routes == <<
    R("GET", <<>>), R("GET", <<Any>>), R("POST", <<>>), R("PUT", <<Any>>), R("DELETE", <<Any>>),
    R("POST", <<Any, "trigger">>), R("GET", <<Any, "executions">>),
    R("GET", <<Any, "executions", Any>>), R("GET", <<Any, "logs">>), R("GET", <<"metrics">>),
    R("GET", <<"system", "status">>), R("GET", <<"workers">>),
    R("GET", <<"workers", Any, "metrics">>), R("GET", <<"alerts", "rules">>),
    R("POST", <<"alerts", "rules">>), R("PUT", <<"alerts", "rules", Any>>),
    R("DELETE", <<"alerts", "rules", Any>>), R("GET", <<"dead-letter">>),
    R("POST", <<"dead-letter", Any, "retry">>)>>

(* handleValidationErrors                                                   *)
Checked(valid, code) == IF valid THEN code ELSE 400

Answer(ok, missing, out) ==
    CASE out = "done" -> ok [] out = "missing" -> missing [] out = "error" -> 500

(* Every handler: its code for an input and what the service does, and      *)
(* whether it asks one.  Some are placeholders that ask nobody.             *)
H(code, asks) == [code |-> code, asks |-> asks]
GetTasks(valid, out) == H(Checked(valid, 200), FALSE)
GetTask(valid, out) == H(Checked(valid, 404), FALSE)
CreateTask(valid, out) == H(Checked(valid, Answer(201, 500, out)), valid)
UpdateTask(valid, out) == H(Checked(valid, Answer(200, 500, out)), valid)
DeleteTask(valid, out) == H(Checked(valid, Answer(200, 500, out)), valid)
TriggerTask(valid, out) == H(Checked(valid, 200), FALSE)
GetExecutions(valid, out) == H(Checked(valid, Answer(200, 200, out)), valid)
GetExecution(valid, out) == H(Checked(valid, 404), FALSE)
GetLogs(valid, out) == H(Checked(valid, Answer(200, 200, out)), valid)
GetMetrics(valid, out) == H(Checked(valid, Answer(200, 200, out)), valid)
GetStatus(valid, out) == H(Answer(200, 200, out), TRUE)
GetWorkers(valid, out) == H(Checked(valid, 200), valid)
GetWorkerMetrics(valid, out) == H(Checked(valid, Answer(200, 404, IF out = "error" THEN "missing" ELSE out)), valid)
GetAlertRules(valid, out) == H(200, TRUE)
CreateAlertRule(valid, out) == H(Checked(valid, 201), valid)
UpdateAlertRule(valid, out) == H(Checked(valid, IF out = "missing" THEN 404 ELSE 200), valid)
DeleteAlertRule(valid, out) == H(Checked(valid, IF out = "missing" THEN 404 ELSE 200), valid)
GetDeadLetters(valid, out) == H(Checked(valid, 200), valid)
RetryDeadLetter(valid, out) == H(Checked(valid, 200), FALSE)

Handler(i, valid, out) ==
    CASE i = 1 -> GetTasks(valid, out)          [] i = 2 -> GetTask(valid, out)
      [] i = 3 -> CreateTask(valid, out)        [] i = 4 -> UpdateTask(valid, out)
      [] i = 5 -> DeleteTask(valid, out)        [] i = 6 -> TriggerTask(valid, out)
      [] i = 7 -> GetExecutions(valid, out)     [] i = 8 -> GetExecution(valid, out)
      [] i = 9 -> GetLogs(valid, out)           [] i = 10 -> GetMetrics(valid, out)
      [] i = 11 -> GetStatus(valid, out)        [] i = 12 -> GetWorkers(valid, out)
      [] i = 13 -> GetWorkerMetrics(valid, out) [] i = 14 -> GetAlertRules(valid, out)
      [] i = 15 -> CreateAlertRule(valid, out)  [] i = 16 -> UpdateAlertRule(valid, out)
      [] i = 17 -> DeleteAlertRule(valid, out)  [] i = 18 -> GetDeadLetters(valid, out)
      [] i = 19 -> RetryDeadLetter(valid, out)

Matches(route, req) ==
    /\ route.method = req.method
    /\ Len(route.path) = Len(req.path)
    /\ \A k \in DOMAIN req.path : route.path[k] \in {Any, req.path[k]}

First(req) ==
    LET hit == {i \in DOMAIN Routes : Matches(Routes[i], req)}
    IN  CHOOSE i \in hit : \A j \in hit : i <= j

(* A request for each route, an id standing for every ":x".                 *)
AskFor(i) == [method |-> Routes[i].method,
              path |-> [k \in DOMAIN Routes[i].path |->
                           IF Routes[i].path[k] = Any THEN "id" ELSE Routes[i].path[k]]]

Init ==
    /\ request \in {AskFor(i) : i \in DOMAIN Routes}
    /\ served = 0 /\ reply = 0 /\ ran = FALSE

Serve(valid, out) ==
    /\ served = 0
    /\ served' = First(request)
    /\ reply' = Handler(served', valid, out).code
    /\ ran' = Handler(served', valid, out).asks
    /\ UNCHANGED request

Next == \E valid \in BOOLEAN, out \in Outcome : Serve(valid, out)
Spec == Init /\ [][Next]_routeVars

-----------------------------------------------------------------------------
(* "GET /api/tasks/metrics - Get metrics for all tasks": each route serves  *)
(* the requests it was written for.                                         *)
RoutesAreReached == served # 0 => request = AskFor(served)
=============================================================================
