------------------------------- MODULE Chain -------------------------------
(***************************************************************************)
(* How one request passes the handlers of its route (middleware/mw.go and   *)
(* router.go).  Hertz calls them from an index.  A middleware answers and   *)
(* aborts, or calls Next for the handlers after it and goes on when they    *)
(* have returned, or just returns, and then the loop that called it goes    *)
(* on.  A panic unwinds all of them to recovery.                           *)
(***************************************************************************)
EXTENDS Naturals, Sequences, SequencesExt

LoginUser == {"/logout", "/info", "/update_info", "/update_password"}
Routes == LoginUser \cup {"/ping", "/register", "/login", "/refresh_token", "no route"}

Suite == <<"recovery", "trace", "accesslog", "cors", "session", "ratelimit">>
Handlers(r) ==
  Suite \o
  CASE r \in LoginUser -> <<"ValidateMW", "CredentialCheck", "handler">>
    [] r = "/register" -> <<"RegisterProtection", "handler">>
    [] r = "/login" -> <<"LoginProtection", "handler">>
    [] r \in {"/ping", "/refresh_token"} -> <<"handler">>
    [] r = "no route" -> <<>>

Protections == {"RegisterProtection", "LoginProtection"}
Guards == Protections \cup {"ratelimit", "ValidateMW", "CredentialCheck"}

VARIABLES route,
          index,    \* of the handler called last, beyond all when aborted
          calls,    \* the calls in progress, the engine's own first
          answers,  \* what has been written into the response, by whom
          logID,    \* the response carries the log identifier
          counted,  \* the answers the protections have acted on
          unwound   \* auxiliary: a panic has been recovered

vars == <<route, index, calls, answers, logID, counted, unwound>>
response == <<answers, logID, counted, unwound>>

\* A call in progress: of which handler, before, in or after its Next, and the
\* values in the context it was called with.
Call == [at : Nat, where : {"before", "next", "after"}, ctx : SUBSET {"logID", "claims"}]
Results == {"refused", "success", "wrong password", "error", "panic", "no route"}
Answer == [by : {"engine", "handler", "recovery", "cors"} \cup Guards, what : Results]

Init == /\ route \in Routes
        /\ index = 0
        /\ calls = <<[at |-> 0, where |-> "next", ctx |-> {}]>>
        /\ answers = <<>> /\ counted = {}
        /\ logID = FALSE /\ unwound = FALSE
-----------------------------------------------------------------------------
Aborted == 63
GoesOn(i) == i
Abort(i) == Aborted
SameAgain(i) == i
Following(i) == i + 1

Running == calls # <<>>
Top == Last(calls)
Who == Handlers(route)[Top.at]
At(where) == Running /\ Top.where = where
InHandler(where) == At(where) /\ Top.at > 0

MoveTo(where) == calls' = [calls EXCEPT ![Len(calls)].where = where]
Return == calls' = Front(calls)
Write(who, what) == answers' = Append(answers, [by |-> who, what |-> what])

\* The loop of Next, and the end of it.
CallFollowing ==
  /\ At("next") /\ index < Len(Handlers(route))
  /\ index' = Following(index)
  /\ calls' = Append(calls, [at |-> index', where |-> "before", ctx |-> Top.ctx])
  /\ UNCHANGED <<route, response>>

EndNext == /\ InHandler("next") /\ index >= Len(Handlers(route))
           /\ MoveTo("after")
           /\ UNCHANGED <<route, index, response>>

\* The engine's own loop is over: it answers for a route that does not exist.
EndRequest ==
  /\ At("next") /\ Top.at = 0 /\ index >= Len(Handlers(route))
  /\ Return
  /\ IF route = "no route" /\ answers = <<>>
     THEN Write("engine", "no route") ELSE UNCHANGED answers
  /\ UNCHANGED <<route, index, logID, counted, unwound>>
-----------------------------------------------------------------------------
\* cors returns, all others call Next, with what they add to the context.
NextForgotten(who) == IF who \in {"cors"} \cup Protections THEN "after" ELSE "next"
Passing(who) == IF who = "cors" THEN "after" ELSE "next"
ClaimsForgotten(who) == IF who = "trace" THEN {"logID"} ELSE {}
Added(who) == CASE who = "trace" -> {"logID"}
                [] who = "ValidateMW" -> {"claims"}
                [] OTHER -> {}

Pass == /\ InHandler("before") /\ Who # "handler"
        /\ calls' = [calls EXCEPT ![Len(calls)] =
                       [@ EXCEPT !.where = Passing(Who), !.ctx = @ \cup Added(Who)]]
        /\ UNCHANGED <<route, index, response>>

\* A guard, or cors a foreign origin or a preflight, answers and aborts.
Refuse == /\ InHandler("before") /\ Who \in Guards \cup {"cors"}
          /\ Write(Who, "refused")
          /\ index' = Abort(index)
          /\ Return
          /\ UNCHANGED <<route, logID, counted, unwound>>

\* The handlers of loginUser refuse a request without claims.
Handle ==
  /\ InHandler("before") /\ Who = "handler"
  /\ \E what \in {"success", "error", "wrong password"} :
       /\ what = "wrong password" => route = "/login"
       /\ route \in LoginUser /\ "claims" \notin Top.ctx => what = "error"
       /\ Write("handler", what)
  /\ Return
  /\ UNCHANGED <<route, index, logID, counted, unwound>>

\* The second parts: trace sets the header, the protections read the answer.
HandledBy(who, what) ==
  \/ who = "RegisterProtection" /\ what = "success"
  \/ who = "LoginProtection" /\ what \in {"success", "wrong password"}

After ==
  /\ InHandler("after")
  /\ logID' = (logID \/ Who = "trace")
  /\ counted' = IF answers # <<>> /\ HandledBy(Who, Last(answers).what)
                THEN counted \cup {Last(answers).what} ELSE counted
  /\ Return
  /\ UNCHANGED <<route, index, answers, unwound>>

\* A panic, as of GetRedisClient, in a guard or a handler.
Panic == /\ \/ InHandler("before") /\ Who \in Guards \cup {"handler"}
            \/ InHandler("after") /\ Who \in Protections
         /\ calls' = <<Head(calls)>>
         /\ index' = Abort(index)
         /\ Write("recovery", "panic")
         /\ unwound' = TRUE
         /\ UNCHANGED <<route, logID, counted>>

Next == CallFollowing \/ EndNext \/ EndRequest \/ Pass \/ Refuse \/ Handle \/ After \/ Panic

Spec == Init /\ [][Next]_vars
-----------------------------------------------------------------------------
(* Properties.                                                             *)

\* Every variable holds a value of its type; the calls in progress are of
\* handlers in the order of the route, each called from the one before.
TypeOK ==
  /\ route \in Routes
  /\ index \in 0..Len(Handlers(route)) \cup {Aborted}
  /\ calls \in Seq(Call)
  /\ \A i \in 1..Len(calls) - 1 : /\ calls[i].where = "next"
                                  /\ calls[i].at < calls[i + 1].at
  /\ Running => Top.at <= index
  /\ answers \in Seq(Answer)
  /\ counted \subseteq Results
  /\ {logID, unwound} \subseteq BOOLEAN

\* A request that a guard has answered reaches neither another guard nor the
\* handler: the response is written once, and over only after a panic.
OneAnswer == /\ Len(answers) <= IF unwound THEN 2 ELSE 1
             /\ unwound => Last(answers).by = "recovery"

\* The handlers of loginUser are called with the claims of the token, and every
\* handler after trace with the log identifier that the log entries show.
ContextArrives ==
  InHandler("before") => /\ Top.at > 2 => "logID" \in Top.ctx
                         /\ Who = "handler" /\ route \in LoginUser => "claims" \in Top.ctx

\* A request that ends without a panic has one answer, returned with the log
\* identifier, and the answers of the register and login handlers have been
\* counted by their protections; a panic loses both.
AnswersAccounted ==
  ~Running /\ ~unwound =>
    /\ Len(answers) = 1 /\ logID
    /\ LET a == Last(answers)
       IN a.by = "handler" =>
            (a.what \in counted <=>
               \/ route = "/register" /\ a.what = "success"
               \/ route = "/login" /\ a.what \in {"success", "wrong password"})
=============================================================================
