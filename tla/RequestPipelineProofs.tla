------------------------ MODULE RequestPipelineProofs ------------------------
(***************************************************************************)
(* Theorems about RequestPipeline, for any body limit, any size of         *)
(* messages and either setting of rate_limit_fail_open.                    *)
(***************************************************************************)
EXTENDS RequestPipeline, TLAPS

(* The layers whose awaits the other layers see: those that answer from
   within the stack main.py builds. *)
Inner == {"app", "rate_limit", "timeout", "body_limit"}

(* The order of the stack, as far as the properties depend on it: whatever
   answers from within is inside the three layers that look at answers. *)
LEMMA StackOrder ==
  \A layer \in Inner :
    /\ Inside(layer, "request_id")
    /\ Inside(layer, "metrics")
    /\ Inside(layer, "security_headers")
<1>1. /\ Len(Stack) = 9
      /\ Stack[2] = "request_id" /\ Stack[4] = "metrics"
      /\ Stack[5] = "security_headers" /\ Stack[6] = "body_limit"
      /\ Stack[7] = "timeout" /\ Stack[8] = "rate_limit" /\ Stack[9] = "app"
  BY DEF Stack
<1>2. ASSUME NEW layer \in Inner
      PROVE  \E i \in 6..9 : Stack[i] = layer
  BY <1>1 DEF Inner
<1>3. ASSUME NEW i \in 6..9, NEW j \in 2..5
      PROVE  Inside(Stack[i], Stack[j])
  BY <1>1 DEF Inside
<1> QED
  BY <1>1, <1>2, <1>3

(* Nothing is answered there yet. *)
Before == {"arrive", "limiter", "route", "receive", "handler"}

(* The layers that answer once the metrics are left. *)
Outside == {"server_error", "server"}

(* The request id is bound until the metrics are left. *)
ContextInv ==
  /\ pc = "arrive" => context = "inherited"
  /\ pc # "arrive" /\ counted = 0 => context = "own"
  /\ pc \in Before \cup {"closing"} => counted = 0
  /\ pc = "done" => counted # 0

(* What the wrappers saw of the answer a layer last began. *)
ReplyInv ==
  /\ pc \in Before => reply = NoReply
  /\ reply = NoReply => /\ wire = NoAnswer /\ status_code = 500
                        /\ pc \in Before \cup {"closing"}
  /\ reply # NoReply /\ reply.layer \in Inner =>
       status_code = reply.status /\ reply.rid = "own"
  /\ status_code # 0
  /\ counted # 0 => /\ counted = status_code
                    /\ reply.layer \in Inner => pc = "done"
  /\ reply.layer \in Outside => counted # 0 /\ reply.status = 500
  /\ reply.layer = "server_error" =>
       status_code = 500 /\ (reply.rid = "fresh" => ~supplied)
  /\ reply.layer = "server" =>
       reply.form = "plain" /\ timer = "fired" /\ session = "broken"

(* A start the server refuses. *)
Second ==
  /\ reply.layer = "timeout" /\ reply.status = 504
  /\ timer = "fired" \/ session = "broken"

(* What the server accepted is what was last begun, or a second start came
   after it. *)
WireInv ==
  /\ wire # NoAnswer => Second \/ (pc # "respond" /\ wire.status = reply.status)
  /\ pc \in {"body", "closing"} /\ wire # NoAnswer => wire.status = reply.status
  /\ pc \in {"body", "done"} => wire # NoAnswer

(* What waits for the session's close. *)
ClosingInv ==
  pc = "closing" =>
    /\ session = "closing"
    /\ raised = "nothing" => wire # NoAnswer
    /\ raised \in {"reject", "error"} => reply = NoReply
    /\ timer # "fired" /\ wire # NoAnswer => wire.status = 200
    /\ timer # "fired" /\ reply # NoReply => raised = "nothing"

(* A session is open only until the endpoint is left. *)
SessionInv ==
  /\ exempt => session = "none" /\ timer = "off"
  /\ session = "open" =>
       /\ pc \in {"handler", "respond", "body"}
       /\ reply = NoReply \/ (reply.layer = "app" /\ reply.status = 200)
  /\ session = "closing" => pc = "closing" \/ timer = "fired"
  /\ pc = "arrive" => session = "none"

(* Only as much as was within the limit has reached an endpoint. *)
BodyInv ==
  /\ pc \in {"arrive", "limiter", "route"} => received = 0
  /\ pc \in {"receive", "handler"} => received <= MaxBody
  /\ pc \in {"arrive", "limiter", "route", "receive"} => ~handled
  /\ exempt => pc # "receive" /\ reads = "none"

IInv ==
  /\ TypeOK /\ ContextInv /\ ReplyInv /\ WireInv /\ ClosingInv /\ SessionInv
  /\ BodyInv
  /\ CountedAsSent /\ HeadersOnEveryAnswer /\ ErrorsTraceable
  /\ OversizeNeverHandled /\ SessionLeft

(* The inductive invariant holds initially. *)
LEMMA InitInv == Init => IInv
<1> SUFFICES ASSUME Init PROVE IInv
  OBVIOUS
<1> USE DEF Init
<1>1. NoReply \in Reply
  BY DEF NoReply, Reply, Layers, Statuses, Forms
<1>2. reads \in {"none", "json", "form"} /\ (exempt => reads = "none")
  OBVIOUS
<1>3. received \in 0..MaxBody + MaxChunk /\ received <= MaxBody
  BY SettingsAssumption
<1>4. TypeOK
  <2>1. status_code \in Statuses /\ counted \in Statuses
    BY DEF Statuses
  <2> QED
    BY <1>1, <1>2, <1>3, <2>1 DEF TypeOK
<1>5. ContextInv /\ ReplyInv /\ WireInv
  BY DEF ContextInv, ReplyInv, WireInv, Before, Outside, Inner, NoReply
<1>6. ClosingInv /\ SessionInv /\ BodyInv
  BY <1>2, <1>3 DEF ClosingInv, SessionInv, BodyInv
<1>7. CountedAsSent /\ HeadersOnEveryAnswer /\ ErrorsTraceable
      /\ OversizeNeverHandled /\ SessionLeft
  BY DEF CountedAsSent, HeadersOnEveryAnswer, ErrorsTraceable,
     OversizeNeverHandled, SessionLeft
<1> QED
  BY <1>4, <1>5, <1>6, <1>7 DEF IInv

(* The layers outside the metrics are not seen by them, and not cancelled. *)
LEMMA OutsideUnseen ==
  ASSUME NEW layer \in Outside
  PROVE  ~Inside(layer, "metrics") /\ ~Inside(layer, "timeout")
<1>1. /\ Len(Stack) = 9
      /\ Stack[1] = "server_error" /\ Stack[2] = "request_id"
      /\ Stack[3] = "tenant" /\ Stack[4] = "metrics"
      /\ Stack[5] = "security_headers" /\ Stack[6] = "body_limit"
      /\ Stack[7] = "timeout" /\ Stack[8] = "rate_limit" /\ Stack[9] = "app"
  BY DEF Stack
<1>2. ASSUME NEW i \in 1..9, Stack[i] = layer
      PROVE  i = 1
  BY <1>1, <1>2 DEF Outside
<1> QED
  BY <1>1, <1>2 DEF Inside

-----------------------------------------------------------------------------

(* A layer inside the metrics begins an answer.  If one had begun, it is the
   504 the server refuses. *)
LEMMA RespondInv ==
  ASSUME IInv, NEW layer \in Inner, NEW status \in Statuses \ {0},
         NEW form \in Forms, Respond(layer, status, form, BoundId(layer)),
         UNCHANGED <<request, record, raised, wire>>,
         counted = 0, pc \notin {"arrive", "done"},
         wire # NoAnswer => /\ layer = "timeout" /\ status = 504
                            /\ timer' = "fired" \/ session' = "broken",
         timer' \in {"off", "armed", "fired"},
         session' \in {"none", "open", "closing", "closed", "broken"},
         exempt => session' = "none" /\ timer' = "off",
         session' = "open" => layer = "app" /\ status = 200,
         session' = "closing" => timer' = "fired",
         received' \in 0..MaxBody + MaxChunk,
         handled' = handled, handled => received' = received
  PROVE  IInv'
<1>1. BoundId(layer) = "own" /\ SeenFrom(layer, status) = status
  BY StackOrder DEF BoundId, SeenFrom, IInv, ContextInv
<1>2. /\ pc' = "respond" /\ status_code' = status
      /\ reply' = [layer |-> layer, status |-> status, form |-> form,
                   rid |-> "own"]
  BY <1>1 DEF Respond
<1>3. /\ reply' \in Reply /\ reply' # NoReply
      /\ reply'.layer = layer /\ reply'.status = status
      /\ reply'.rid = "own" /\ layer \notin Outside
  BY <1>2 DEF Reply, Layers, Inner, Outside, NoReply
<1>4. /\ context' = context /\ counted' = 0 /\ exempt' = exempt
      /\ reads' = reads /\ supplied' = supplied
  BY DEF record, request
<1>5. TypeOK'
  BY <1>2, <1>3, <1>4 DEF IInv, TypeOK
<1>6. ContextInv' /\ ReplyInv'
  BY <1>2, <1>3, <1>4
  DEF IInv, ContextInv, ReplyInv, Before, Inner, Outside
<1>7. WireInv' /\ ClosingInv' /\ SessionInv'
  BY <1>2, <1>3, <1>4 DEF WireInv, Second, ClosingInv, SessionInv
<1>8. BodyInv'
  BY <1>2, <1>4 DEF IInv, BodyInv
<1>9. CountedAsSent' /\ HeadersOnEveryAnswer' /\ ErrorsTraceable'
  BY <1>2, <1>4
  DEF IInv, CountedAsSent, HeadersOnEveryAnswer, ErrorsTraceable
<1>10. OversizeNeverHandled'
  BY DEF IInv, OversizeNeverHandled
<1>11. SessionLeft'
  <2>1. CASE session' = "open"
    <3>1. wire = NoAnswer
      BY <2>1
    <3> QED
      BY <3>1, <1>2 DEF SessionLeft
  <2>2. CASE session' # "open"
    BY <2>2 DEF SessionLeft
  <2> QED
    BY <2>1, <2>2
<1> QED
  BY <1>5, <1>6, <1>7, <1>8, <1>9, <1>10, <1>11 DEF IInv

(* The request has left its session, or the timeout struck the close. *)
Left == \/ session \in {"none", "closed", "broken"}
        \/ session = "closing" /\ timer = "fired"

(* The metrics are left with the status they last saw, and nothing more is
   sent. *)
LEMMA ReturnInv ==
  ASSUME IInv, Return, counted = 0,
         reply # NoReply, wire # NoAnswer,
         Second \/ wire.status = reply.status,
         UNCHANGED <<request, entry, raised, wire>>,
         session' = session \/ session' = "broken" \/ session # "broken",
         timer' = timer, Left', exempt => session' = "none"
  PROVE  IInv'
<1>1. /\ pc' = "done" /\ context' = "cleared" /\ counted' = status_code
      /\ reply' = reply /\ status_code' = status_code
  BY DEF Return, Leave, answer
<1>2. /\ exempt' = exempt /\ reads' = reads /\ supplied' = supplied
      /\ received' = received /\ handled' = handled
  BY DEF request, entry
<1>3. /\ reply \in Reply /\ reply.layer \in Inner
      /\ status_code = reply.status /\ status_code # 0
      /\ status_code \in Statuses
  BY DEF IInv, TypeOK, ReplyInv, Reply, Layers, Inner, Outside
<1>4. Second => Second'
  BY <1>1 DEF Second
<1>5. TypeOK'
  BY <1>1, <1>2, <1>3 DEF IInv, TypeOK, Left
<1>6. ContextInv' /\ ReplyInv'
  BY <1>1, <1>2, <1>3
  DEF IInv, ContextInv, ReplyInv, Before, Inner, Outside
<1>7. WireInv' /\ ClosingInv' /\ SessionInv'
  BY <1>1, <1>2, <1>3, <1>4 DEF IInv, WireInv, ClosingInv, SessionInv, Left
<1>8. CountedAsSent'
  BY <1>1, <1>3, <1>4 DEF CountedAsSent, Second
<1>9. BodyInv' /\ HeadersOnEveryAnswer' /\ ErrorsTraceable'
      /\ OversizeNeverHandled'
  BY <1>1, <1>2 DEF IInv, BodyInv, HeadersOnEveryAnswer, ErrorsTraceable,
     OversizeNeverHandled
<1>10. SessionLeft'
  BY DEF SessionLeft, Left
<1> QED
  BY <1>5, <1>6, <1>7, <1>8, <1>9, <1>10 DEF IInv

(* An exception nobody handles: answered outside the metrics, by whoever may
   still answer. *)
LEMMA EscapeInv ==
  ASSUME IInv, Escape, counted = 0, pc \in {"handler", "closing"},
         UNCHANGED <<request, entry, raised, wire>>, timer' = timer,
         session' = session \/ session' = "broken" \/ session # "broken",
         Left', exempt => session' = "none",
         reply # NoReply /\ wire = NoAnswer =>
           timer = "fired" /\ session' = "broken"
  PROVE  IInv'
<1>1. /\ context' = "cleared" /\ counted' = status_code
      /\ exempt' = exempt /\ reads' = reads /\ supplied' = supplied
      /\ received' = received /\ handled' = handled
  BY DEF Escape, Leave, request, entry
<1>2. status_code \in Statuses \ {0}
  BY DEF IInv, TypeOK, ReplyInv
<1>3. RecoveredId \in {"own", "fresh"} /\ (supplied => RecoveredId = "own")
  BY DEF RecoveredId
<1>4. CASE wire # NoAnswer
  <2>1. reply # NoReply /\ wire.status = reply.status
    BY <1>4 DEF IInv, ReplyInv, WireInv, Before
  <2>2. Return
    BY <1>4, <2>1 DEF Escape, Return
  <2> QED
    BY <1>4, <2>1, <2>2, ReturnInv
<1>5. CASE wire = NoAnswer
  <2>1. PICK layer \in Outside, form \in Forms, rid \in {"own", "fresh"} :
          /\ Respond(layer, 500, form, rid)
          /\ layer = "server_error" =>
               status_code = 500 /\ (rid = "fresh" => ~supplied)
          /\ layer = "server" =>
               form = "plain" /\ timer = "fired" /\ session' = "broken"
    BY <1>3, <1>5 DEF Escape, Outside, Forms, IInv, ReplyInv
  <2>2. /\ pc' = "respond" /\ status_code' = status_code
        /\ reply' = [layer |-> layer, status |-> 500, form |-> form,
                     rid |-> rid]
    BY <2>1, OutsideUnseen DEF Respond, SeenFrom
  <2>3. /\ reply' \in Reply /\ reply' # NoReply /\ reply'.layer = layer
        /\ reply'.status = 500 /\ reply'.form = form /\ reply'.rid = rid
        /\ layer \notin Inner
    BY <2>2 DEF Reply, Layers, Statuses, Outside, Inner, NoReply
  <2>4. TypeOK'
    BY <1>1, <1>2, <2>2, <2>3 DEF IInv, TypeOK, Left
  <2>5. ContextInv' /\ ReplyInv'
    BY <1>1, <1>2, <2>1, <2>2, <2>3
    DEF ContextInv, ReplyInv, Before, Outside
  <2>6. WireInv' /\ ClosingInv' /\ SessionInv'
    BY <1>1, <1>5, <2>2 DEF IInv, WireInv, ClosingInv, SessionInv, Left
  <2>7. /\ BodyInv' /\ CountedAsSent' /\ HeadersOnEveryAnswer'
        /\ ErrorsTraceable' /\ OversizeNeverHandled'
    BY <1>1, <1>5, <2>2 DEF IInv, BodyInv, CountedAsSent,
       HeadersOnEveryAnswer, ErrorsTraceable, OversizeNeverHandled
  <2>8. SessionLeft'
    BY DEF SessionLeft, Left
  <2> QED
    BY <2>4, <2>5, <2>6, <2>7, <2>8 DEF IInv
<1> QED
  BY <1>4, <1>5

(* What comes out of the dependencies once the session is left. *)
LEMMA ConcludeInv ==
  ASSUME IInv, NEW cause, Conclude(cause), counted = 0,
         pc \notin {"arrive", "done"},
         UNCHANGED <<request, entry, raised, wire>>,
         timer' \in {timer, "fired"}, cause # "timeout" => timer' = timer,
         session' = session \/ session' = "broken" \/ session # "broken",
         Left', exempt => session' = "none" /\ timer' = "off",
         cause = "nothing" =>
           /\ reply # NoReply /\ wire # NoAnswer
           /\ wire.status = reply.status,
         cause = "reject" => reply = NoReply,
         cause = "timeout" =>
           /\ wire # NoAnswer => timer' = "fired" \/ session' = "broken"
           /\ exempt => pc = "handler",
         cause = "error" =>
           /\ pc \in {"handler", "closing"}
           /\ reply # NoReply /\ wire = NoAnswer =>
                timer = "fired" /\ session' = "broken"
  PROVE  IInv'
<1>1. /\ received \in 0..MaxBody + MaxChunk /\ exempt' = exempt
      /\ received' = received /\ handled' = handled
      /\ timer' \in {"off", "armed", "fired"}
      /\ exempt => timer = "off"
  BY DEF IInv, TypeOK, entry, request, SessionInv
<1>2. CASE cause = "nothing"
  BY <1>2, ReturnInv DEF Conclude
<1>3. CASE cause = "reject"
  <2>1. Respond("app", 400, "envelope", BoundId("app")) /\ UNCHANGED record
    BY <1>3 DEF Conclude, AnswerInstead
  <2>2. wire = NoAnswer
    BY <1>3 DEF IInv, ReplyInv
  <2> QED
    BY <1>1, <2>1, <2>2, RespondInv DEF Left, Statuses, Forms, Inner
<1>4. CASE cause = "timeout" /\ ~exempt
  <2>1. /\ Respond("timeout", 504, "envelope", BoundId("timeout"))
        /\ UNCHANGED record
    BY <1>4 DEF Conclude, AnswerInstead
  <2> QED
    BY <1>1, <1>4, <2>1, RespondInv DEF Left, Statuses, Forms, Inner
<1>5. CASE cause = "timeout" /\ exempt
  <2>1. Escape /\ pc = "handler" /\ timer' = timer
    BY <1>1, <1>5 DEF Conclude
  <2>2. reply = NoReply
    BY <2>1 DEF IInv, ReplyInv, Before
  <2> QED
    BY <2>1, <2>2, EscapeInv
<1>6. CASE cause = "error"
  <2>1. Escape
    BY <1>6 DEF Conclude
  <2> QED
    BY <1>6, <2>1, EscapeInv
<1> QED
  BY <1>2, <1>3, <1>4, <1>5, <1>6 DEF Conclude

(* The request leaves its dependencies, through the session's close if it
   has one. *)
LEMMA WayOutInv ==
  ASSUME IInv, NEW cause \in {"nothing", "reject", "error", "timeout"},
         WayOut(cause), pc \notin {"arrive", "done"}, counted = 0,
         timer' \in {timer, "fired"}, cause # "timeout" => timer' = timer,
         exempt => timer' = "off",
         session = "closing" => timer' = "fired",
         cause = "nothing" => pc = "body" /\ reply.layer = "app",
         cause \in {"reject", "error"} => pc = "handler",
         cause = "timeout" =>
           \/ pc = "handler"
           \/ timer' = "fired" /\ ~exempt /\ pc # "arrive"
  PROVE  IInv'
<1>1. /\ exempt' = exempt /\ reads' = reads /\ supplied' = supplied
      /\ received' = received /\ handled' = handled /\ wire' = wire
  BY DEF WayOut, request, entry
<1>2. pc = "body" => wire # NoAnswer /\ wire.status = reply.status
  BY DEF IInv, WireInv
<1>3. pc \in {"handler"} => reply = NoReply /\ wire = NoAnswer
  BY DEF IInv, ReplyInv, Before
<1>4. CASE session = "open"
  <2>1. /\ pc' = "closing" /\ session' = "closing" /\ raised' = cause
        /\ context' = context /\ counted' = counted /\ reply' = reply
        /\ status_code' = status_code
    BY <1>4 DEF WayOut, record, answer
  <2>2. /\ pc \in {"handler", "respond", "body"} /\ ~exempt
        /\ reply = NoReply \/ (reply.layer = "app" /\ reply.status = 200)
    BY <1>4 DEF IInv, SessionInv
  <2>3. wire # NoAnswer => reply # NoReply /\ wire.status = 200
    BY <2>2 DEF IInv, WireInv, ReplyInv, Second
  <2>4. TypeOK'
    BY <1>1, <2>1 DEF IInv, TypeOK
  <2>5. ContextInv'
    BY <2>1 DEF IInv, ContextInv, Before
  <2>6. ReplyInv'
    BY <1>1, <2>1, <2>2 DEF IInv, ReplyInv, Before, Inner, Outside, NoReply
  <2>7. WireInv'
    BY <1>1, <2>1, <2>2, <2>3 DEF WireInv, IInv, ReplyInv, Second
  <2>8. ClosingInv'
    BY <1>1, <1>2, <1>3, <2>1, <2>2, <2>3 DEF ClosingInv
  <2>9. SessionInv' /\ BodyInv'
    BY <1>1, <2>1, <2>2 DEF SessionInv, IInv, BodyInv
  <2>10. /\ CountedAsSent' /\ HeadersOnEveryAnswer' /\ ErrorsTraceable'
         /\ OversizeNeverHandled'
    BY <1>1, <2>1 DEF IInv, CountedAsSent, HeadersOnEveryAnswer,
       ErrorsTraceable, OversizeNeverHandled
  <2>11. SessionLeft'
    BY <1>1, <2>1, <2>3 DEF SessionLeft
  <2> QED
    BY <2>4, <2>5, <2>6, <2>7, <2>8, <2>9, <2>10, <2>11 DEF IInv
<1>5. CASE session # "open"
  <2>1. Conclude(cause) /\ session' = session /\ raised' = raised
    BY <1>5 DEF WayOut
  <2>2. Left' /\ (exempt => session' = "none")
    BY <1>5, <2>1 DEF Left, IInv, TypeOK, SessionInv
  <2>3. cause = "nothing" => reply # NoReply
    BY <1>2 DEF IInv, ReplyInv, Before
  <2>4. UNCHANGED <<request, entry, raised, wire>>
    BY <2>1 DEF WayOut
  <2> QED
    BY <1>2, <1>3, <2>1, <2>2, <2>3, <2>4, ConcludeInv
<1> QED
  BY <1>4, <1>5

(* The session's close ends, one way or the other. *)
LEMMA CloseInv ==
  ASSUME IInv, CloseReturns \/ CloseRaises
  PROVE  IInv'
<1>1. /\ pc = "closing" /\ session = "closing" /\ ~exempt /\ counted = 0
      /\ session' \in {"closed", "broken"} /\ timer' = timer
      /\ UNCHANGED <<request, entry, raised, wire>>
  BY DEF CloseReturns, CloseRaises, IInv, ContextInv, ClosingInv, SessionInv
<1>2. /\ raised = "nothing" => wire # NoAnswer
      /\ raised \in {"reject", "error"} => reply = NoReply
      /\ timer # "fired" /\ reply # NoReply => raised = "nothing"
      /\ wire # NoAnswer => reply # NoReply /\ wire.status = reply.status
  BY <1>1 DEF IInv, ClosingInv, ReplyInv, WireInv, Before
<1>3. raised \in {"nothing", "reject", "error", "timeout"}
      /\ timer \in {"off", "armed", "fired"}
  BY DEF IInv, TypeOK
<1>4. Left'
  BY <1>1 DEF Left
<1>5. CASE CloseReturns
  <2>1. Conclude(raised)
    BY <1>5 DEF CloseReturns
  <2> QED
    BY <1>1, <1>2, <1>3, <1>4, <2>1, ConcludeInv
<1>6. CASE CloseRaises
  <2>1. PICK cause \in {"error", "timeout"} : Conclude(cause)
    BY <1>6 DEF CloseRaises
  <2>2. session' = "broken"
    BY <1>6 DEF CloseRaises
  <2> QED
    BY <1>1, <1>2, <1>3, <1>4, <2>1, <2>2, ConcludeInv
<1> QED
  BY <1>5, <1>6

(* A close left behind by a request the timeout struck. *)
LEMMA CloseBehindInv ==
  ASSUME IInv, CloseBehind
  PROVE  IInv'
<1>1. /\ session = "closing" /\ pc # "closing" /\ timer = "fired"
      /\ session' \in {"closed", "broken"}
      /\ UNCHANGED <<exempt, reads, supplied, pc, context, counted, timer,
                     received, handled, raised, wire, reply, status_code>>
  BY DEF CloseBehind, request, record, entry, answer, IInv, SessionInv
<1>2. TypeOK' /\ ContextInv' /\ ReplyInv'
  BY <1>1 DEF IInv, TypeOK, ContextInv, ReplyInv
<1>3. WireInv' /\ ClosingInv' /\ SessionInv' /\ BodyInv'
  BY <1>1 DEF IInv, WireInv, Second, ClosingInv, SessionInv, BodyInv
<1>4. /\ CountedAsSent' /\ HeadersOnEveryAnswer' /\ ErrorsTraceable'
      /\ OversizeNeverHandled' /\ SessionLeft'
  BY <1>1 DEF IInv, CountedAsSent, HeadersOnEveryAnswer, ErrorsTraceable,
     OversizeNeverHandled, SessionLeft
<1> QED
  BY <1>2, <1>3, <1>4 DEF IInv

-----------------------------------------------------------------------------

(* The way in: nothing is answered, nothing is handled. *)
LEMMA ArriveInv ==
  ASSUME IInv, Arrive
  PROVE  IInv'
<1>1. /\ pc = "arrive" /\ pc' \in {"route", "limiter"} /\ context' = "own"
      /\ exempt => pc' = "route"
      /\ timer' = IF exempt THEN "off" ELSE "armed"
      /\ UNCHANGED <<exempt, reads, supplied, received, handled, session,
                     raised, wire, reply, status_code, counted>>
  BY DEF Arrive, Armed, request, entry, answer
<1>2. reply = NoReply /\ wire = NoAnswer /\ counted = 0
  BY <1>1 DEF IInv, ContextInv, ReplyInv, Before
<1>3. TypeOK' /\ ContextInv'
  BY <1>1, <1>2 DEF IInv, TypeOK, ContextInv, Before
<1>4. ReplyInv'
  BY <1>1, <1>2 DEF IInv, ReplyInv, Before, Outside, Inner, NoReply
<1>5. WireInv' /\ ClosingInv' /\ SessionInv' /\ BodyInv'
  BY <1>1, <1>2 DEF IInv, WireInv, ClosingInv, SessionInv, BodyInv
<1>6. /\ CountedAsSent' /\ HeadersOnEveryAnswer' /\ ErrorsTraceable'
      /\ OversizeNeverHandled' /\ SessionLeft'
  BY <1>1, <1>2 DEF IInv, CountedAsSent, HeadersOnEveryAnswer,
     ErrorsTraceable, OversizeNeverHandled, SessionLeft
<1> QED
  BY <1>3, <1>4, <1>5, <1>6 DEF IInv

(* On the way in, with nothing answered yet, and no more received than the
   limit: the request goes on, or the endpoint is entered. *)
LEMMA OnwardInv ==
  ASSUME IInv, pc \in {"limiter", "route", "receive"},
         UNCHANGED <<request, record, answer, timer, raised, wire>>,
         received' \in 0..MaxBody, pc = "limiter" => pc' # "receive",
         pc' = "route" => received' = 0,
         \/ /\ pc' \in {"route", "receive"} /\ UNCHANGED <<handled, session>>
            /\ exempt => pc' # "receive"
         \/ CallEndpoint
  PROVE  IInv'
<1>1. /\ pc' \in {"route", "receive", "handler"} /\ handled' \in BOOLEAN
      /\ pc' # "handler" => handled' = handled /\ session' = session
      /\ session' \in {session, "none", "open"}
      /\ session' = "open" => pc' = "handler" \/ session = "open"
      /\ exempt /\ session' # session => session' = "none"
      /\ exempt => pc' # "receive"
      /\ UNCHANGED <<exempt, reads, supplied, context, counted, reply,
                     status_code, timer, raised, wire>>
  <2>1. handled \in BOOLEAN
    BY DEF IInv, TypeOK
  <2> QED
    BY <2>1 DEF CallEndpoint, request, record, answer
<1>2. /\ reply = NoReply /\ wire = NoAnswer /\ counted = 0 /\ ~handled
      /\ session # "open"
  BY DEF IInv, ContextInv, ReplyInv, SessionInv, BodyInv, Before
<1>3. received' \in 0..MaxBody + MaxChunk /\ received' <= MaxBody
  BY SettingsAssumption
<1>4. TypeOK' /\ ContextInv'
  BY <1>1, <1>2, <1>3 DEF IInv, TypeOK, ContextInv, Before
<1>5. ReplyInv'
  BY <1>1, <1>2 DEF IInv, ReplyInv, Before, Outside, Inner, NoReply
<1>6. WireInv' /\ ClosingInv' /\ SessionInv'
  BY <1>1, <1>2 DEF IInv, WireInv, ClosingInv, SessionInv
<1>7. BodyInv'
  BY <1>1, <1>2, <1>3 DEF IInv, BodyInv
<1>8. CountedAsSent' /\ HeadersOnEveryAnswer' /\ ErrorsTraceable'
  BY <1>1, <1>2 DEF CountedAsSent, HeadersOnEveryAnswer, ErrorsTraceable
<1>9. OversizeNeverHandled' /\ SessionLeft'
  BY <1>1, <1>2, <1>3 DEF OversizeNeverHandled, SessionLeft
<1> QED
  BY <1>4, <1>5, <1>6, <1>7, <1>8, <1>9 DEF IInv

(* A refusal on the way in. *)
LEMMA RefuseInv ==
  ASSUME IInv, pc \in {"limiter", "route", "receive"},
         NEW layer \in {"app", "rate_limit", "body_limit"},
         NEW status \in Statuses \ {0}, NEW form \in Forms,
         Respond(layer, status, form, BoundId(layer)),
         UNCHANGED <<request, record, timer, handled, session, raised, wire>>,
         received' \in 0..MaxBody + MaxChunk
  PROVE  IInv'
<1>1. /\ wire = NoAnswer /\ counted = 0 /\ ~handled /\ session # "open"
      /\ session = "closing" => timer = "fired"
      /\ exempt => session = "none" /\ timer = "off"
      /\ session \in {"none", "open", "closing", "closed", "broken"}
      /\ timer \in {"off", "armed", "fired"}
  BY DEF IInv, TypeOK, ContextInv, ReplyInv, SessionInv, BodyInv, Before
<1> QED
  BY <1>1, RespondInv DEF Inner

(* The rate limit and the routing. *)
LEMMA RouteInv ==
  ASSUME IInv, LimiterDecides \/ Route
  PROVE  IInv'
<1>1. /\ pc \in {"limiter", "route"} /\ received = 0
      /\ received' = received
      /\ UNCHANGED <<request, timer, raised, wire>>
  BY DEF LimiterDecides, Route, entry, IInv, BodyInv
<1>2. received \in 0..MaxBody /\ received \in 0..MaxBody + MaxChunk
  BY <1>1, SettingsAssumption
<1>3. CASE LimiterDecides
  <2>1. pc = "limiter" /\ UNCHANGED <<handled, session>>
    BY <1>3 DEF LimiterDecides, entry
  <2>2. CASE pc' = "route" /\ UNCHANGED <<record, answer>>
    BY <1>1, <1>2, <2>1, <2>2, OnwardInv
  <2>3. CASE \/ AnswerInstead("rate_limit", 429)
             \/ AnswerInstead("rate_limit", 503)
    BY <1>1, <1>2, <2>1, <2>3, RefuseInv DEF AnswerInstead, Statuses, Forms
  <2> QED
    BY <1>3, <2>2, <2>3 DEF LimiterDecides
<1>4. CASE Route
  <2>1. pc = "route"
    BY <1>4 DEF Route
  <2>2. CASE /\ Respond("app", 404, "detail", BoundId("app"))
             /\ UNCHANGED <<record, handled, session>>
    BY <1>1, <1>2, <2>1, <2>2, RefuseInv DEF Statuses, Forms
  <2>3. CASE CallEndpoint
    <3>1. pc' = "handler" /\ UNCHANGED <<record, answer>>
      BY <2>3 DEF CallEndpoint
    <3> QED
      BY <1>1, <1>2, <2>1, <2>3, <3>1, OnwardInv
  <2>4. CASE /\ reads # "none" /\ pc' = "receive"
             /\ UNCHANGED <<record, answer, handled, session>>
    <3>1. ~exempt
      BY <2>4 DEF IInv, BodyInv
    <3> QED
      BY <1>1, <1>2, <2>1, <2>4, <3>1, OnwardInv
  <2> QED
    BY <1>4, <2>2, <2>3, <2>4 DEF Route
<1> QED
  BY <1>3, <1>4

(* A message of the body: the endpoint sees it only within the limit. *)
LEMMA ReceiveInv ==
  ASSUME IInv, NEW size \in 0..MaxChunk, Receive(size)
  PROVE  IInv'
<1>1. /\ pc = "receive" /\ received \in 0..MaxBody /\ ~exempt
      /\ received' = received + size
      /\ UNCHANGED <<request, timer, raised, wire>>
  BY SettingsAssumption DEF IInv, TypeOK, BodyInv, Receive
<1>2. received' \in 0..MaxBody + MaxChunk
  BY <1>1, SettingsAssumption
<1>3. ~TooLarge(size) => received' \in 0..MaxBody
  BY <1>1, SettingsAssumption DEF TooLarge
<1>4. CASE ReceiveTooMuch(size)
  BY <1>1, <1>2, <1>4, RefuseInv
  DEF ReceiveTooMuch, AnswerInstead, Statuses, Forms
<1>5. CASE ReceiveMore(size)
  BY <1>1, <1>3, <1>5, OnwardInv DEF ReceiveMore
<1>6. CASE ReceiveLast(size)
  <2>1. CASE CallEndpoint
    <3>1. pc' = "handler" /\ UNCHANGED <<record, answer>>
      BY <2>1 DEF CallEndpoint
    <3> QED
      BY <1>1, <1>3, <1>6, <2>1, <3>1, OnwardInv DEF ReceiveLast
  <2>2. CASE AnswerInstead("app", 422) /\ UNCHANGED <<handled, session>>
    BY <1>1, <1>2, <2>2, RefuseInv DEF AnswerInstead, Statuses, Forms
  <2> QED
    BY <1>6, <2>1, <2>2 DEF ReceiveLast
<1> QED
  BY <1>4, <1>5, <1>6 DEF Receive

-----------------------------------------------------------------------------

(* The endpoint returns, rejects, raises or runs into a timeout. *)
LEMMA HandlerInv ==
  ASSUME IInv,
         HandlerReturns \/ HandlerRejects \/ HandlerRaises \/ HandlerTimesOut
  PROVE  IInv'
<1>1. /\ pc = "handler" /\ timer' = timer /\ counted = 0 /\ wire = NoAnswer
      /\ session = "closing" => timer = "fired"
      /\ exempt => session = "none" /\ timer = "off"
      /\ session \in {"none", "open", "closing", "closed", "broken"}
      /\ timer \in {"off", "armed", "fired"}
      /\ received \in 0..MaxBody + MaxChunk
  BY DEF HandlerReturns, HandlerRejects, HandlerRaises, HandlerTimesOut,
     IInv, TypeOK, ContextInv, ReplyInv, SessionInv, Before
<1>2. CASE HandlerReturns
  BY <1>1, <1>2, RespondInv DEF HandlerReturns, entry, Statuses, Forms, Inner
<1>3. CASE HandlerRejects
  BY <1>1, <1>3, WayOutInv DEF HandlerRejects
<1>4. CASE HandlerRaises
  BY <1>1, <1>4, WayOutInv DEF HandlerRaises
<1>5. CASE HandlerTimesOut
  BY <1>1, <1>5, WayOutInv DEF HandlerTimesOut
<1> QED
  BY <1>2, <1>3, <1>4, <1>5

(* The server takes a start. *)
LEMMA TakesStartInv ==
  ASSUME IInv, ServerTakesStart
  PROVE  IInv'
<1>1. /\ pc = "respond" /\ pc' = "body" /\ wire = NoAnswer
      /\ wire' = Sent(reply.layer, reply.status, reply.form, reply.rid)
      /\ UNCHANGED <<exempt, reads, supplied, context, counted, timer,
                     received, handled, session, raised, reply, status_code>>
  BY DEF ServerTakesStart, request, record, entry, answer
<1>2. /\ reply # NoReply /\ reply \in Reply
      /\ reply.layer \in Inner \cup Outside
  BY <1>1 DEF IInv, TypeOK, ReplyInv, Reply, Layers, Inner, Outside, Before
<1>3. /\ reply.status \in Statuses /\ reply.form \in Forms
      /\ reply.rid \in {"own", "fresh"}
  BY <1>2 DEF Reply
<1>4. /\ wire' \in Answer /\ wire' # NoAnswer
      /\ wire'.status = reply.status /\ wire'.rid = reply.rid
      /\ wire'.form = reply.form
      /\ reply.layer \in Inner => wire'.request_id /\ wire'.security
  <2>1. \A layer : /\ Inside(layer, "request_id") \in BOOLEAN
                    /\ Inside(layer, "security_headers") \in BOOLEAN
    BY DEF Inside
  <2> QED
    BY <1>1, <1>3, <2>1, StackOrder, NoAnswerAssumption DEF Sent, Answer
<1>5. /\ reply.layer \in Inner => reply.rid = "own"
      /\ reply.layer \in Outside => reply.status = 500
      /\ reply.layer = "server_error" => reply.rid = "own" \/ ~supplied
      /\ reply.layer = "server" => reply.form # "envelope"
  BY <1>2, <1>3 DEF IInv, ReplyInv
<1>6. TypeOK' /\ ContextInv'
  BY <1>1, <1>4 DEF IInv, TypeOK, ContextInv, Before
<1>7. ReplyInv'
  BY <1>1, <1>2 DEF IInv, ReplyInv, Before, Inner, Outside
<1>8. WireInv' /\ ClosingInv'
  BY <1>1, <1>4 DEF WireInv, ClosingInv
<1>9. SessionInv' /\ BodyInv' /\ OversizeNeverHandled'
  BY <1>1 DEF IInv, SessionInv, BodyInv, OversizeNeverHandled
<1>10. CountedAsSent' /\ HeadersOnEveryAnswer' /\ ErrorsTraceable'
  BY <1>1, <1>2, <1>4, <1>5
  DEF CountedAsSent, HeadersOnEveryAnswer, ErrorsTraceable, Outside
<1>11. SessionLeft'
  BY <1>1, <1>2, <1>4 DEF IInv, SessionInv, SessionLeft, TypeOK
<1> QED
  BY <1>6, <1>7, <1>8, <1>9, <1>10, <1>11 DEF IInv

(* The server refuses a second start. *)
LEMMA RefusesStartInv ==
  ASSUME IInv, ServerRefusesStart
  PROVE  IInv'
<1>1. /\ pc = "respond" /\ wire # NoAnswer /\ Return
      /\ UNCHANGED <<request, timer, entry, session, raised, wire>>
  BY DEF ServerRefusesStart
<1>2. Second /\ reply # NoReply
  BY <1>1 DEF IInv, WireInv, ReplyInv, Before
<1>3. counted = 0 /\ session # "open"
  BY <1>1, <1>2 DEF IInv, ReplyInv, SessionInv, Second, Inner
<1>4. Left' /\ (exempt => session' = "none")
  BY <1>1, <1>3 DEF IInv, TypeOK, SessionInv, Left
<1> QED
  BY <1>1, <1>2, <1>3, <1>4, ReturnInv

(* The rest of an answer is sent. *)
LEMMA SendBodyInv ==
  ASSUME IInv, SendBody
  PROVE  IInv'
<1>1. /\ pc = "body" /\ timer' = timer /\ wire # NoAnswer
      /\ wire.status = reply.status /\ reply # NoReply
      /\ session = "closing" => timer = "fired"
      /\ exempt => session = "none" /\ timer = "off"
  BY DEF SendBody, IInv, WireInv, ReplyInv, SessionInv, Before
<1>2. reply.layer \in Inner => counted = 0
  BY <1>1 DEF IInv, ReplyInv
<1>3. CASE reply.layer = "app" /\ WayOut("nothing")
  BY <1>1, <1>2, <1>3, WayOutInv DEF Inner
<1>4. CASE /\ reply.layer \in {"rate_limit", "timeout", "body_limit"} /\ Return
           /\ UNCHANGED <<request, entry, session, raised, wire>>
  <2>1. Left' /\ (exempt => session' = "none")
    BY <1>1, <1>4 DEF IInv, TypeOK, SessionInv, Left, NoReply
  <2> QED
    BY <1>1, <1>2, <1>4, <2>1, ReturnInv DEF Inner
<1>5. CASE /\ reply.layer \in Outside /\ pc' = "done"
           /\ UNCHANGED <<request, record, entry, session, raised, wire,
                          answer>>
  <2>1. /\ counted # 0 /\ counted = status_code /\ reply.status = 500
        /\ session # "open" /\ reply.layer \notin Inner
        /\ reply.layer = "server_error" => status_code = 500
    BY <1>1, <1>5 DEF IInv, ReplyInv, SessionInv, Outside, Inner
  <2>2. UNCHANGED <<exempt, reads, supplied, context, counted, timer, received,
                    handled, session, raised, wire, reply, status_code>>
    BY <1>1, <1>5 DEF request, record, entry, answer
  <2>3. TypeOK' /\ ContextInv'
    BY <1>5, <2>1, <2>2 DEF IInv, TypeOK, ContextInv, Before
  <2>4. ReplyInv'
    BY <1>1, <1>5, <2>1, <2>2 DEF IInv, ReplyInv, Before, Inner, Outside
  <2>5. WireInv' /\ ClosingInv' /\ SessionInv'
    BY <1>1, <1>5, <2>1, <2>2
    DEF IInv, WireInv, Second, ClosingInv, SessionInv
  <2>6. CountedAsSent'
    BY <1>1, <1>5, <2>1, <2>2 DEF IInv, ReplyInv, CountedAsSent, Outside
  <2>7. /\ BodyInv' /\ HeadersOnEveryAnswer' /\ ErrorsTraceable'
        /\ OversizeNeverHandled'
    BY <1>5, <2>2 DEF IInv, BodyInv, HeadersOnEveryAnswer, ErrorsTraceable,
       OversizeNeverHandled
  <2>8. SessionLeft'
    BY <1>1, <1>5, <2>1, <2>2 DEF IInv, TypeOK, SessionLeft
  <2> QED
    BY <2>3, <2>4, <2>5, <2>6, <2>7, <2>8 DEF IInv
<1> QED
  BY <1>3, <1>4, <1>5 DEF SendBody, Outside

(* The timeout strikes at an await inside wait_for. *)
LEMMA TimerInv ==
  ASSUME IInv, TimerFires
  PROVE  IInv'
<1>1. /\ timer = "armed" /\ timer' = "fired" /\ WayOut("timeout")
      /\ pc \in {"limiter", "receive", "handler", "closing", "respond", "body"}
  BY DEF TimerFires, Cancellable
<1>2. ~exempt
  BY <1>1 DEF IInv, SessionInv
<1>3. counted = 0
  <2>1. CASE pc \in {"limiter", "receive", "handler", "closing"}
    BY <2>1 DEF IInv, ContextInv, Before
  <2>2. CASE pc \in {"respond", "body"}
    <3>1. reply.layer \in Inner \cup Outside
      BY DEF IInv, TypeOK, Reply, Layers, Inner, Outside
    <3>2. Inside(reply.layer, "timeout")
      BY <2>2 DEF TimerFires, Cancellable
    <3>3. reply.layer \notin Outside
      BY <3>2, OutsideUnseen
    <3> QED
      BY <2>2, <3>1, <3>3 DEF IInv, ReplyInv
  <2> QED
    BY <1>1, <2>1, <2>2
<1> QED
  BY <1>1, <1>2, <1>3, WayOutInv

(* Every step preserves it. *)
LEMMA NextInv == IInv /\ [Next]_vars => IInv'
<1> SUFFICES ASSUME IInv, [Next]_vars PROVE IInv'
  OBVIOUS
<1>1. CASE UNCHANGED vars
  BY <1>1 DEF vars, IInv, TypeOK, ContextInv, ReplyInv, WireInv, Second,
     ClosingInv, SessionInv, BodyInv, CountedAsSent, HeadersOnEveryAnswer,
     ErrorsTraceable, OversizeNeverHandled, SessionLeft
<1> QED
  BY <1>1, ArriveInv, RouteInv, ReceiveInv, HandlerInv, CloseInv,
     CloseBehindInv, TakesStartInv, RefusesStartInv, SendBodyInv, TimerInv
  DEF Next, Finished

(* The inductive invariant holds in every reachable state. *)
THEOREM Invariance == Spec => []IInv
BY InitInv, NextInv, PTL DEF Spec

(* Type correctness. *)
THEOREM TypeCorrect == Spec => []TypeOK
<1>1. IInv => TypeOK
  BY DEF IInv
<1> QED
  BY <1>1, Invariance, PTL

(* Whatever layer answers, the counter and the client agree on the status,
   but for a timeout that struck an answer under way and a session whose
   close raised after one had begun. *)
THEOREM MetricsCountWhatIsSent == Spec => []CountedAsSent
<1>1. IInv => CountedAsSent
  BY DEF IInv
<1> QED
  BY <1>1, Invariance, PTL

(* Early refusals and timeouts carry the same headers as other answers. *)
THEOREM HeadersAreAdded == Spec => []HeadersOnEveryAnswer
<1>1. IInv => HeadersOnEveryAnswer
  BY DEF IInv
<1> QED
  BY <1>1, Invariance, PTL

(* An error can be found in the logs by the id in its envelope. *)
THEOREM ErrorsCanBeTraced == Spec => []ErrorsTraceable
<1>1. IInv => ErrorsTraceable
  BY DEF IInv
<1> QED
  BY <1>1, Invariance, PTL

(* The limit holds for a body in any number of messages of any size. *)
THEOREM LimitHolds == Spec => []OversizeNeverHandled
<1>1. IInv => OversizeNeverHandled
  BY DEF IInv
<1> QED
  BY <1>1, Invariance, PTL

(* A failure is told, and a request is over, only once the session is left. *)
THEOREM SessionsAreLeft == Spec => []SessionLeft
<1>1. IInv => SessionLeft
  BY DEF IInv
<1> QED
  BY <1>1, Invariance, PTL
=============================================================================
