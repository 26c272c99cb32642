-------------------------- MODULE PushServerProofs --------------------------
(***************************************************************************)
(* The safety properties of PushServer for any number of requests.         *)
(***************************************************************************)
EXTENDS PushServer, TLAPS

\* Nothing is cut before Run returns.
CutInv == main # "done" => dropped = {}

\* HTTP requests that are still there when gRPC is stopped have used up the
\* deadline, and the error says so: none arrives after Shutdown was called.
DeadlineInv ==
  main = "stop_grpc" /\ InFlight("http") # {} => expired /\ runError # "nil"

\* Until the select has been left no server has been told to stop, so that every
\* value on its way to Run is an error.
ServingInv ==
  main \in {"listen_http", "listen_grpc", "serve"} =>
    /\ errors \in Seq({"error"})
    /\ \A x \in Transport : serve[x] # "send_nil"
    /\ graceful = "off"

\* After the select there is a reason for the shutdown.
AskedInv ==
  main \in {"stop_http", "stop_grpc", "done"} /\ runError = "nil" => canceled

\* ExitTellsTruth and NilMeansAsked are about the moment of the return; what leads
\* to it has to be known before.
Inv == TypeOK /\ CutInv /\ DeadlineInv /\ ExitTellsTruth /\ ServingInv /\ AskedInv

-----------------------------------------------------------------------------

LEMMA InitInv == Init => Inv
<1> SUFFICES ASSUME Init PROVE Inv
  OBVIOUS
<1>1. TypeOK
  <2>1. canceled \in BOOLEAN /\ expired \in BOOLEAN
    BY DEF Init
  <2>2. errors \in Seq({"nil", "error"}) /\ Len(errors) <= 2
    BY DEF Init
  <2>3. /\ listener \in [Transport -> {"none", "open", "closed"}]
        /\ serve \in [Transport -> {"off", "serving", "send_nil", "send_error", "ended"}]
        /\ flight \in [Req -> Transport \cup {"none"}]
    BY DEF Init
  <2> QED
    BY <2>1, <2>2, <2>3 DEF Init, TypeOK
<1> QED
  BY <1>1 DEF Init, Inv, CutInv, DeadlineInv, ExitTellsTruth, ServingInv, AskedInv

\* Return keeps the types and the first error.
LEMMA ReturnKeeps ==
  ASSUME TypeOK, NEW err \in {"nil", "listen", "shutdown"}, NEW lost \in SUBSET Req,
         Return(err, lost)
  PROVE  /\ main' = "done" /\ dropped' \subseteq Req
         /\ listener' \in [Transport -> {"none", "open", "closed"}]
         /\ runError' \in {"nil", "listen", "serve", "shutdown"}
         /\ flight' \in [Req -> Transport \cup {"none"}]
         /\ err # "nil" \/ runError # "nil" => runError' # "nil"
         /\ dropped' = dropped \cup lost
  BY DEF Return, TypeOK

\* Every step of every goroutine, and what comes from outside.
LEMMA InvStep == Inv /\ [Next]_vars => Inv'
<1> SUFFICES ASSUME Inv, [Next]_vars PROVE Inv'
  OBVIOUS
<1>0. TypeOK /\ CutInv /\ DeadlineInv /\ ExitTellsTruth /\ ServingInv /\ AskedInv
  BY DEF Inv
<1>1. CASE ListenHTTP
  <2>1. CASE Return("listen", {})
    <3>1. TypeOK'
      BY <1>0, <1>1, <2>1, ReturnKeeps DEF ListenHTTP, TypeOK
    <3>2. main' = "done" /\ dropped' = {} /\ runError' # "nil"
      BY <1>0, <1>1, <2>1, ReturnKeeps DEF ListenHTTP, CutInv
    <3> QED
      BY <3>1, <3>2 DEF Inv, CutInv, DeadlineInv, ExitTellsTruth, ServingInv, AskedInv
  <2>2. CASE ~Return("listen", {})
    <3>1. TypeOK'
      BY <1>0, <1>1, <2>2 DEF ListenHTTP, TypeOK, Transport
    <3> QED
      BY <1>0, <1>1, <2>2, <3>1
      DEF ListenHTTP, Inv, CutInv, DeadlineInv, ExitTellsTruth, ServingInv, AskedInv
  <2> QED
    BY <2>1, <2>2
<1>2. CASE ListenGRPC
  <2>1. CASE Return("listen", {}) /\ UNCHANGED serve
    <3>1. TypeOK'
      BY <1>0, <1>2, <2>1, ReturnKeeps DEF ListenGRPC, TypeOK
    <3>2. main' = "done" /\ dropped' = {} /\ runError' # "nil"
      BY <1>0, <1>2, <2>1, ReturnKeeps DEF ListenGRPC, CutInv
    <3> QED
      BY <3>1, <3>2 DEF Inv, CutInv, DeadlineInv, ExitTellsTruth, ServingInv, AskedInv
  <2>2. CASE ~(Return("listen", {}) /\ UNCHANGED serve)
    <3>1. TypeOK'
      BY <1>0, <1>2, <2>2 DEF ListenGRPC, TypeOK, Transport
    <3> QED
      BY <1>0, <1>2, <2>2, <3>1
      DEF ListenGRPC, Inv, CutInv, DeadlineInv, ExitTellsTruth, ServingInv, AskedInv
  <2> QED
    BY <2>1, <2>2
<1>3. CASE Wake
  <2>1. errors' \in Seq({"nil", "error"}) /\ Len(errors') <= 2
    BY <1>0, <1>3 DEF Wake, TypeOK
  <2>2. TypeOK'
    BY <1>0, <1>3, <2>1 DEF Wake, TypeOK, Transport
  <2>3. AskedInv'
    <3>1. CASE canceled
      BY <1>3, <3>1 DEF Wake, AskedInv
    <3>2. CASE errors # <<>> /\ runError' = IF Head(errors) = "error" THEN "serve" ELSE "nil"
      <4>1. Head(errors) = "error"
        BY <1>0, <1>3, <3>2 DEF Wake, ServingInv
      <4> QED
        BY <3>2, <4>1 DEF AskedInv
    <3> QED
      BY <1>3, <3>1, <3>2 DEF Wake
  <2> QED
    BY <1>0, <1>3, <2>2, <2>3 DEF Wake, Inv, CutInv, DeadlineInv, ExitTellsTruth, ServingInv
<1>4. CASE HTTPStopped
  <2>1. TypeOK'
    BY <1>0, <1>4 DEF HTTPStopped, TypeOK
  <2>2. DeadlineInv'
    BY <1>0, <1>4 DEF HTTPStopped, DeadlineInv, InFlight
  <2> QED
    BY <1>0, <1>4, <2>1, <2>2 DEF HTTPStopped, Inv, CutInv, ExitTellsTruth, ServingInv, AskedInv
<1>5. CASE GRPCStopped
  <2>1. InFlight("http") \in SUBSET Req /\ Return("nil", InFlight("http"))
    BY <1>5 DEF GRPCStopped, InFlight
  <2>2. TypeOK'
    BY <1>0, <1>5, <2>1, ReturnKeeps DEF GRPCStopped, TypeOK
  <2>3. /\ main' = "done" /\ dropped' = InFlight("http") /\ expired' = expired
        /\ runError # "nil" => runError' # "nil"
    BY <1>0, <1>5, <2>1, ReturnKeeps DEF GRPCStopped, CutInv
  <2>4. ExitTellsTruth'
    BY <1>0, <1>5, <2>3 DEF GRPCStopped, DeadlineInv, ExitTellsTruth
  <2> QED
    BY <1>0, <1>5, <2>2, <2>3, <2>4 DEF GRPCStopped, Inv, CutInv, DeadlineInv, ServingInv, AskedInv
<1>6. CASE GRPCForced
  <2> DEFINE lost == InFlight("http") \cup InFlight("grpc")
  <2>1. lost \in SUBSET Req /\ Return("shutdown", lost)
    BY <1>6 DEF GRPCForced, InFlight
  <2> HIDE DEF lost
  <2>2. TypeOK'
    BY <1>0, <1>6, <2>1, ReturnKeeps DEF GRPCForced, TypeOK
  <2>3. main' = "done" /\ runError' # "nil" /\ expired'
    BY <1>0, <1>6, <2>1, ReturnKeeps DEF GRPCForced
  <2> QED
    BY <2>2, <2>3 DEF Inv, CutInv, DeadlineInv, ExitTellsTruth, ServingInv, AskedInv
<1>7. ASSUME NEW x \in Transport, ServeFails(x) PROVE Inv'
  <2>1. TypeOK'
    BY <1>0, <1>7 DEF ServeFails, TypeOK
  <2> QED
    BY <1>0, <1>7, <2>1
    DEF ServeFails, Inv, CutInv, DeadlineInv, InFlight, ExitTellsTruth, ServingInv, AskedInv
<1>8. ASSUME NEW x \in Transport, Send(x) PROVE Inv'
  <2>1. errors' \in Seq({"nil", "error"}) /\ Len(errors') <= 2
    BY <1>0, <1>8 DEF Send, Capacity, TypeOK
  <2>2. TypeOK'
    BY <1>0, <1>8, <2>1 DEF Send, TypeOK
  <2>3. ServingInv'
    BY <1>0, <1>8 DEF Send, ServingInv, TypeOK
  <2> QED
    BY <1>0, <1>8, <2>2, <2>3
    DEF Send, Inv, CutInv, DeadlineInv, InFlight, ExitTellsTruth, AskedInv
<1>9. ASSUME NEW x \in Transport, NEW r \in Req, Arrive(r, x) PROVE Inv'
  <2>1. TypeOK'
    BY <1>0, <1>9 DEF Arrive, TypeOK
  <2>2. DeadlineInv'
    <3> SUFFICES ASSUME main' = "stop_grpc", NEW q \in InFlight("http")'
                 PROVE  expired' /\ runError' # "nil"
      BY DEF DeadlineInv
    <3>1. q \in InFlight("http") /\ main = "stop_grpc"
      BY <1>0, <1>9 DEF Arrive, InFlight, TypeOK
    <3> QED
      BY <1>0, <1>9, <3>1 DEF Arrive, DeadlineInv
  <2> QED
    BY <1>0, <1>9, <2>1, <2>2 DEF Arrive, Inv, CutInv, ExitTellsTruth, ServingInv, AskedInv
<1>10. ASSUME NEW r \in Req, Finish(r) PROVE Inv'
  <2>1. TypeOK'
    BY <1>0, <1>10 DEF Finish, TypeOK
  <2>2. DeadlineInv'
    <3> SUFFICES ASSUME main' = "stop_grpc", NEW q \in InFlight("http")'
                 PROVE  expired' /\ runError' # "nil"
      BY DEF DeadlineInv
    <3>1. q \in InFlight("http") /\ main = "stop_grpc"
      BY <1>0, <1>10 DEF Finish, InFlight, TypeOK
    <3> QED
      BY <1>0, <1>10, <3>1 DEF Finish, DeadlineInv
  <2> QED
    BY <1>0, <1>10, <2>1, <2>2 DEF Finish, Inv, CutInv, ExitTellsTruth, ServingInv, AskedInv
<1>11. CASE GracefulStop
  <2>1. TypeOK'
    BY <1>0, <1>11 DEF GracefulStop, TypeOK, Transport
  <2> QED
    BY <1>0, <1>11, <2>1
    DEF GracefulStop, Inv, CutInv, DeadlineInv, InFlight, ExitTellsTruth, ServingInv, AskedInv
<1>12. CASE Cancel \/ Expire
  <2>1. TypeOK'
    BY <1>0, <1>12 DEF Cancel, Expire, TypeOK
  <2> QED
    BY <1>0, <1>12, <2>1
    DEF Cancel, Expire, Inv, CutInv, DeadlineInv, InFlight, ExitTellsTruth, ServingInv, AskedInv
<1>13. CASE UNCHANGED vars
  BY <1>0, <1>13
  DEF vars, Inv, TypeOK, CutInv, DeadlineInv, InFlight, ExitTellsTruth, ServingInv, AskedInv
<1> QED
  BY <1>1, <1>2, <1>3, <1>4, <1>5, <1>6, <1>7, <1>8, <1>9, <1>10, <1>11, <1>12, <1>13
  DEF Next, RunStep

LEMMA ServerInv == Spec => []Inv
  BY InitInv, InvStep, PTL DEF Spec

\* The channel never holds more than it has room for, and every variable keeps
\* its type.
THEOREM ServerTypeCorrect == Spec => []TypeOK
<1>1. Inv => TypeOK
  BY DEF Inv
<1> QED
  BY <1>1, ServerInv, PTL

\* Run returns nil only if it cut no request, and cuts one only at the deadline.
THEOREM ExitStatusIsTrue == Spec => []ExitTellsTruth
<1>1. Inv => ExitTellsTruth
  BY DEF Inv
<1> QED
  BY <1>1, ServerInv, PTL

\* Run returns nil only if its context was done.
THEOREM NilIsAsked == Spec => []NilMeansAsked
<1>1. Inv => NilMeansAsked
  BY DEF Inv, AskedInv, NilMeansAsked
<1> QED
  BY <1>1, ServerInv, PTL

=============================================================================
