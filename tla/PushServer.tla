----------------------------- MODULE PushServer -----------------------------
(***************************************************************************)
(* The life of the Push Service process (src/internal/pushservice/app.go): *)
(* App.Run opens two listeners, serves HTTP and gRPC in a goroutine each,  *)
(* waits for the first error or for cancellation, and shuts both servers   *)
(* down, one after the other, under one deadline.  What a request does     *)
(* meanwhile is PushService; here it is in flight or it is not, and it may *)
(* take for ever.  net/http and grpc are external.                         *)
(***************************************************************************)
EXTENDS Naturals, Sequences

CONSTANT Req   \* requests that may be in flight at once

VARIABLES
  main,       \* where Run is
  listener,   \* the listener of each transport
  serve,      \* the goroutine that serves it
  errors,     \* errorsChannel
  graceful,   \* the goroutine that runs GracefulStop
  canceled,   \* the context of Run is done
  expired,    \* shutdownContext is done
  flight,     \* the transport each request is in flight on, or "none"
  runError,   \* what Run returns
  dropped     \* ghost: requests that got no answer because Run went on

vars == <<main, listener, serve, errors, graceful, canceled, expired, flight, runError, dropped>>

Transport == {"http", "grpc"}

\* Mutant: room for one error only.
CapacityOne == 1

\* make(chan error, 2)
Capacity == 2

Init ==
  /\ main = "listen_http"
  /\ listener = [x \in Transport |-> "none"]
  /\ serve = [x \in Transport |-> "off"]
  /\ errors = <<>>
  /\ graceful = "off"
  /\ canceled = FALSE /\ expired = FALSE
  /\ flight = [r \in Req |-> "none"]
  /\ runError = "nil"
  /\ dropped = {}

InFlight(x) == {r \in Req : flight[r] = x}

-----------------------------------------------------------------------------
(* Run.                                                                    *)

\* Run returns and the process ends; the deferred Close calls have their effect,
\* and what is in flight is lost.  The first error is kept.
Return(err, lost) ==
  /\ main' = "done"
  /\ runError' = IF runError = "nil" THEN err ELSE runError
  /\ listener' = [x \in Transport |-> IF listener[x] = "none" THEN "none" ELSE "closed"]
  /\ dropped' = dropped \cup lost
  /\ flight' = [r \in Req |-> "none"]

ListenHTTP ==
  /\ main = "listen_http"
  /\ \/ /\ main' = "listen_grpc"
        /\ listener' = [listener EXCEPT !["http"] = "open"]
        /\ UNCHANGED <<runError, dropped, flight>>
     \/ Return("listen", {})
  /\ UNCHANGED <<serve, errors, graceful, canceled, expired>>

\* With both listeners there, both goroutines are started.
ListenGRPC ==
  /\ main = "listen_grpc"
  /\ \/ /\ main' = "serve"
        /\ listener' = [listener EXCEPT !["grpc"] = "open"]
        /\ serve' = [x \in Transport |-> "serving"]
        /\ UNCHANGED <<runError, dropped, flight>>
     \/ Return("listen", {}) /\ UNCHANGED serve
  /\ UNCHANGED <<errors, graceful, canceled, expired>>

\* Mutant: the error of the server is returned as it came.
WakeRaw ==
  /\ main = "serve"
  /\ errors # <<>>
  /\ errors' = Tail(errors)
  /\ runError' = Head(errors)
  /\ main' = "stop_http"
  /\ UNCHANGED <<listener, serve, graceful, canceled, expired, flight, dropped>>

\* Mutant: a server that fails only ends the wait; its error is dropped.
WakeForgets ==
  /\ main = "serve"
  /\ \/ canceled /\ UNCHANGED errors
     \/ errors # <<>> /\ errors' = Tail(errors)
  /\ main' = "stop_http"
  /\ listener' = [listener EXCEPT !["http"] = "closed"]
  /\ serve' = [serve EXCEPT !["http"] = IF @ = "serving" THEN "send_nil" ELSE @]
  /\ UNCHANGED <<graceful, canceled, expired, flight, runError, dropped>>

\* The select: the context is done, or a server has failed; either if both.
\* Then health is switched off, the deadline is armed, and httpServer.Shutdown
\* closes the HTTP listener, which ends Serve without an error.
Wake ==
  /\ main = "serve"
  /\ \/ canceled /\ UNCHANGED <<errors, runError>>
     \/ /\ errors # <<>>
        /\ errors' = Tail(errors)
        /\ runError' = IF Head(errors) = "error" THEN "serve" ELSE "nil"
  /\ main' = "stop_http"
  /\ listener' = [listener EXCEPT !["http"] = "closed"]
  /\ serve' = [serve EXCEPT !["http"] = IF @ = "serving" THEN "send_nil" ELSE @]
  /\ UNCHANGED <<graceful, canceled, expired, flight, dropped>>

\* Mutant: an HTTP shutdown that runs into the deadline is not reported.
HTTPStoppedQuiet ==
  /\ main = "stop_http"
  /\ InFlight("http") = {} \/ expired
  /\ main' = "stop_grpc"
  /\ graceful' = "starting"
  /\ UNCHANGED <<listener, serve, errors, canceled, expired, flight, runError, dropped>>

\* Shutdown returns once every connection is idle, or with the deadline, and the
\* goroutine for GracefulStop is started.
HTTPStopped ==
  /\ main = "stop_http"
  /\ \/ InFlight("http") = {} /\ UNCHANGED runError
     \/ expired /\ runError' = IF runError = "nil" THEN "shutdown" ELSE runError
  /\ main' = "stop_grpc"
  /\ graceful' = "starting"
  /\ UNCHANGED <<listener, serve, errors, canceled, expired, flight, dropped>>

\* grpcStopped is closed: Run returns what it has.
GRPCStopped ==
  /\ main = "stop_grpc"
  /\ graceful = "ended"
  /\ Return("nil", InFlight("http"))
  /\ UNCHANGED <<serve, errors, graceful, canceled, expired>>

\* The deadline: grpcServer.Stop cuts what is in flight.
GRPCForced ==
  /\ main = "stop_grpc"
  /\ expired
  /\ Return("shutdown", InFlight("http") \cup InFlight("grpc"))
  /\ UNCHANGED <<serve, errors, graceful, canceled, expired>>

RunStep == ListenHTTP \/ ListenGRPC \/ Wake \/ HTTPStopped \/ GRPCStopped \/ GRPCForced

-----------------------------------------------------------------------------
(* The other goroutines.                                                   *)

\* grpcServer goes on until GracefulStop has begun, through the whole shutdown of
\* httpServer.
GRPCGoesOn == main \in {"stop_http", "stop_grpc"} /\ graceful \in {"off", "starting"}

\* Accept fails for good: Serve closes its listener and returns the error.  Once
\* a server is shut down its Serve returns without one.
ServeFails(x) ==
  /\ serve[x] = "serving"
  /\ main = "serve" \/ (x = "grpc" /\ GRPCGoesOn)
  /\ serve' = [serve EXCEPT ![x] = "send_error"]
  /\ listener' = [listener EXCEPT ![x] = "closed"]
  /\ UNCHANGED <<main, errors, graceful, canceled, expired, flight, runError, dropped>>

\* errorsChannel <- err
Send(x) ==
  /\ serve[x] \in {"send_nil", "send_error"}
  /\ Len(errors) < Capacity
  /\ errors' = Append(errors, IF serve[x] = "send_nil" THEN "nil" ELSE "error")
  /\ serve' = [serve EXCEPT ![x] = "ended"]
  /\ UNCHANGED <<main, listener, graceful, canceled, expired, flight, runError, dropped>>

\* GracefulStop closes the listener when it starts and waits for the requests;
\* only when they are gone does Serve return.
GracefulStop ==
  /\ \/ /\ graceful = "starting" /\ graceful' = "waiting"
        /\ listener' = [listener EXCEPT !["grpc"] = "closed"]
        /\ UNCHANGED serve
     \/ /\ graceful = "waiting" /\ InFlight("grpc") = {}
        /\ graceful' = "ended"
        /\ serve' = [serve EXCEPT !["grpc"] = IF @ = "serving" THEN "send_nil" ELSE @]
        /\ UNCHANGED listener
  /\ UNCHANGED <<main, errors, canceled, expired, flight, runError, dropped>>

-----------------------------------------------------------------------------
(* Signals, the deadline and requests.                                     *)

Cancel ==
  /\ ~canceled /\ main # "done" /\ canceled' = TRUE
  /\ UNCHANGED <<main, listener, serve, errors, graceful, expired, flight, runError, dropped>>

Expire ==
  /\ main \in {"stop_http", "stop_grpc"} /\ ~expired /\ expired' = TRUE
  /\ UNCHANGED <<main, listener, serve, errors, graceful, canceled, flight, runError, dropped>>

\* Requests of connections that are there arrive even when Accept has failed.
Arrive(r, x) ==
  /\ flight[r] = "none"
  /\ main = "serve" \/ (x = "grpc" /\ GRPCGoesOn)
  /\ flight' = [flight EXCEPT ![r] = x]
  /\ UNCHANGED <<main, listener, serve, errors, graceful, canceled, expired, runError, dropped>>

Finish(r) ==
  /\ flight[r] # "none" /\ flight' = [flight EXCEPT ![r] = "none"]
  /\ UNCHANGED <<main, listener, serve, errors, graceful, canceled, expired, runError, dropped>>

Next ==
  \/ RunStep
  \/ \E x \in Transport : ServeFails(x) \/ Send(x) \/ \E r \in Req : Arrive(r, x)
  \/ GracefulStop
  \/ Cancel \/ Expire
  \/ \E r \in Req : Finish(r)

\* Goroutines run and timers fire; no request need ever end.
Fairness ==
  /\ WF_vars(RunStep)
  /\ \A x \in Transport : WF_vars(Send(x))
  /\ WF_vars(GracefulStop)
  /\ WF_vars(Expire)

Spec == Init /\ [][Next]_vars /\ Fairness

-----------------------------------------------------------------------------
(* Properties.                                                             *)

TypeOK ==
  /\ main \in {"listen_http", "listen_grpc", "serve", "stop_http", "stop_grpc", "done"}
  /\ listener \in [Transport -> {"none", "open", "closed"}]
  /\ serve \in [Transport -> {"off", "serving", "send_nil", "send_error", "ended"}]
  /\ errors \in Seq({"nil", "error"}) /\ Len(errors) <= 2
  /\ graceful \in {"off", "starting", "waiting", "ended"}
  /\ canceled \in BOOLEAN /\ expired \in BOOLEAN
  /\ flight \in [Req -> Transport \cup {"none"}]
  /\ runError \in {"nil", "listen", "serve", "shutdown"}
  /\ dropped \subseteq Req

\* The exit status tells the truth: Run returns nil only if it cut no request,
\* and it cuts one only when the deadline has passed, although HTTP and gRPC are
\* shut down one after the other and new RPCs come in meanwhile.
ExitTellsTruth ==
  /\ main = "done" /\ runError = "nil" => dropped = {}
  /\ dropped # {} => expired

\* A server that stops by itself never looks like a wanted stop: Run returns nil
\* only if its context was done, although nobody reads what a server sends once
\* the shutdown has begun.
NilMeansAsked == main = "done" /\ runError = "nil" => canceled

\* After a signal or a failed server Run returns, however long requests take,
\* and both serving goroutines end as well: nobody reads the channel any more,
\* so it has room for what they send.
RunEnds ==
  /\ canceled \/ errors # <<>> ~> main = "done"
  /\ main = "done" ~> \A x \in Transport : serve[x] \in {"off", "ended"}

=============================================================================
