--------------------------------- MODULE Conn ---------------------------------
(***************************************************************************)
(* One connection and its owner (conn.c).  connect, send and recv run in a *)
(* helper thread, whose arguments and results live on the stack of the     *)
(* caller; the caller waits for it with pthread_timedjoin_np and, after    *)
(* the timeout, cancels it and joins it.  The peer and the kernel are      *)
(* external: they take and deliver units of data when they like, or never. *)
(***************************************************************************)
EXTENDS Integers

CONSTANTS
  BufSize,     \* buf_size of every call, in units
  MaxCalls,    \* calls of send_data and receive_data made on the connection
  MaxUnits     \* units the peer sends

ASSUME ConnAssumption == BufSize \in Nat \ {0} /\ MaxCalls \in Nat /\ MaxUnits \in Nat

VARIABLES
  pc,          \* where the owner is: between two calls, or in one
  op,          \* its current or last call
  result,      \* what the call returned; -1 also for false and NULL, 1 for true
  calls,       \* calls made so far
  fd,          \* _sockfd: "none", "open" or "closed"
  helper,      \* the helper thread: "none", "running" or "ended"
  cancelled,   \* pthread_cancel has been called on it
  ok,          \* thread_data.ok and thread_data.recv_bytes, through which the
  recv_bytes,  \*   helper reports
  incoming,    \* units in the socket that recv can take
  arrived,     \* units the peer has sent so far
  moved        \* units that recv took, or send gave away, in the current call

ownerVars  == <<pc, op, result, calls, fd>>
helperVars == <<helper, cancelled, ok, recv_bytes>>
netVars    == <<incoming, arrived, moved>>
vars       == <<ownerVars, helperVars, netVars>>

Init ==
  /\ pc = "start" /\ op = "connect" /\ result = 0 /\ calls = 0 /\ fd = "none"
  /\ helper = "none" /\ cancelled = FALSE /\ ok = FALSE /\ recv_bytes = 0
  /\ incoming = 0 /\ arrived = 0 /\ moved = 0
-------------------------------------------------------------------------------
(* The owner.                                                              *)

InCall == pc \in {"timedjoin", "expired", "join"}

\* Fault: ok and recv_bytes are those of the call before.
StartStaleHelper ==
  /\ helper' = "running" /\ cancelled' = FALSE /\ UNCHANGED <<ok, recv_bytes>>
  /\ pc' = "timedjoin" /\ moved' = 0

\* The initializer of thread_data zeroes ok and recv_bytes.
StartHelper ==
  /\ helper' = "running" /\ cancelled' = FALSE /\ ok' = FALSE /\ recv_bytes' = 0
  /\ pc' = "timedjoin" /\ moved' = 0

Return(r) ==
  /\ result' = r
  /\ pc' = IF op = "connect" /\ r = -1 THEN "failed" ELSE "open"

InitConn ==
  /\ pc = "start"
  /\ \/ pc' = "failed" /\ result' = -1 /\ UNCHANGED <<fd, helperVars, moved>>  \* getaddrinfo
     \/ fd' = "open" /\ StartHelper /\ UNCHANGED result
  /\ UNCHANGED <<op, calls, incoming, arrived>>

Transfer(o) ==
  /\ pc = "open" /\ calls < MaxCalls
  /\ op' = o /\ calls' = calls + 1
  /\ StartHelper
  /\ UNCHANGED <<result, fd, incoming, arrived>>

SendData    == Transfer("send")
ReceiveData == Transfer("recv")

Reported == CASE op = "recv" -> recv_bytes
              [] op # "recv" -> IF ok THEN 1 ELSE -1

\* pthread_timedjoin_np finds the helper ended.
JoinInTime ==
  /\ pc = "timedjoin" /\ helper = "ended"
  /\ Return(Reported) /\ helper' = "none"
  /\ UNCHANGED <<op, calls, fd, cancelled, ok, recv_bytes, netVars>>

\* It does not; the helper runs on until the cancel takes effect.
TimeoutExpires ==
  /\ pc = "timedjoin" /\ helper = "running"
  /\ pc' = "expired"
  /\ UNCHANGED <<op, result, calls, fd, helperVars, netVars>>

\* Fault: the helper is joined without a cancel.
SkipCancel ==
  /\ pc = "expired"
  /\ pc' = "join"
  /\ UNCHANGED <<op, result, calls, fd, helperVars, netVars>>

Cancel ==
  /\ pc = "expired"
  /\ pc' = "join" /\ cancelled' = TRUE
  /\ UNCHANGED <<op, result, calls, fd, helper, ok, recv_bytes, netVars>>

\* Fault: the call returns without joining the helper.
SkipJoin ==
  /\ pc = "join"
  /\ Return(-1)
  /\ UNCHANGED <<op, calls, fd, helperVars, netVars>>

JoinCancelled ==
  /\ pc = "join" /\ helper = "ended"
  /\ Return(-1) /\ helper' = "none"
  /\ UNCHANGED <<op, calls, fd, cancelled, ok, recv_bytes, netVars>>

FreeConn ==
  /\ pc = "open"
  /\ pc' = "freed" /\ fd' = "closed"
  /\ UNCHANGED <<op, result, calls, helperVars, netVars>>
-------------------------------------------------------------------------------
(* The helper thread.                                                      *)

Ends == helper = "running" /\ helper' = "ended" /\ UNCHANGED <<ownerVars, cancelled>>

ConnectThread ==
  /\ op = "connect" /\ Ends
  /\ ok' \in BOOLEAN
  /\ UNCHANGED <<recv_bytes, netVars>>

\* Fault: a part of the buffer is taken for the whole.
SendPartThread ==
  /\ op = "send" /\ Ends
  /\ moved' \in 0 .. BufSize
  /\ ok' = (moved' > 0)
  /\ UNCHANGED <<recv_bytes, incoming, arrived>>

\* send takes any part of the buffer, or fails.
SendThread ==
  /\ op = "send" /\ Ends
  /\ moved' \in 0 .. BufSize
  /\ ok' = (moved' = BufSize)
  /\ UNCHANGED <<recv_bytes, incoming, arrived>>

\* Fault: recv_bytes is assigned before the result of recv is tested.
RecvUntestedThread ==
  /\ op = "recv" /\ Ends
  /\ \/ /\ moved' \in 1 .. BufSize /\ moved' <= incoming
        /\ incoming' = incoming - moved'
        /\ recv_bytes' = moved' /\ ok' = TRUE
     \/ recv_bytes' = -1 /\ UNCHANGED <<moved, incoming, ok>>
  /\ UNCHANGED arrived

\* recv takes some of what there is; or it fails, or the connection is lost.
RecvThread ==
  /\ op = "recv" /\ Ends
  /\ \/ /\ moved' \in 1 .. BufSize /\ moved' <= incoming
        /\ incoming' = incoming - moved'
        /\ recv_bytes' = moved' /\ ok' = TRUE
     \/ UNCHANGED <<moved, incoming, recv_bytes, ok>>
  /\ UNCHANGED arrived

\* A helper that still waits in connect, send or recv ends by the cancel.
HelperCancelled ==
  /\ cancelled /\ Ends
  /\ UNCHANGED <<ok, recv_bytes, netVars>>

PeerSends ==
  /\ fd = "open" /\ (pc = "open" \/ op # "connect")
  /\ arrived < MaxUnits
  /\ arrived' = arrived + 1 /\ incoming' = incoming + 1
  /\ UNCHANGED <<ownerVars, helperVars, moved>>
-------------------------------------------------------------------------------
Owner == InitConn \/ SendData \/ ReceiveData \/ JoinInTime \/ Cancel \/ JoinCancelled \/ FreeConn

Helper == ConnectThread \/ SendThread \/ RecvThread \/ HelperCancelled

Terminated == pc \in {"freed", "failed"} /\ UNCHANGED vars

Next == Owner \/ TimeoutExpires \/ Helper \/ PeerSends \/ Terminated

Spec == Init /\ [][Next]_vars

\* The owner runs, its timer fires and a cancelled thread ends.  Nothing makes
\* connect, send or recv return, or the peer send.
FairSpec ==
  /\ Spec
  /\ WF_vars(JoinInTime \/ Cancel \/ JoinCancelled)
  /\ WF_vars(TimeoutExpires)
  /\ WF_vars(HelperCancelled)
-------------------------------------------------------------------------------
(* Properties.                                                             *)

\* The type invariant.
TypeOK ==
  /\ pc \in {"start", "timedjoin", "expired", "join", "open", "failed", "freed"}
  /\ op \in {"connect", "send", "recv"}
  /\ result \in -1 .. BufSize
  /\ calls \in 0 .. MaxCalls
  /\ fd \in {"none", "open", "closed"}
  /\ helper \in {"none", "running", "ended"}
  /\ cancelled \in BOOLEAN /\ ok \in BOOLEAN
  /\ recv_bytes \in 0 .. BufSize
  /\ incoming \in 0 .. MaxUnits /\ arrived \in 0 .. MaxUnits
  /\ moved \in 0 .. BufSize

\* The helper never outlives the call that started it: its thread_data is on the
\* stack of that call, and its socket is closed by free_conn.
HelperInsideCall == helper = "running" => InCall /\ fd = "open"

\* A positive answer is exact: send_data's true means the whole buffer, and
\* receive_data's number is the number of units taken from the socket.
PositiveIsExact ==
  pc = "open" /\ result > 0 =>
    /\ op = "send" => moved = BufSize
    /\ op = "recv" => moved = result

\* What the proofs of these two need besides.

\* There is a helper exactly while its call is under way, on an open socket.
CallState ==
  /\ InCall <=> helper # "none"
  /\ InCall \/ pc = "open" => fd = "open"
  /\ pc = "start" => op = "connect"
  /\ incoming <= arrived

\* What thread_data says of a call, at every moment of it: nothing before the helper
\* ends, and then no more than has been moved.
Reports ==
  /\ helper = "running" => ~ok /\ recv_bytes = 0 /\ moved = 0
  /\ InCall /\ op = "send" /\ ok => moved = BufSize
  /\ InCall /\ op = "recv" /\ recv_bytes > 0 => moved = recv_bytes

\* thread_data never promises more than the socket has done, and its helper lives
\* exactly as long as the call, also between a timeout and the join.
Strengthening == CallState /\ Reports

\* Every call returns, whatever the peer does or leaves undone (conn.h: "It
\* aborts after timeout_sec seconds").
CallsReturn == InCall ~> ~InCall

\* What conn.h says, and the code does not do.

\* conn.h:31-32: receive_data "returns the number of received bytes".
FailedReceivesNothing == pc = "open" /\ op = "recv" /\ result <= 0 => moved = 0

\* conn.h:19-20: init_conn "aborts after timeout_sec seconds" and returns NULL:
\* nobody has the socket any more, so it has to be closed by then.
AbortedIsClosed == pc = "failed" => fd # "open"
===============================================================================
