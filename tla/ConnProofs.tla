------------------------------ MODULE ConnProofs ------------------------------
(***************************************************************************)
(* Theorems about Conn for buffers of any size, any number of calls and    *)
(* any amount of data from the peer.                                       *)
(***************************************************************************)
EXTENDS Conn, TLAPS

\* What recv takes leaves no less than nothing.
LEMMA TakenFromSocket ==
  \A n \in 0 .. MaxUnits, m \in 1 .. BufSize : m <= n => n - m \in 0 .. MaxUnits /\ n - m <= n
BY ConnAssumption

\* TypeOK is not inductive: the socket holds no more than the peer has sent, and
\* CallState says so.  CallState needs nothing but types.
THEOREM TypesAndCallsCorrect == Spec => [](TypeOK /\ CallState)
<1> USE ConnAssumption DEF TypeOK
<1>1. Init => TypeOK /\ CallState
  <2> SUFFICES ASSUME Init PROVE TypeOK /\ CallState
    OBVIOUS
  <2>1. TypeOK
    <3>1. cancelled \in BOOLEAN /\ ok \in BOOLEAN
      BY Zenon DEF Init
    <3> QED
      BY <3>1 DEF Init
  <2>2. CallState
    BY DEF Init, CallState, InCall
  <2> QED
    BY <2>1, <2>2
<1>2. TypeOK /\ CallState /\ [Next]_vars => (TypeOK /\ CallState)'
  <2> SUFFICES ASSUME TypeOK, CallState, [Next]_vars PROVE (TypeOK /\ CallState)'
    OBVIOUS
  <2> USE DEF CallState, InCall, ownerVars, helperVars, netVars, StartHelper, Return
  <2>1. CASE InitConn
    <3>1. TypeOK'
      <4>1. cancelled' \in BOOLEAN /\ ok' \in BOOLEAN
        BY <2>1, Zenon DEF InitConn
      <4>2. recv_bytes' \in 0 .. BufSize /\ moved' \in 0 .. BufSize /\ result' \in -1 .. BufSize
        BY <2>1 DEF InitConn
      <4> QED
        BY <2>1, <4>1, <4>2 DEF InitConn
    <3>2. CallState'
      BY <2>1 DEF InitConn
    <3> QED
      BY <3>1, <3>2
  <2>2. CASE SendData \/ ReceiveData
    <3>1. PICK o \in {"send", "recv"} : Transfer(o)
      BY <2>2 DEF SendData, ReceiveData
    <3>2. TypeOK'
      <4>1. cancelled' \in BOOLEAN /\ ok' \in BOOLEAN
        BY <3>1, Zenon DEF Transfer
      <4> QED
        BY <3>1, <4>1 DEF Transfer
    <3>3. CallState'
      BY <3>1 DEF Transfer
    <3> QED
      BY <3>2, <3>3
  <2>3. CASE JoinInTime
    BY <2>3 DEF JoinInTime, Reported
  <2>4. CASE TimeoutExpires
    BY <2>4 DEF TimeoutExpires
  <2>5. CASE Cancel
    BY <2>5 DEF Cancel
  <2>6. CASE JoinCancelled
    BY <2>6 DEF JoinCancelled
  <2>7. CASE FreeConn
    BY <2>7 DEF FreeConn
  <2>8. CASE ConnectThread
    BY <2>8 DEF ConnectThread, Ends
  <2>9. CASE SendThread
    BY <2>9 DEF SendThread, Ends
  <2>10. CASE RecvThread
    <3>1. /\ recv_bytes' \in 0 .. BufSize /\ moved' \in 0 .. BufSize /\ ok' \in BOOLEAN
          /\ incoming' \in 0 .. MaxUnits /\ incoming' <= incoming
      <4>1. CASE UNCHANGED <<moved, incoming, recv_bytes, ok>>
        BY <4>1
      <4>2. CASE /\ moved' \in 1 .. BufSize /\ moved' <= incoming
                 /\ incoming' = incoming - moved'
                 /\ recv_bytes' = moved' /\ ok' = TRUE
        <5>1. ok' \in BOOLEAN
          BY <4>2, Zenon
        <5>2. recv_bytes' \in 0 .. BufSize /\ moved' \in 0 .. BufSize
          BY <4>2
        <5>3. incoming' \in 0 .. MaxUnits /\ incoming' <= incoming
          <6>1. moved' \in 1 .. BufSize /\ moved' <= incoming /\ incoming' = incoming - moved'
            BY <4>2, Zenon
          <6>2. incoming \in 0 .. MaxUnits
            BY Zenon
          <6> QED
            BY <6>1, <6>2, TakenFromSocket, Zenon
        <5> QED
          BY <5>1, <5>2, <5>3
      <4> QED
        BY <2>10, <4>1, <4>2 DEF RecvThread
    <3>2. helper' = "ended" /\ helper = "running" /\ UNCHANGED <<ownerVars, cancelled, arrived>>
      BY <2>10 DEF RecvThread, Ends
    <3>3. TypeOK'
      BY <3>1, <3>2
    <3>4. CallState'
      BY <3>1, <3>2
    <3> QED
      BY <3>3, <3>4
  <2>11. CASE HelperCancelled
    BY <2>11 DEF HelperCancelled, Ends
  <2>12. CASE PeerSends
    BY <2>12 DEF PeerSends
  <2>13. CASE UNCHANGED vars
    BY <2>13 DEF vars
  <2> QED
    BY <2>1, <2>2, <2>3, <2>4, <2>5, <2>6, <2>7, <2>8, <2>9, <2>10, <2>11, <2>12, <2>13
    DEF Next, Owner, Helper, Terminated
<1> QED
  BY <1>1, <1>2, PTL DEF Spec

\* Every reachable state has the types of TypeOK; in particular no more is ever in
\* the socket, or in recv_bytes, than fits.
THEOREM TypeCorrect == Spec => []TypeOK
BY TypesAndCallsCorrect, PTL

\* A helper thread never outlives the call whose stack it writes to, and never works
\* on a socket that is closed.
THEOREM HelperInsideCallCorrect == Spec => []HelperInsideCall
<1>1. CallState => HelperInsideCall
  BY DEF CallState, HelperInsideCall
<1> QED
  BY <1>1, TypesAndCallsCorrect, PTL

\* Reports and PositiveIsExact are inductive together: what thread_data says of the
\* running call becomes what the call has returned.
THEOREM ReportsCorrect == Spec => [](Reports /\ PositiveIsExact)
<1> USE ConnAssumption DEF Reports, PositiveIsExact, InCall
<1>1. Init => Reports /\ PositiveIsExact
  BY DEF Init
<1>2. TypeOK /\ CallState /\ Reports /\ PositiveIsExact /\ [Next]_vars
        => (Reports /\ PositiveIsExact)'
  <2> SUFFICES ASSUME TypeOK, CallState, Reports, PositiveIsExact, [Next]_vars
               PROVE  (Reports /\ PositiveIsExact)'
    OBVIOUS
  <2> USE DEF TypeOK, ownerVars, helperVars, netVars, StartHelper, Return
  <2>1. CASE InitConn
    BY <2>1 DEF InitConn, CallState
  <2>2. CASE SendData \/ ReceiveData
    BY <2>2 DEF SendData, ReceiveData, Transfer
  <2>3. CASE JoinInTime
    BY <2>3 DEF JoinInTime, Reported
  <2>4. CASE TimeoutExpires \/ Cancel \/ FreeConn
    BY <2>4 DEF TimeoutExpires, Cancel, FreeConn
  <2>5. CASE JoinCancelled
    BY <2>5 DEF JoinCancelled
  <2>6. CASE ConnectThread
    BY <2>6 DEF ConnectThread, Ends, CallState
  <2>7. CASE SendThread
    BY <2>7 DEF SendThread, Ends, CallState
  <2>8. CASE RecvThread
    BY <2>8 DEF RecvThread, Ends, CallState
  <2>9. CASE HelperCancelled
    BY <2>9 DEF HelperCancelled, Ends
  <2>10. CASE PeerSends
    BY <2>10 DEF PeerSends
  <2>11. CASE UNCHANGED vars
    BY <2>11 DEF vars
  <2> QED
    BY <2>1, <2>2, <2>3, <2>4, <2>5, <2>6, <2>7, <2>8, <2>9, <2>10, <2>11
    DEF Next, Owner, Helper, Terminated
<1> QED
  BY <1>1, <1>2, TypesAndCallsCorrect, PTL DEF Spec

\* A positive answer of send_data or receive_data is exact.
THEOREM PositiveIsExactCorrect == Spec => []PositiveIsExact
BY ReportsCorrect, PTL

\* Both strengthenings hold in every reachable state.
THEOREM StrengtheningCorrect == Spec => []Strengthening
<1>1. CallState /\ Reports => Strengthening
  BY DEF Strengthening
<1> QED
  BY <1>1, TypesAndCallsCorrect, ReportsCorrect, PTL
===============================================================================
