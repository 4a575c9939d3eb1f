--------------------------- MODULE HttpRequestProofs ---------------------------
(***************************************************************************)
(* Proofs about HttpRequest, for every length of the file and the buffer   *)
(* and every number of descriptors.                                        *)
(***************************************************************************)
EXTENDS HttpRequest, TLAPS

\* What was sent and what is left make up cl, as long as no write failed, and
\* a write never has more to send than is left.
BodyAdds ==
    /\ pc \in {"read", "write"} /\ "failed" \notin trouble =>
           sent + left = cl /\ (left >= 0 \/ sent = 0)
    /\ pc = "write" => n \in 1..left
    /\ pc \notin {"read", "write"} => sent = 0

Parsed == DescriptorsBalance /\ OwnDescriptor

LEMMA TypeInit == Init => TypeOK
<1> USE HttpAssumption
<1> SUFFICES ASSUME Init PROVE TypeOK
  OBVIOUS
<1>1. Nothing \in Scans
  BY DEF Nothing, Scans
<1>2. scan \in Scans
  BY <1>1 DEF Init
<1>3. fsize \in 0..MaxSize /\ 0 \in Int /\ 0 \in Nat
  BY DEF Init
<1> QED
  BY <1>2, <1>3 DEF Init, TypeOK, Methods, Fds, NoFd, Troubles, PC

LEMMA TypeStep == TypeOK /\ [Next]_vars => TypeOK'
<1> USE HttpAssumption DEF Methods, Fds, NoFd, Troubles, PC
<1> SUFFICES ASSUME TypeOK, [Next]_vars PROVE TypeOK'
  OBVIOUS
<1>0. CASE ParseCrash \/ MineCrash
  <2>1. Crash
    BY <1>0 DEF ParseCrash, MineCrash
  <2>2. pc' \in PC /\ opened' \subseteq Fds /\ lost' \subseteq Fds
    BY <2>1 DEF Crash
  <2>3. UNCHANGED <<size, gone, reqVars, resVars, bodyVars>>
    BY <2>1 DEF Crash
  <2> QED
    BY <2>2, <2>3 DEF TypeOK, reqVars, resVars, bodyVars
<1>1. CASE RefuseMethod
  BY <1>1 DEF TypeOK, RefuseMethod, Reads, fileVars, resVars, bodyVars
<1>2. CASE RefuseMissing
  BY <1>2 DEF TypeOK, RefuseMissing, Reads, fileVars, bodyVars
<1>3. CASE RefuseDirectory
  BY <1>3 DEF TypeOK, RefuseDirectory, Reads, Open, bodyVars
<1>4. CASE RefuseVersion
  <2>1. version' \in BOOLEAN /\ fd' \in Fds /\ opened' \subseteq Fds /\ lost' \subseteq Fds
    <3>1. version' \in BOOLEAN
      BY <1>4 DEF TypeOK, RefuseVersion, ReadVersion
    <3> QED
      BY <1>4, <3>1 DEF TypeOK, RefuseVersion, Open
  <2> QED
    BY <1>4, <2>1 DEF TypeOK, RefuseVersion, bodyVars
<1>5. CASE Accept
  <2>1. seen' \in BOOLEAN /\ scan' \in Scans
    <3>1. Nothing \in Scans
      BY DEF Nothing, Scans
    <3> QED
      BY <1>5, <3>1 DEF TypeOK, Accept, ReadRange
  <2> QED
    BY <1>5, <2>1 DEF TypeOK, Accept, Open, ReadVersion, bodyVars
<1>7. CASE MineSpin
  BY <1>7 DEF TypeOK, MineSpin, fileVars, reqVars, resVars, bodyVars
<1>8. ASSUME Get PROVE status' \in {0, 200, 206} /\ cl' \in Int
  <2> DEFINE s == IF seen THEN scan ELSE Nothing
  <2>1. s.first \in Nat /\ s.last \in Nat
    <3>1. scan \in Scans
      BY DEF TypeOK
    <3>2. scan.first \in Nat /\ scan.last \in Nat
      <4>1. CASE scan \in [read : {-1, 0}, first : {0}, last : {0}]
        BY <4>1
      <4>2. CASE scan \in [read : {1}, first : Bounds, last : {0}]
        <5>1. scan.first \in Bounds
          BY <4>2
        <5>2. scan.last \in Nat
          BY <4>2
        <5> QED
          BY <5>1, <5>2, HttpAssumption, Zenon
      <4>3. CASE scan \in [read : {2}, first : Bounds, last : Bounds]
        BY <4>3
      <4> QED
        BY <3>1, <4>1, <4>2, <4>3 DEF Scans
    <3>3. Nothing.first = 0 /\ Nothing.last = 0
      BY DEF Nothing
    <3> QED
      BY <3>2, <3>3
  <2>2. Range(s)
    BY <1>8 DEF Get
  <2> QED
    BY <2>1, <2>2 DEF Range, TypeOK
<1>9. CASE DoGet
  BY <1>8, <1>9 DEF TypeOK, DoGet, Get, reqVars, bodyVars
<1>10. CASE DoHead
  BY <1>8, <1>10 DEF TypeOK, DoHead, Get, reqVars, bodyVars
<1>11. CASE DoOther
  BY <1>11 DEF TypeOK, DoOther, fileVars, reqVars, resVars, bodyVars
<1>12. CASE SendHeader
  BY <1>12 DEF TypeOK, SendHeader, fileVars, reqVars, resVars
<1>13. CASE SendOnly
  BY <1>13 DEF TypeOK, SendOnly, Return, fileVars, reqVars, resVars
<1>14. CASE BodyRead
  <2>1. n' \in Nat
    BY <1>14 DEF TypeOK, BodyRead, Want
  <2> QED
    BY <1>14, <2>1 DEF TypeOK, BodyRead, fileVars, reqVars, resVars
<1>15. CASE BodyWrite
  <2>1. n' \in Int /\ trouble' \subseteq Troubles
    <3>1. n \in Int /\ trouble \subseteq Troubles
      BY DEF TypeOK
    <3>2. CASE n' \in 1..n /\ trouble' \in {trouble \cup {"short"}, trouble}
      BY <3>1, <3>2
    <3>3. CASE n' = -1 /\ trouble' = trouble \cup {"failed"}
      BY <3>1, <3>3
    <3>4. \/ n' \in 1..n /\ trouble' \in {trouble \cup {"short"}, trouble}
          \/ n' = -1 /\ trouble' = trouble \cup {"failed"}
      BY <1>15 DEF BodyWrite
    <3> QED
      BY <3>2, <3>3, <3>4
  <2>2. sent' \in Nat
    BY <1>15 DEF TypeOK, BodyWrite
  <2> QED
    BY <1>15, <2>1, <2>2 DEF TypeOK, BodyWrite, fileVars, reqVars, resVars
<1>16. CASE BodyEnd
  BY <1>16 DEF TypeOK, BodyEnd, Return, reqVars
<1>17. CASE Hangup
  BY <1>17 DEF TypeOK, Hangup, fileVars, reqVars, resVars, bodyVars
<1>18. CASE NextClient
  <2>1. gone' \in BOOLEAN /\ UNCHANGED <<fileVars, pc, reqVars, resVars, bodyVars, lost>>
    BY <1>18 DEF NextClient
  <2> QED
    BY <2>1 DEF TypeOK, fileVars, reqVars, resVars, bodyVars
<1>19. CASE FileChange
  BY <1>19 DEF TypeOK, FileChange, reqVars, resVars
<1>20. CASE UNCHANGED vars
  BY <1>20 DEF TypeOK, vars, fileVars, reqVars, resVars, bodyVars
<1> QED
  BY <1>0, <1>1, <1>2, <1>3, <1>4, <1>5, <1>7, <1>9, <1>10, <1>11, <1>12, <1>13, <1>14,
     <1>15, <1>16, <1>17, <1>18, <1>19, <1>20 DEF Next, Parse, Answer

\* The slot's state is of its type.
THEOREM TypeCorrect == Spec => []TypeOK
BY TypeInit, TypeStep, PTL DEF Spec

-----------------------------------------------------------------------------
(* Descriptors.                                                              *)

LEMMA ParsedStep == TypeOK /\ Parsed /\ [Next]_vars => Parsed'
<1> USE DEF NoFd
<1> SUFFICES ASSUME TypeOK, Parsed, [Next]_vars PROVE Parsed'
  OBVIOUS
<1> USE DEF Parsed, DescriptorsBalance, OwnDescriptor
<1>1. lost \subseteq Fds /\ NoFd \notin Fds
  BY DEF TypeOK, Fds
<1>0. CASE ParseCrash \/ MineCrash
  BY <1>0 DEF ParseCrash, MineCrash, Crash
<1>2. CASE RefuseMethod \/ RefuseMissing
  BY <1>2 DEF RefuseMethod, RefuseMissing, Reads, fileVars, resVars
<1>3. CASE RefuseDirectory \/ RefuseVersion
  BY <1>3 DEF RefuseDirectory, RefuseVersion, Reads, Open
<1>4. CASE Accept
  BY <1>1, <1>4 DEF Accept, Reads, Open
<1>5. CASE MineSpin \/ DoOther
  BY <1>5 DEF MineSpin, DoOther, Handles, fileVars, resVars
<1>6. CASE DoGet
  BY <1>6 DEF DoGet, Handles, Get
<1>7. CASE DoHead
  BY <1>1, <1>7 DEF DoHead, Handles, Get
<1>8. CASE SendHeader \/ BodyRead \/ BodyWrite
  BY <1>8 DEF SendHeader, BodyRead, BodyWrite, fileVars, resVars
<1>9. CASE SendOnly
  BY <1>9 DEF SendOnly, Return, fileVars, resVars
<1>10. CASE BodyEnd
  BY <1>1, <1>10 DEF BodyEnd, Return
<1>11. CASE Hangup \/ NextClient
  BY <1>11 DEF Hangup, NextClient, fileVars, resVars
<1>12. CASE FileChange
  BY <1>12 DEF FileChange, resVars
<1>13. CASE UNCHANGED vars
  BY <1>13 DEF vars, fileVars, resVars
<1> QED
  BY <1>0, <1>2, <1>3, <1>4, <1>5, <1>6, <1>7, <1>8, <1>9, <1>10, <1>11, <1>12, <1>13
     DEF Next, Parse, Answer

\* Whatever requests came, in whatever order, and whatever they left in the
\* slot: the descriptors that are open are those of refused requests and the
\* one of the request that is being answered.
THEOREM DescriptorsKept == Spec => [](DescriptorsBalance /\ OwnDescriptor)
<1>1. Init => Parsed
  BY DEF Init, Parsed, DescriptorsBalance, OwnDescriptor, NoFd
<1>2. TypeOK /\ Parsed /\ [Next]_vars => Parsed'
  BY ParsedStep
<1> QED
  BY <1>1, <1>2, TypeCorrect, PTL DEF Spec, Parsed

-----------------------------------------------------------------------------
(* Bodies.                                                                   *)

\* What is taken from the one is added to the other.
LEMMA Moves ==
    ASSUME NEW s \in Int, NEW l \in Int, NEW k \in Int, k <= l
    PROVE  l - k >= 0 /\ (s + k) + (l - k) = s + l
OBVIOUS

LEMMA BodyStep == TypeOK /\ BodyAdds /\ [Next]_vars => BodyAdds'
<1> SUFFICES ASSUME TypeOK, BodyAdds, [Next]_vars PROVE BodyAdds'
  OBVIOUS
<1> USE DEF BodyAdds
<1>0. sent \in Nat /\ left \in Int /\ cl \in Int /\ n \in Int /\ off \in Nat /\ size \in Nat
  BY DEF TypeOK
<1>1. CASE RefuseMethod \/ RefuseMissing \/ RefuseDirectory \/ RefuseVersion
  BY <1>1 DEF RefuseMethod, RefuseMissing, RefuseDirectory, RefuseVersion, Reads, bodyVars
<1>2. CASE Accept
  BY <1>2 DEF Accept, Reads, bodyVars
<1>3. CASE ParseCrash \/ MineCrash
  BY <1>3 DEF ParseCrash, MineCrash, Crash, Reads, Handles, bodyVars
<1>12. CASE MineSpin \/ DoOther
  BY <1>12 DEF MineSpin, DoOther, Handles, bodyVars
<1>4. CASE DoGet \/ DoHead
  BY <1>4 DEF DoGet, DoHead, Get, Handles, bodyVars
<1>5. CASE SendHeader
  BY <1>0, <1>5 DEF SendHeader, resVars
<1>6. CASE SendOnly \/ BodyEnd
  BY <1>6 DEF SendOnly, BodyEnd, Return
<1>7. CASE BodyRead
  <2>1. n' \in Nat /\ n' <= left
    BY <1>0, <1>7, HttpAssumption DEF BodyRead, Want
  <2>2. n' > 0 => n' \in 1..left
    BY <1>0, <2>1
  <2>3. pc = "read" /\ pc' \in {"read", "write"} /\ (pc' = "write" => n' > 0)
    BY <1>7 DEF BodyRead
  <2>4. UNCHANGED <<sent, left, cl, trouble>>
    BY <1>7 DEF BodyRead, resVars
  <2> QED
    BY <2>2, <2>3, <2>4
<1>8. CASE BodyWrite
  <2>1. pc = "write" /\ pc' = "read" /\ left' = left - n' /\ cl' = cl
    BY <1>8 DEF BodyWrite, resVars
  <2>2. CASE gone /\ trouble' = trouble \cup {"failed"}
    BY <2>1, <2>2
  <2>3. CASE /\ n' \in 1..n /\ sent' = sent + n'
             /\ trouble' = IF n' < n THEN trouble \cup {"short"} ELSE trouble
    <3>1. "failed" \notin trouble' => "failed" \notin trouble
      BY <2>3
    <3>2. n \in 1..left /\ n' \in Int /\ n' <= left
      BY <1>0, <2>1, <2>3
    <3>3. left' = left - n' /\ sent' = sent + n'
      BY <2>1, <2>3
    <3>4. left' >= 0 /\ sent' + left' = sent + left
      <4>1. sent \in Int /\ left \in Int /\ n' \in Int /\ n' <= left
        BY <1>0, <3>2
      <4>2. left - n' >= 0 /\ (sent + n') + (left - n') = sent + left
        BY <4>1, Moves
      <4> QED
        BY <4>2, <3>3, Zenon
    <3> QED
      BY <2>1, <3>1, <3>4
  <2> QED
    BY <1>8, <2>2, <2>3 DEF BodyWrite
<1>9. CASE Hangup \/ NextClient
  BY <1>9 DEF Hangup, NextClient, resVars, bodyVars
<1>10. CASE FileChange
  <2>1. UNCHANGED <<pc, sent, left, cl, n>>
    BY <1>10 DEF FileChange, resVars
  <2>2. "failed" \notin trouble' => "failed" \notin trouble
    BY <1>10 DEF FileChange
  <2> QED
    BY <2>1, <2>2
<1>11. CASE UNCHANGED vars
  BY <1>11 DEF vars, resVars, bodyVars
<1> QED
  BY <1>1, <1>2, <1>3, <1>4, <1>5, <1>6, <1>7, <1>8, <1>9, <1>10, <1>11,
     <1>12 DEF Next, Parse, Answer

\* A body that no failed write interrupted is as long as the answer says, for
\* every size of the buffer and however the file changes meanwhile.
THEOREM BodiesAsPromised == Spec => []BodyAsPromised
<1>1. Init => BodyAdds
  BY DEF Init, BodyAdds
<1>2. TypeOK /\ BodyAdds /\ [Next]_vars => BodyAdds'
  BY BodyStep
<1>3. TypeOK /\ BodyAdds => BodyAsPromised
  <2> SUFFICES ASSUME TypeOK, BodyAdds, pc = "read", left <= 0, "failed" \notin trouble
               PROVE  sent = IF cl > 0 THEN cl ELSE 0
    BY DEF BodyAsPromised
  <2>1. sent \in Nat /\ left \in Int /\ cl \in Int
    BY DEF TypeOK
  <2>2. sent + left = cl /\ (left >= 0 \/ sent = 0)
    BY DEF BodyAdds
  <2> QED
    BY <2>1, <2>2
<1> QED
  BY <1>1, <1>2, <1>3, TypeCorrect, PTL DEF Spec
=============================================================================
