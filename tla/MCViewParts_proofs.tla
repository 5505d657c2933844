------------------------- MODULE MCViewParts_proofs --------------------------
(***************************************************************************)
(* Proofs about the parts that show what a session did.                    *)
(***************************************************************************)
EXTENDS MCViewParts, TLAPS

-----------------------------------------------------------------------------
(* Sharing.                                                                *)

\* What the loops do is done, and by whom.
ShareData ==
    /\ x1 \in Nat \union {NoValue} /\ x2 \subseteq Nat
    /\ x3 \in BOOLEAN /\ x5 \in BOOLEAN /\ x9 \in BOOLEAN
    /\ x6 \in {"idle", "busy", "closing", "closed"} /\ x7 \in Nat /\ x8 \in Nat

StepFits(step) ==
    /\ step \in H!CommandSteps /\ (step.at = "none" => step = H!NoStep)
    /\ step.at = "starting" => step.tunnel \in Nat

LEMMA ShareInit == ASSUME H!Init PROVE H!ShareInv
  <1>1. /\ x1 = NoValue /\ x2 = {} /\ x3 = FALSE /\ x4 = [l \in H!Loops |-> H!NoStep]
        /\ x5 \in BOOLEAN /\ x6 = "idle" /\ x7 = 0 /\ x8 = 0 /\ x9 = FALSE
    BY DEF H!Init
  <1>2. H!NoStep \in H!CommandSteps /\ H!NoStep.at = "none"
    BY DEF H!NoStep, H!CommandSteps
  <1>3. \A l \in H!Loops : x4[l] = H!NoStep
    BY <1>1
  <1>4. H!TypeOK
    BY <1>1, <1>2, <1>3 DEF H!TypeOK, H!Starting
  <1> QED
    BY <1>1, <1>2, <1>3, <1>4 DEF H!ShareInv, H!OneCommand, H!OneStart, H!FooterFollows,
       H!SharesAccounted, H!Starting, H!Shared

\* A loop that is at another step.
LEMMA LoopMoves ==
  ASSUME H!TypeOK, NEW l \in H!Loops, NEW new, StepFits(new), x4' = [x4 EXCEPT ![l] = new]
  PROVE  /\ x4' \in [H!Loops -> H!CommandSteps] /\ x4'[l] = new
         /\ \A k \in H!Loops : k # l => x4'[k] = x4[k]
         /\ \A k \in H!Loops : StepFits(x4'[k])
  BY DEF H!TypeOK, H!Starting, StepFits

LEMMA LoopsAre == H!Loops = {"main", "reader"} /\ "main" # "reader"
  BY DEF H!Loops

\* Steps that leave the commands as they are.
LEMMA ShareWaits ==
  ASSUME H!ShareInv, H!TurnStatus \/ H!OtherCommand \/ H!AgentStatus
  PROVE  H!ShareInv'
  <1>1. /\ H!TypeOK /\ H!OneCommand /\ H!OneStart /\ H!FooterFollows /\ H!SharesAccounted
    BY DEF H!ShareInv
  <1>2. /\ UNCHANGED <<x1, x2, x4, x7, x8, x9>> /\ x3' \in {x3, H!Shared} /\ x5' \in BOOLEAN
        /\ \/ x6' = x6
           \/ x4["main"] = H!NoStep /\ x6 \in {"idle", "busy"} /\ x6' \in {"idle", "busy"}
    BY <1>1 DEF H!TurnStatus, H!OtherCommand, H!AgentStatus, H!TypeOK
  <1>3. H!Shared' = H!Shared /\ (\A l \in H!Loops : H!Starting(l)' = H!Starting(l))
        /\ H!NoCommand' = H!NoCommand
    BY <1>2 DEF H!Shared, H!Starting, H!NoCommand
  <1>4. H!TypeOK'
    BY <1>1, <1>2 DEF H!TypeOK, H!Shared, H!Starting
  <1>5. H!OneCommand'
    BY <1>1, <1>2 DEF H!OneCommand
  <1>6. H!OneStart'
    BY <1>1, <1>2, <1>3 DEF H!OneStart
  <1>7. H!FooterFollows'
    BY <1>1, <1>2, <1>3 DEF H!FooterFollows
  <1>8. H!SharesAccounted'
    BY <1>1, <1>2, <1>3, <1>7 DEF H!SharesAccounted, H!FooterFollows
  <1> QED
    BY <1>4, <1>5, <1>6, <1>7, <1>8 DEF H!ShareInv

\* A command of a loop goes on; what runs and what is shared fits.
LEMMA ShareStep ==
  ASSUME H!ShareInv, NEW l \in H!Loops, NEW new, StepFits(new), x4' = [x4 EXCEPT ![l] = new],
         ShareData', x6' = "busy" => x6 = "busy" /\ (l = "main" => new = H!NoStep),
         H!OneStart',
         ~x9' => x2' \subseteq {x1'} \union {x4'[k].tunnel : k \in {j \in H!Loops : x4'[j].at = "stopping"}},
         x6' \in {"idle", "busy"} /\ H!NoCommand' /\ x7' = 0 => x3' = H!Shared'
  PROVE  H!ShareInv'
  <1>1. H!TypeOK /\ H!OneCommand
    BY DEF H!ShareInv
  <1>2. /\ x4' \in [H!Loops -> H!CommandSteps] /\ x4'[l] = new
        /\ \A k \in H!Loops : k # l => x4'[k] = x4[k]
        /\ \A k \in H!Loops : StepFits(x4'[k])
    BY <1>1, LoopMoves
  <1>3. H!TypeOK'
    BY <1>2 DEF H!TypeOK, H!Starting, ShareData, StepFits
  <1>4. H!OneCommand'
    BY <1>1, <1>2, LoopsAre DEF H!OneCommand
  <1>5. H!FooterFollows'
    BY DEF H!FooterFollows
  <1>6. ~x9' /\ x6' = "closed" /\ H!NoCommand' => x2' = {}
    <2> SUFFICES ASSUME ~x9', x6' = "closed", H!NoCommand' PROVE x2' = {}
      OBVIOUS
    <2>1. x1' = NoValue
      BY DEF H!OneStart, H!Shared
    <2>2. \A k \in H!Loops : x4'[k].at # "stopping"
      BY DEF H!NoCommand, H!NoStep
    <2>3. x2' \subseteq Nat /\ NoValue \notin Nat
      BY ConstantsAssumption DEF ShareData, H!Assumptions
    <2> QED
      BY <2>1, <2>2, <2>3
  <1>7. H!SharesAccounted'
    BY <1>5, <1>6 DEF H!SharesAccounted, H!FooterFollows
  <1> QED
    BY <1>3, <1>4, <1>5, <1>7 DEF H!ShareInv

\* A share that is started, and its tunnel that comes up.
LEMMA ShareStarts ==
  ASSUME H!ShareInv, NEW l \in H!Loops, H!Start(l) \/ H!TunnelUp(l)
  PROVE  H!ShareInv'
  <1>1. /\ H!TypeOK /\ H!OneCommand /\ H!OneStart /\ H!FooterFollows /\ H!SharesAccounted
    BY DEF H!ShareInv
  <1>2. /\ x1 \in Nat \union {NoValue} /\ x2 \subseteq Nat /\ x8 \in Nat
        /\ x3 \in BOOLEAN /\ x5 \in BOOLEAN /\ x9 \in BOOLEAN /\ x7 \in Nat
        /\ x4 \in [H!Loops -> H!CommandSteps] /\ NoValue \notin Nat
        /\ x6 \in {"idle", "busy", "closing", "closed"}
        /\ x4[l] \in H!CommandSteps
    BY <1>1, ConstantsAssumption DEF H!TypeOK, H!Assumptions
  <1>3. CASE H!Start(l)
    <2> DEFINE new == [at |-> H!StartOrReuse(l), tunnel |-> x8 + 1]
    <2>1. /\ x4[l] = H!NoStep /\ x4' = [x4 EXCEPT ![l] = new] /\ x8' = x8 + 1
          /\ x9' = (x9 \/ \E k \in H!Loops : H!Starting(k))
          /\ UNCHANGED <<x1, x2, x3, x5, x6>> /\ x6 \in {"idle", "busy"}
          /\ x6 = "busy" => l = "reader"
      BY <1>3, LoopsAre DEF H!Start, H!May, H!At
    <2>2. x7' \in Nat
      BY <1>2, <1>3 DEF H!Start
    <2>3. /\ StepFits(new) /\ new.at \in {"starting", "footer"}
          /\ new.at = "starting" => x1 = NoValue
      BY <1>2 DEF H!CommandSteps, H!StartOrReuse, H!Shared, StepFits
    <2> HIDE DEF new
    <2>4. x4'[l] = new /\ \A k \in H!Loops : k # l => x4'[k] = x4[k]
      BY <1>1, <2>1, <2>3, LoopMoves
    <2>5. ShareData'
      BY <1>2, <2>1, <2>2 DEF ShareData
    <2>6. H!OneStart'
      BY <1>1, <2>1, <2>3, <2>4 DEF H!OneStart, H!Starting, H!Shared
    <2>7. x4[l].at # "stopping"
      BY <2>1 DEF H!NoStep
    <2>8. ~x9' => x2' \subseteq {x1'} \union
             {x4'[k].tunnel : k \in {j \in H!Loops : x4'[j].at = "stopping"}}
      BY <1>1, <2>1, <2>4, <2>7, ZenonT(40) DEF H!SharesAccounted
    <2>9. ~H!NoCommand'
      BY <2>3, <2>4 DEF H!NoCommand, H!NoStep
    <2> QED
      BY <2>1, <2>3, <2>5, <2>6, <2>8, <2>9, LoopsAre, ShareStep
  <1>4. CASE H!TunnelUp(l)
    <2> DEFINE new == [at |-> "footer", tunnel |-> NoValue]
    <2>1. /\ x4[l].at = "starting" /\ x4' = [x4 EXCEPT ![l] = new]
          /\ x1' = x4[l].tunnel /\ x2' = x2 \union {x4[l].tunnel}
          /\ UNCHANGED <<x3, x5, x6, x7, x8, x9>>
      BY <1>4 DEF H!TunnelUp, H!Starting, H!At
    <2>2. StepFits(new) /\ new.at = "footer"
      BY DEF H!CommandSteps, StepFits
    <2> HIDE DEF new
    <2>3. x4'[l] = new /\ \A k \in H!Loops : k # l => x4'[k] = x4[k]
      BY <1>1, <2>1, <2>2, LoopMoves
    <2>4. x4[l].tunnel \in Nat
      BY <1>1, <2>1 DEF H!TypeOK, H!Starting
    <2>5. ShareData'
      BY <1>2, <2>1, <2>4 DEF ShareData
    <2>6. H!OneStart'
      BY <1>1, <2>1, <2>2, <2>3 DEF H!OneStart, H!Starting, H!Shared
    <2>7. ~x9' => x1 = NoValue
      BY <1>1, <2>1 DEF H!OneStart, H!Starting, H!Shared
    <2>8. ~x9' => x2' \subseteq {x1'} \union
             {x4'[k].tunnel : k \in {j \in H!Loops : x4'[j].at = "stopping"}}
      <3> SUFFICES ASSUME ~x9', NEW n \in x2
                   PROVE  \E k \in H!Loops : x4'[k].at = "stopping" /\ x4'[k].tunnel = n
        BY <2>1
      <3>1. n # NoValue
        BY <1>2
      <3>2. PICK k \in H!Loops : x4[k].at = "stopping" /\ x4[k].tunnel = n
        BY <1>1, <2>1, <2>7, <3>1 DEF H!SharesAccounted
      <3> QED
        BY <2>1, <2>3, <3>2
    <2>9. ~H!NoCommand'
      BY <2>2, <2>3 DEF H!NoCommand, H!NoStep
    <2>10. x6' = "busy" => x6 = "busy" /\ (l = "main" => new = H!NoStep)
      BY <1>1, <2>1 DEF H!OneCommand, H!NoStep
    <2> QED
      BY <2>1, <2>2, <2>5, <2>6, <2>8, <2>9, <2>10, ShareStep
  <1> QED
    BY <1>3, <1>4

\* A share that is stopped, its tunnel that goes down, the answer, and what
\* readInputLoop catches.
LEMMA ShareEnds ==
  ASSUME H!ShareInv, NEW l \in H!Loops,
         \/ H!Stop(l) \/ H!TunnelDown(l) \/ H!Answered(l)
         \/ l = "reader" /\ H!ReaderFails
  PROVE  H!ShareInv'
  <1>1. /\ H!TypeOK /\ H!OneCommand /\ H!OneStart /\ H!FooterFollows /\ H!SharesAccounted
    BY DEF H!ShareInv
  <1>2. /\ x1 \in Nat \union {NoValue} /\ x2 \subseteq Nat /\ x8 \in Nat
        /\ x3 \in BOOLEAN /\ x5 \in BOOLEAN /\ x9 \in BOOLEAN /\ x7 \in Nat
        /\ x4 \in [H!Loops -> H!CommandSteps] /\ NoValue \notin Nat
        /\ x6 \in {"idle", "busy", "closing", "closed"}
        /\ x4[l] \in H!CommandSteps
    BY <1>1, ConstantsAssumption DEF H!TypeOK, H!Assumptions
  <1>3. StepFits(H!NoStep) /\ H!NoStep.at = "none"
    BY DEF H!NoStep, H!CommandSteps, StepFits
  <1>4. CASE H!Stop(l)
    <2> DEFINE new == [at |-> "stopping", tunnel |-> x1]
    <2>1. /\ x4[l] = H!NoStep /\ x4' = [x4 EXCEPT ![l] = new] /\ x1 # NoValue /\ x1' = NoValue
          /\ UNCHANGED <<x2, x3, x5, x6, x7, x8, x9>> /\ x6 \in {"idle", "busy"}
          /\ x6 = "busy" => l = "reader"
      BY <1>4, LoopsAre DEF H!Stop, H!May, H!At, H!Shared
    <2>2. StepFits(new) /\ new.at = "stopping" /\ new.tunnel = x1
      BY <1>2 DEF H!CommandSteps, StepFits
    <2> HIDE DEF new
    <2>3. x4'[l] = new /\ \A k \in H!Loops : k # l => x4'[k] = x4[k]
      BY <1>1, <2>1, <2>2, LoopMoves
    <2>4. ShareData'
      BY <1>2, <2>1 DEF ShareData
    <2>5. H!OneStart'
      BY <1>1, <2>1, <2>2, <2>3 DEF H!OneStart, H!Starting, H!Shared
    <2>6. ~x9' => x2' \subseteq {x1'} \union
             {x4'[k].tunnel : k \in {j \in H!Loops : x4'[j].at = "stopping"}}
      <3> SUFFICES ASSUME ~x9', NEW n \in x2
                   PROVE  \E k \in H!Loops : x4'[k].at = "stopping" /\ x4'[k].tunnel = n
        BY <2>1
      <3>1. CASE n = x1
        BY <2>2, <2>3, <3>1
      <3>2. CASE n # x1
        <4>1. PICK k \in H!Loops : x4[k].at = "stopping" /\ x4[k].tunnel = n
          BY <1>1, <2>1, <3>2 DEF H!SharesAccounted
        <4> QED
          BY <1>3, <2>1, <2>3, <4>1
      <3> QED
        BY <3>1, <3>2
    <2>7. ~H!NoCommand'
      BY <1>3, <2>2, <2>3 DEF H!NoCommand
    <2> QED
      BY <2>1, <2>2, <2>4, <2>5, <2>6, <2>7, LoopsAre, ShareStep
  <1>5. CASE H!TunnelDown(l)
    <2> DEFINE footer == [at |-> "footer", tunnel |-> NoValue]
    <2>1. /\ x4[l].at = "stopping" /\ x2' = x2 \ {x4[l].tunnel}
          /\ UNCHANGED <<x1, x3, x5, x7, x8, x9>>
          /\ \/ x6 = "closing" /\ x6' = "closed" /\ x4' = [x4 EXCEPT ![l] = H!NoStep]
             \/ x6' = x6 /\ x4' = [x4 EXCEPT ![l] = footer]
      BY <1>5 DEF H!TunnelDown, H!At
    <2>2. StepFits(footer) /\ footer.at = "footer"
      BY DEF H!CommandSteps, StepFits
    <2> HIDE DEF footer
    <2>3. PICK new \in {footer, H!NoStep} :
            /\ x4' = [x4 EXCEPT ![l] = new]
            /\ \/ x6 = "closing" /\ x6' = "closed" /\ new = H!NoStep
               \/ x6' = x6 /\ new = footer
      BY <2>1
    <2>4. StepFits(new) /\ new.at \in {"footer", "none"}
      BY <1>3, <2>2, <2>3
    <2>5. x4'[l] = new /\ \A k \in H!Loops : k # l => x4'[k] = x4[k]
      BY <1>1, <2>3, <2>4, LoopMoves
    <2>6. ShareData'
      BY <1>2, <2>1, <2>3 DEF ShareData
    <2>7. H!OneStart'
      BY <1>1, <2>1, <2>3, <2>4, <2>5 DEF H!OneStart, H!Starting, H!Shared
    <2>8. ~x9' => x2' \subseteq {x1'} \union
             {x4'[k].tunnel : k \in {j \in H!Loops : x4'[j].at = "stopping"}}
      <3> SUFFICES ASSUME ~x9', NEW n \in x2, n # x4[l].tunnel, n # x1
                   PROVE  \E k \in H!Loops : x4'[k].at = "stopping" /\ x4'[k].tunnel = n
        BY <2>1
      <3>1. PICK k \in H!Loops : x4[k].at = "stopping" /\ x4[k].tunnel = n
        BY <1>1, <2>1 DEF H!SharesAccounted
      <3> QED
        BY <2>5, <3>1
    <2>9. x6' \in {"idle", "busy"} => ~H!NoCommand'
      BY <1>2, <1>3, <2>2, <2>3, <2>5 DEF H!NoCommand
    <2>10. x6' = "busy" => x6 = "busy" /\ (l = "main" => new = H!NoStep)
      BY <1>1, <1>3, <2>1, <2>3 DEF H!OneCommand
    <2> QED
      BY <2>3, <2>4, <2>6, <2>7, <2>8, <2>9, <2>10, ShareStep
  <1>6. CASE H!Answered(l) \/ (l = "reader" /\ H!ReaderFails)
    <2>1. /\ x4[l].at \in {"starting", "footer"} /\ x4' = [x4 EXCEPT ![l] = H!NoStep]
          /\ UNCHANGED <<x1, x2, x5, x6, x8, x9>>
      BY <1>6 DEF H!Answered, H!ReaderFails
    <2>2. x3' \in BOOLEAN /\ x7' \in Nat
          /\ (x6 \in {"idle", "busy"} /\ x7' = 0 => x3' = H!Shared)
      <3>1. CASE H!Answered(l)
        <4>1. x3' = H!Shared /\ x7' = x7
          BY <3>1 DEF H!Answered
        <4>2. H!Shared \in BOOLEAN
          BY DEF H!Shared
        <4> QED
          BY <1>2, <4>1, <4>2
      <3>2. CASE H!ReaderFails
        <4>1. x3' = x3 /\ x7' \in {x7, x7 + 1} /\ (x6 \in {"idle", "busy"} => x7' = x7 + 1)
          BY <3>2 DEF H!ReaderFails
        <4> QED
          BY <1>2, <4>1
      <3> QED
        BY <1>6, <3>1, <3>2
    <2>3. x4'[l] = H!NoStep /\ \A k \in H!Loops : k # l => x4'[k] = x4[k]
      BY <1>1, <1>3, <2>1, LoopMoves
    <2>4. ShareData'
      BY <1>2, <2>1, <2>2 DEF ShareData
    <2>5. H!OneStart'
      BY <1>1, <1>3, <2>1, <2>3 DEF H!OneStart, H!Starting, H!Shared
    <2>6. ~x9' => x2' \subseteq {x1'} \union
             {x4'[k].tunnel : k \in {j \in H!Loops : x4'[j].at = "stopping"}}
      BY <1>1, <2>1, <2>3 DEF H!SharesAccounted
    <2>7. H!Shared' = H!Shared
      BY <2>1 DEF H!Shared
    <2> QED
      BY <1>3, <2>1, <2>2, <2>4, <2>5, <2>6, <2>7, ShareStep
  <1> QED
    BY <1>4, <1>5, <1>6

\* The client ends: dispose() stops what is shared.
LEMMA ShareCloses == ASSUME H!ShareInv, H!Close PROVE H!ShareInv'
  <1>1. /\ H!TypeOK /\ H!OneCommand /\ H!OneStart /\ H!FooterFollows /\ H!SharesAccounted
    BY DEF H!ShareInv
  <1>2. /\ x1 \in Nat \union {NoValue} /\ x2 \subseteq Nat /\ x8 \in Nat
        /\ x3 \in BOOLEAN /\ x5 \in BOOLEAN /\ x9 \in BOOLEAN /\ x7 \in Nat
        /\ x4 \in [H!Loops -> H!CommandSteps] /\ NoValue \notin Nat
    BY <1>1, ConstantsAssumption DEF H!TypeOK, H!Assumptions
  <1> DEFINE new == H!Dispose
  <1>3. /\ x4' = [x4 EXCEPT !["main"] = new] /\ x1' = NoValue
        /\ x6' = IF x1 # NoValue THEN "closing" ELSE "closed"
        /\ x9' = (x9 \/ H!Starting("reader"))
        /\ UNCHANGED <<x2, x3, x5, x7, x8>>
        /\ x6 = "busy" \/ x4["main"].at # "stopping"
    BY DEF H!Close, H!Shared
  <1>4. /\ StepFits(new)
        /\ \/ x1 # NoValue /\ new.at = "stopping" /\ new.tunnel = x1
           \/ x1 = NoValue /\ new.at = "none"
    BY <1>2 DEF H!Dispose, H!Shared, H!CommandSteps, H!NoStep, StepFits
  <1> HIDE DEF new
  <1>5. x4'["main"] = new /\ \A k \in H!Loops : k # "main" => x4'[k] = x4[k]
    BY <1>1, <1>3, <1>4, LoopMoves, LoopsAre
  <1>6. ShareData'
    BY <1>2, <1>3 DEF ShareData
  <1>7. H!OneStart'
    BY <1>1, <1>3, <1>4, <1>5, LoopsAre, ZenonT(40) DEF H!OneStart, H!Starting, H!Shared
  <1>8. ~x9' => x2' \subseteq {x1'} \union
           {x4'[k].tunnel : k \in {j \in H!Loops : x4'[j].at = "stopping"}}
    <2> SUFFICES ASSUME ~x9', NEW n \in x2
                 PROVE  \E k \in H!Loops : x4'[k].at = "stopping" /\ x4'[k].tunnel = n
      BY <1>3
    <2>1. n # NoValue /\ ~x9
      BY <1>2, <1>3
    <2>2. CASE n = x1
      BY <1>4, <1>5, <2>1, <2>2, LoopsAre
    <2>3. CASE n # x1
      <3>1. PICK k \in H!Loops : x4[k].at = "stopping" /\ x4[k].tunnel = n
        BY <1>1, <2>1, <2>3 DEF H!SharesAccounted
      <3>2. k # "main"
        BY <1>1, <1>3, <3>1 DEF H!OneCommand, H!NoStep
      <3> QED
        BY <1>5, <3>1, <3>2
    <2> QED
      BY <2>2, <2>3
  <1>9. x6' \notin {"idle", "busy"}
    BY <1>3
  <1> QED
    BY <1>3, <1>4, <1>6, <1>7, <1>8, <1>9, LoopsAre, ShareStep

(* However the two loops share, stop and fail, and wherever the client     *)
(* ends, no tunnel is lost and none outlives the client, but for starts    *)
(* that overlap; and the footer says so (ShareManager).                    *)
THEOREM SharesStayAccounted == Spec => []SharesAccounted
  <1> DEFINE Inv == part = "share" => H!ShareInv
  <1>1. Init => Inv
    BY ShareInit DEF Init, InitDiff, InitPatch, InitOutput, InitPanel, InitPrint,
       InitNavigation, InitShare, InitActivity, InitJoin, InitTranscript, InitReplay
  <1>2. Inv /\ [Next]_vars => Inv'
    <2> SUFFICES ASSUME Inv, [Next]_vars, part' = "share" PROVE H!ShareInv'
      OBVIOUS
    <2>1. part = "share"
      BY DEF Next, vars, OfDiff, OfPatch, OfOutput, OfPanel, OfPrint, OfNavigation, OfShare,
         OfActivity, OfJoin, OfTranscript, OfReplay
    <2>2. CASE UNCHANGED vars
      BY <2>1, <2>2 DEF vars, H!ShareInv, H!TypeOK, H!OneCommand, H!OneStart, H!FooterFollows,
         H!SharesAccounted, H!Starting, H!Shared, H!NoCommand
    <2>3. CASE Next
      <3>1. H!Next
        BY <2>1, <2>3 DEF Next, OfDiff, OfPatch, OfOutput, OfPanel, OfPrint, OfNavigation,
           OfShare, OfActivity, OfJoin, OfTranscript, OfReplay
      <3>2. CASE H!TurnStatus \/ H!OtherCommand \/ H!AgentStatus
        BY <2>1, <3>2, ShareWaits
      <3>3. CASE \E l \in H!Loops : H!Start(l) \/ H!TunnelUp(l)
        BY <2>1, <3>3, ShareStarts
      <3>4. CASE \E l \in H!Loops : H!Stop(l) \/ H!TunnelDown(l) \/ H!Answered(l)
        BY <2>1, <3>4, ShareEnds
      <3>5. CASE H!ReaderFails
        BY <2>1, <3>5, ShareEnds, LoopsAre
      <3>6. CASE H!Close
        BY <2>1, <3>6, ShareCloses
      <3> QED
        BY <3>1, <3>2, <3>3, <3>4, <3>5, <3>6 DEF H!Next
    <2> QED
      BY <2>2, <2>3
  <1>3. Inv => SharesAccounted
    BY DEF SharesAccounted, H!ShareInv
  <1> QED
    BY <1>1, <1>2, <1>3, PTL DEF Spec

-----------------------------------------------------------------------------
(* Navigation.                                                             *)

\* An event behind the others: the last of its kind tells what is.
LEMMA EventLast ==
  ASSUME NEW events \in Seq(N!Events), NEW e \in N!Events, NEW kind, NEW value \in BOOLEAN
  PROVE  /\ e.kind = kind /\ (e.value = TRUE <=> value)
              => N!Newest(Append(events, e), kind, value)
         /\ e.kind # kind /\ N!Newest(events, kind, value)
              => N!Newest(Append(events, e), kind, value)
  <1> DEFINE all == Append(events, e)
  <1>1. /\ Len(all) = Len(events) + 1 /\ all[Len(all)] = e /\ Len(events) \in Nat
        /\ \A i \in 1 .. Len(events) : all[i] = events[i]
        /\ DOMAIN all = 1 .. Len(all) /\ DOMAIN events = 1 .. Len(events)
    OBVIOUS
  <1> HIDE DEF all
  <1>2. ASSUME e.kind = kind, e.value = TRUE <=> value PROVE N!Newest(all, kind, value)
    <2> SUFFICES ASSUME NEW i \in DOMAIN all, all[i].kind = kind,
                        \A j \in DOMAIN all : j > i => all[j].kind # kind
                 PROVE  all[i].value = TRUE <=> value
      BY DEF N!Newest
    <2>1. i = Len(all)
      BY <1>1, <1>2
    <2> QED
      BY <1>1, <1>2, <2>1
  <1>3. ASSUME e.kind # kind, N!Newest(events, kind, value) PROVE N!Newest(all, kind, value)
    <2> SUFFICES ASSUME NEW i \in DOMAIN all, all[i].kind = kind,
                        \A j \in DOMAIN all : j > i => all[j].kind # kind
                 PROVE  all[i].value = TRUE <=> value
      BY DEF N!Newest
    <2>1. i \in DOMAIN events /\ all[i] = events[i]
      BY <1>1, <1>3
    <2>2. \A j \in DOMAIN events : j > i => events[j].kind # kind
      BY <1>1
    <2> QED
      BY <1>3, <2>1, <2>2 DEF N!Newest
  <1> QED
    BY <1>2, <1>3 DEF all

LEMMA EventTold ==
  ASSUME NEW events \in Seq(N!Events), NEW e \in N!Events, NEW kind,
         NEW known \in BOOLEAN, NEW value \in BOOLEAN
  PROVE  /\ e.kind = kind /\ (e.value = TRUE <=> value)
              => N!Told(Append(events, e), kind, known, value)
         /\ e.kind # kind /\ N!Told(events, kind, known, value)
              => N!Told(Append(events, e), kind, known, value)
  <1> DEFINE all == Append(events, e)
  <1>1. /\ Len(all) = Len(events) + 1 /\ all[Len(all)] = e /\ Len(events) \in Nat
        /\ \A i \in 1 .. Len(events) : all[i] = events[i]
        /\ DOMAIN all = 1 .. Len(all) /\ DOMAIN events = 1 .. Len(events)
    OBVIOUS
  <1>2. /\ e.kind = kind /\ (e.value = TRUE <=> value) => N!Newest(all, kind, value)
        /\ e.kind # kind /\ N!Newest(events, kind, value) => N!Newest(all, kind, value)
    BY EventLast
  <1> HIDE DEF all
  <1>3. Len(all) \in DOMAIN all
    BY <1>1
  <1>4. (\A i \in DOMAIN all : all[i].kind # kind)
          => e.kind # kind /\ \A i \in DOMAIN events : events[i].kind # kind
    BY <1>1, <1>3
  <1>5. e.kind = kind /\ (e.value = TRUE <=> value) => N!Told(all, kind, known, value)
    BY <1>2, <1>4 DEF N!Told
  <1>6. e.kind # kind /\ N!Told(events, kind, known, value) => N!Told(all, kind, known, value)
    BY <1>2, <1>4 DEF N!Told
  <1> QED
    BY <1>5, <1>6 DEF all

LEMMA EventTells ==
  ASSUME NEW events \in Seq(N!Events), NEW e \in N!Events, NEW known \in BOOLEAN,
         NEW value \in BOOLEAN, e.value = TRUE <=> value
  PROVE  N!Told(Append(events, e), e.kind, known, value)
  BY EventTold

LEMMA EventOfOther ==
  ASSUME NEW events \in Seq(N!Events), NEW e \in N!Events, NEW kind, e.kind # kind,
         NEW known \in BOOLEAN, NEW value \in BOOLEAN, N!Told(events, kind, known, value)
  PROVE  N!Told(Append(events, e), kind, known, value)
  BY EventTold

\* The first event is handled.
LEMMA EventHandled ==
  ASSUME NEW events \in Seq(N!Events), events # <<>>, NEW kind,
         NEW known \in BOOLEAN, NEW value \in BOOLEAN
  PROVE  /\ Head(events) \in N!Events /\ Tail(events) \in Seq(N!Events)
         /\ N!Newest(events, kind, value) => N!Newest(Tail(events), kind, value)
         /\ Head(events).kind = kind /\ N!Newest(events, kind, value)
              /\ (known <=> Head(events).value = TRUE)
              => N!Told(Tail(events), kind, known, value)
         /\ Head(events).kind # kind /\ N!Told(events, kind, known, value)
              => N!Told(Tail(events), kind, known, value)
  <1> DEFINE rest == Tail(events)
             first == Head(events)
  <1>1. /\ first = events[1] /\ first \in N!Events /\ rest \in Seq(N!Events)
        /\ Len(rest) = Len(events) - 1 /\ Len(events) \in Nat /\ Len(events) >= 1
        /\ DOMAIN rest = 1 .. Len(rest) /\ DOMAIN events = 1 .. Len(events)
        /\ \A i \in 1 .. Len(rest) : rest[i] = events[i + 1]
    OBVIOUS
  <1> HIDE DEF rest, first
  <1>2. ASSUME N!Newest(events, kind, value) PROVE N!Newest(rest, kind, value)
    <2> SUFFICES ASSUME NEW i \in DOMAIN rest, rest[i].kind = kind,
                        \A j \in DOMAIN rest : j > i => rest[j].kind # kind
                 PROVE  rest[i].value = TRUE <=> value
      BY DEF N!Newest
    <2>1. i + 1 \in DOMAIN events /\ rest[i] = events[i + 1]
      BY <1>1
    <2>2. ASSUME NEW j \in DOMAIN events, j > i + 1 PROVE events[j].kind # kind
      <3>1. j - 1 \in DOMAIN rest /\ j - 1 > i /\ (j - 1) + 1 = j
        BY <1>1, <2>2
      <3>2. rest[j - 1] = events[j]
        BY <1>1, <3>1
      <3> QED
        BY <3>1, <3>2
    <2> QED
      BY <1>2, <2>1, <2>2 DEF N!Newest
  <1>3. ASSUME \A i \in DOMAIN rest : rest[i].kind # kind,
               NEW j \in DOMAIN events, j > 1
        PROVE  events[j].kind # kind
    <2>1. j - 1 \in DOMAIN rest /\ (j - 1) + 1 = j
      BY <1>1, <1>3
    <2>2. rest[j - 1] = events[j]
      BY <1>1, <2>1
    <2> QED
      BY <1>3, <2>1, <2>2
  <1>4. 1 \in DOMAIN events
    BY <1>1
  <1>5. ASSUME first.kind = kind, N!Newest(events, kind, value), known <=> first.value = TRUE
        PROVE  N!Told(rest, kind, known, value)
    <2>1. ASSUME \A i \in DOMAIN rest : rest[i].kind # kind PROVE known <=> value
      <3>1. \A j \in DOMAIN events : j > 1 => events[j].kind # kind
        BY <1>3, <2>1
      <3> QED
        BY <1>1, <1>4, <1>5, <3>1 DEF N!Newest
    <2> QED
      BY <1>2, <1>5, <2>1 DEF N!Told
  <1>6. ASSUME first.kind # kind, N!Told(events, kind, known, value)
        PROVE  N!Told(rest, kind, known, value)
    <2>1. ASSUME \A i \in DOMAIN rest : rest[i].kind # kind PROVE known <=> value
      <3>1. \A j \in DOMAIN events : events[j].kind # kind
        <4> SUFFICES ASSUME NEW j \in DOMAIN events PROVE events[j].kind # kind
          OBVIOUS
        <4>1. j = 1 \/ j > 1
          BY <1>1
        <4> QED
          BY <1>1, <1>3, <1>6, <2>1, <4>1
      <3> QED
        BY <1>6, <3>1 DEF N!Told
    <2>2. N!Newest(events, kind, value)
      BY <1>6 DEF N!Told
    <2> QED
      BY <1>2, <2>1, <2>2 DEF N!Told
  <1> QED
    BY <1>1, <1>2, <1>5, <1>6 DEF rest, first

LEMMA NothingTold ==
  ASSUME NEW kind, NEW known \in BOOLEAN, NEW value \in BOOLEAN, known <=> value
  PROVE  N!Told(<<>>, kind, known, value)
  BY DEF N!Told, N!Newest

\* What is not said of the events.
NavPlaces == N!TypeOK /\ N!PlaceIsKnown /\ N!StreamIsOfView /\ N!StatusFits

LEMMA NavTypes ==
  ASSUME N!TypeOK
  PROVE  /\ x1 \subseteq Peers /\ x2 \in [Peers -> SUBSET {"other", "own"}]
         /\ x3 \in Peers /\ x4 \in Peers /\ x5 \subseteq Peers
         /\ x6.of \in Peers \union {NoValue} /\ x6.open \in BOOLEAN
         /\ x6 = [of |-> x6.of, open |-> x6.open]
         /\ x7 \in Seq(N!Events) /\ x8 \in N!Commands
         /\ x9 \in BOOLEAN /\ x10 \in N!Statuses /\ x12 \in BOOLEAN /\ NoValue \notin Peers
         /\ N!Known \in BOOLEAN
  BY ConstantsAssumption DEF N!TypeOK, N!Assumptions, N!Known, N!Commands

\* The server emits an event.
LEMMA EmitKeeps ==
  ASSUME N!NavigationInv, NEW s \in Peers, NEW e \in N!Events, N!Emit(s, e),
         x1' \subseteq Peers, x2' \in [Peers -> SUBSET {"other", "own"}], x12' \in BOOLEAN
  PROVE  /\ NavPlaces' /\ N!Known' = N!Known
         /\ x7' = IF x6.of = s THEN Append(x7, e) ELSE x7
         /\ UNCHANGED <<x3, x4, x5, x6, x8, x9, x10>>
  <1>1. N!TypeOK /\ N!PlaceIsKnown /\ N!StreamIsOfView /\ N!StatusFits
    BY DEF N!NavigationInv
  <1>2. /\ x7' = IF x6.of = s THEN Append(x7, e) ELSE x7
        /\ UNCHANGED <<x3, x4, x5, x6, x8, x9, x10>>
    BY DEF N!Emit, N!place
  <1>3. N!TypeOK'
    BY <1>1, <1>2 DEF N!TypeOK
  <1>4. N!PlaceIsKnown'
    BY <1>1, <1>2 DEF N!PlaceIsKnown, N!SubagentTargets, N!Leaving
  <1>5. x8.pc \in {"hydrate", "closed"} => x6.of # s
    BY <1>1, NavTypes DEF N!StreamIsOfView
  <1>6. N!StreamIsOfView'
    BY <1>1, <1>2, <1>5 DEF N!StreamIsOfView
  <1>7. N!StatusFits'
    BY <1>1, <1>2 DEF N!StatusFits
  <1> QED
    BY <1>2, <1>3, <1>4, <1>6, <1>7 DEF NavPlaces, N!Known

\* Turns of other clients.
LEMMA NavTurns ==
  ASSUME N!NavigationInv, NEW s \in Peers, N!BeginTurn(s) \/ N!EndTurn(s)
  PROVE  N!NavigationInv'
  <1>1. PICK b \in BOOLEAN :
          /\ N!Emit(s, N!Event("turn", b)) /\ UNCHANGED <<x2, x12>> /\ x1' \subseteq Peers
          /\ b <=> s \in x1'
          /\ \A k \in Peers \union {NoValue} : k # s => (k \in x1' <=> k \in x1)
    BY NavTypes DEF N!NavigationInv, N!BeginTurn, N!EndTurn
  <1> DEFINE e == N!Event("turn", b)
  <1>2. e \in N!Events /\ e.kind = "turn" /\ e.value = b
    BY DEF N!Event, N!Events
  <1> HIDE DEF e
  <1>3. /\ N!TypeOK /\ N!TurnsAreTold /\ N!CompactionsAreTold
        /\ x2 \in [Peers -> SUBSET {"other", "own"}] /\ x12 \in BOOLEAN
        /\ x7 \in Seq(N!Events) /\ N!Known \in BOOLEAN /\ x10.compaction \in BOOLEAN
        /\ x6.of \in Peers \union {NoValue}
    BY NavTypes DEF N!NavigationInv, N!Statuses
  <1>4. /\ NavPlaces' /\ N!Known' = N!Known
        /\ x7' = IF x6.of = s THEN Append(x7, e) ELSE x7
        /\ UNCHANGED <<x3, x4, x5, x6, x8, x9, x10>>
    BY <1>1, <1>2, <1>3, EmitKeeps DEF e
  <1>5. N!TurnsAreTold'
    <2> DEFINE now == (x6.of \in x1')
               was == (x6.of \in x1)
    <2>1. now \in BOOLEAN /\ was \in BOOLEAN
      OBVIOUS
    <2>2. x6.of = s => (b <=> now)
      BY <1>1
    <2>3. x6.of # s => (now <=> was)
      BY <1>1, <1>3
    <2>4. x6.of # NoValue => N!Told(x7, "turn", N!Known, was)
      BY <1>3 DEF N!TurnsAreTold
    <2> HIDE DEF now, was
    <2>5. x6.of # NoValue => N!Told(x7', "turn", N!Known, now)
      <3>1. CASE x6.of = s
        <4>1. e.value = TRUE <=> now
          BY <1>2, <2>2, <3>1
        <4> DEFINE known == N!Known
        <4>2. known \in BOOLEAN
          BY <1>3
        <4> HIDE DEF known
        <4>3. N!Told(Append(x7, e), "turn", known, now)
          BY <1>2, <1>3, <2>1, <4>1, <4>2, EventTells
        <4> QED
          BY <1>4, <3>1, <4>3 DEF known
      <3>2. CASE x6.of # s
        <4>1. now = was
          BY <2>1, <2>3, <3>2
        <4> QED
          BY <1>4, <2>4, <3>2, <4>1
      <3> QED
        BY <3>1, <3>2
    <2> QED
      BY <1>4, <2>5 DEF now, N!TurnsAreTold
  <1>6. N!CompactionsAreTold'
    <2> DEFINE value == (x2[x6.of] # {})
               shown == (x2[x3] # {})
    <2>1. value \in BOOLEAN /\ shown \in BOOLEAN
      OBVIOUS
    <2>2. ~x12 =>
            /\ \A k \in Peers : \A c, d \in x2[k] : c = d
            /\ x8.pc = "hydrate" => ~x10.compaction
            /\ (x6.of # NoValue /\ x8.pc # "compact" => N!Told(x7, "compaction", x10.compaction, value))
            /\ x8.pc = "compact" =>
                 ~x10.compaction /\ x2[x3] \subseteq {"own"} /\ N!Newest(x7, "compaction", shown)
      BY <1>3 DEF N!CompactionsAreTold
    <2> HIDE DEF value, shown
    <2>3. /\ N!Told(x7, "compaction", x10.compaction, value)
             => N!Told(x7', "compaction", x10.compaction, value)
          /\ N!Newest(x7, "compaction", shown) => N!Newest(x7', "compaction", shown)
      <3>1. "turn" # "compaction" /\ e.kind # "compaction"
        BY <1>2
      <3> DEFINE known == x10.compaction
      <3>0. known \in BOOLEAN
        BY <1>3
      <3> HIDE DEF known
      <3>2. N!Told(x7, "compaction", known, value)
              => N!Told(Append(x7, e), "compaction", known, value)
        BY <1>2, <1>3, <2>1, <3>0, <3>1, EventOfOther
      <3>3. N!Newest(x7, "compaction", shown) => N!Newest(Append(x7, e), "compaction", shown)
        BY <1>2, <1>3, <2>1, <3>1, EventLast
      <3> QED
        BY <1>4, <3>2, <3>3 DEF known
    <2> QED
      BY <1>1, <1>4, <2>2, <2>3 DEF value, shown, N!CompactionsAreTold
  <1> QED
    BY <1>4, <1>5, <1>6 DEF N!NavigationInv, NavPlaces

\* An event that is not about turns.
LEMMA TurnsStayTold ==
  ASSUME N!NavigationInv, NEW s \in Peers, NEW e \in N!Events, e.kind # "turn",
         N!Known' = N!Known, x7' = IF x6.of = s THEN Append(x7, e) ELSE x7,
         UNCHANGED <<x1, x6>>
  PROVE  N!TurnsAreTold'
  <1> DEFINE now == (x6.of \in x1)
             known == N!Known
  <1>1. /\ now \in BOOLEAN /\ known \in BOOLEAN /\ x7 \in Seq(N!Events)
        /\ x6.of # NoValue => N!Told(x7, "turn", known, now)
    BY NavTypes DEF N!NavigationInv, N!TurnsAreTold
  <1> HIDE DEF now, known
  <1>2. x6.of # NoValue => N!Told(Append(x7, e), "turn", known, now)
    BY <1>1, EventOfOther
  <1>3. x6.of # NoValue => N!Told(x7', "turn", known, now)
    BY <1>1, <1>2
  <1> QED
    BY <1>3 DEF now, known, N!TurnsAreTold

\* The compactions of a session.
LEMMA NavCompactions ==
  ASSUME N!NavigationInv, NEW s \in Peers, NEW who \in {"other", "own"},
         N!CompactionBegins(s, who) \/ N!CompactionEnds(s, who)
  PROVE  N!NavigationInv'
  <1>1. /\ N!TypeOK /\ N!TurnsAreTold /\ N!CompactionsAreTold /\ N!StreamIsOfView
        /\ x1 \subseteq Peers /\ x2 \in [Peers -> SUBSET {"other", "own"}] /\ x12 \in BOOLEAN
        /\ x7 \in Seq(N!Events) /\ N!Known \in BOOLEAN /\ x10.compaction \in BOOLEAN
        /\ x6.of \in Peers \union {NoValue} /\ NoValue \notin Peers /\ x3 \in Peers
    BY NavTypes DEF N!NavigationInv, N!Statuses
  <1>2. ~x12 => \A k \in Peers : \A c, d \in x2[k] : c = d
    BY <1>1 DEF N!CompactionsAreTold
  <1>3. PICK b \in BOOLEAN :
          /\ N!Emit(s, N!Event("compaction", b)) /\ UNCHANGED x1
          /\ x2' \in [Peers -> SUBSET {"other", "own"}]
          /\ \A k \in Peers : k # s => x2'[k] = x2[k]
          /\ x12' \in BOOLEAN /\ (~x12' => ~x12)
          /\ ~x12' => (b <=> x2'[s] # {}) /\ x2'[s] \subseteq {who}
          /\ ~x12' /\ x8.pc = "compact" /\ s = x3 => x2'[s] \subseteq {"own"}
    <2>1. CASE N!CompactionBegins(s, who)
      <3>1. /\ x2' = [x2 EXCEPT ![s] = x2[s] \union {who}] /\ UNCHANGED x1
            /\ N!Emit(s, N!Event("compaction", TRUE))
            /\ x12' = (x12 \/ x2[s] # {} \/ (s = x3 /\ x8.pc = "compact" /\ who = "other"))
        BY <2>1 DEF N!CompactionBegins
      <3>2. x2'[s] = x2[s] \union {who} /\ \A k \in Peers : k # s => x2'[k] = x2[k]
        BY <1>1, <3>1
      <3>3. x2' \in [Peers -> SUBSET {"other", "own"}]
        BY <1>1, <3>1
      <3>4. x12' \in BOOLEAN /\ (~x12' => ~x12 /\ x2[s] = {})
        BY <1>1, <3>1
      <3>5. ~x12' /\ x8.pc = "compact" /\ s = x3 => who = "own"
        BY <3>1
      <3> QED
        BY <3>1, <3>2, <3>3, <3>4, <3>5
    <2>2. CASE N!CompactionEnds(s, who)
      <3>1. /\ x2' = [x2 EXCEPT ![s] = x2[s] \ {who}] /\ UNCHANGED <<x1, x12>>
            /\ N!Emit(s, N!Event("compaction", FALSE)) /\ who \in x2[s]
        BY <2>2 DEF N!CompactionEnds
      <3>2. x2'[s] = x2[s] \ {who} /\ \A k \in Peers : k # s => x2'[k] = x2[k]
        BY <1>1, <3>1
      <3>3. x2' \in [Peers -> SUBSET {"other", "own"}]
        BY <1>1, <3>1
      <3>4. ~x12' => x2'[s] = {}
        BY <1>2, <3>1, <3>2
      <3> QED
        BY <1>1, <3>1, <3>2, <3>3, <3>4
    <2> QED
      BY <2>1, <2>2
  <1> DEFINE e == N!Event("compaction", b)
  <1>4. e \in N!Events /\ e.kind = "compaction" /\ e.value = b
    BY DEF N!Event, N!Events
  <1> HIDE DEF e
  <1>5. /\ NavPlaces' /\ N!Known' = N!Known
        /\ x7' = IF x6.of = s THEN Append(x7, e) ELSE x7
        /\ UNCHANGED <<x3, x4, x5, x6, x8, x9, x10>>
    BY <1>1, <1>3, <1>4, EmitKeeps DEF e
  <1>6. N!TurnsAreTold'
    BY <1>3, <1>4, <1>5, TurnsStayTold
  <1>7. N!CompactionsAreTold'
    <2> DEFINE known == x10.compaction
               now == (x2'[x6.of] # {})
               shown == (x2'[x3] # {})
    <2> SUFFICES ASSUME ~x12'
                 PROVE  /\ \A k \in Peers : \A c, d \in x2'[k] : c = d
                        /\ x8.pc = "hydrate" => ~known
                        /\ x6.of # NoValue /\ x8.pc # "compact"
                             => N!Told(x7', "compaction", known, now)
                        /\ x8.pc = "compact" =>
                             /\ ~known /\ x2'[x3] \subseteq {"own"}
                             /\ N!Newest(x7', "compaction", shown)
      BY <1>5 DEF N!CompactionsAreTold
    <2>1. ~x12
      BY <1>3
    <2>2. known \in BOOLEAN /\ now \in BOOLEAN /\ shown \in BOOLEAN
      BY <1>1
    <2>3. \A k \in Peers : \A c, d \in x2'[k] : c = d
      BY <1>2, <1>3, <2>1
    <2>4. x8.pc = "hydrate" => ~known
      BY <1>1, <2>1 DEF N!CompactionsAreTold
    <2>5. ASSUME x6.of # NoValue, x8.pc # "compact"
          PROVE  N!Told(x7', "compaction", known, now)
      <3>1. CASE x6.of = s
        <4>1. e.value = TRUE <=> now
          BY <1>3, <1>4, <3>1
        <4> HIDE DEF now, known
        <4>2. x7 \in Seq(N!Events) /\ e \in N!Events
          BY <1>1, <1>4
        <4>3. N!Told(Append(x7, e), e.kind, known, now)
          BY <2>2, <4>1, <4>2, EventTells
        <4> QED
          BY <1>4, <1>5, <3>1, <4>3
      <3>2. CASE x6.of # s
        <4>1. x2'[x6.of] = x2[x6.of]
          BY <1>1, <1>3, <2>5, <3>2
        <4>2. N!Told(x7, "compaction", known, x2[x6.of] # {})
          BY <1>1, <2>1, <2>5 DEF N!CompactionsAreTold
        <4> QED
          BY <1>5, <3>2, <4>1, <4>2
      <3> QED
        BY <3>1, <3>2
    <2>6. ASSUME x8.pc = "compact"
          PROVE  /\ ~known /\ x2'[x3] \subseteq {"own"}
                 /\ N!Newest(x7', "compaction", shown)
      <3>1. /\ ~known /\ x2[x3] \subseteq {"own"} /\ N!Newest(x7, "compaction", x2[x3] # {})
            /\ x6.of = x3
        BY <1>1, <2>1, <2>6 DEF N!CompactionsAreTold, N!StreamIsOfView
      <3>2. CASE x3 = s
        <4>1. e.value = TRUE <=> shown
          BY <1>3, <1>4, <3>2
        <4>2. x2'[x3] \subseteq {"own"}
          BY <1>3, <2>6, <3>2
        <4> HIDE DEF shown
        <4>3. N!Newest(Append(x7, e), "compaction", shown)
          BY <1>1, <1>4, <2>2, <4>1, EventLast
        <4> QED
          BY <1>5, <3>1, <3>2, <4>2, <4>3
      <3>3. CASE x3 # s
        <4>1. x2'[x3] = x2[x3]
          BY <1>1, <1>3, <3>3
        <4> QED
          BY <1>5, <3>1, <3>3, <4>1
      <3> QED
        BY <3>2, <3>3
    <2> QED
      BY <2>3, <2>4, <2>5, <2>6
  <1> QED
    BY <1>5, <1>6, <1>7 DEF N!NavigationInv, NavPlaces

\* What the client knows of compactions, spelled out.
LEMMA CompactionsKnown ==
  ASSUME N!NavigationInv, ~x12
  PROVE  /\ \A k \in Peers : \A c, d \in x2[k] : c = d
         /\ x8.pc = "hydrate" => ~x10.compaction
         /\ x6.of # NoValue /\ x8.pc # "compact"
              => N!Told(x7, "compaction", x10.compaction, x2[x6.of] # {})
         /\ x8.pc = "compact" =>
              /\ ~x10.compaction /\ x2[x3] \subseteq {"own"}
              /\ N!Newest(x7, "compaction", x2[x3] # {})
  BY DEF N!NavigationInv, N!CompactionsAreTold

\* A delegated session reports.
LEMMA NavProgress ==
  ASSUME N!NavigationInv, NEW s \in Peers, NEW child \in Peers, N!Progress(s, child)
  PROVE  N!NavigationInv'
  <1> DEFINE e == N!Event("progress", child)
  <1>1. e \in N!Events /\ e.kind = "progress"
    BY DEF N!Event, N!Events
  <1>2. /\ N!TypeOK /\ x1 \subseteq Peers /\ x2 \in [Peers -> SUBSET {"other", "own"}]
        /\ x7 \in Seq(N!Events) /\ x10.compaction \in BOOLEAN /\ x12 \in BOOLEAN
    BY NavTypes DEF N!NavigationInv, N!Statuses
  <1>3. N!Emit(s, e) /\ UNCHANGED <<x1, x2, x12>>
    BY DEF N!Progress, N!server
  <1> HIDE DEF e
  <1>4. /\ NavPlaces' /\ N!Known' = N!Known
        /\ x7' = IF x6.of = s THEN Append(x7, e) ELSE x7
        /\ UNCHANGED <<x3, x4, x5, x6, x8, x9, x10>>
    BY <1>1, <1>2, <1>3, EmitKeeps
  <1>5. N!TurnsAreTold'
    BY <1>1, <1>3, <1>4, TurnsStayTold
  <1>6. N!CompactionsAreTold'
    <2> DEFINE known == x10.compaction
               now == (x2[x6.of] # {})
               shown == (x2[x3] # {})
    <2>1. known \in BOOLEAN /\ now \in BOOLEAN /\ shown \in BOOLEAN
      BY <1>2
    <2>2. ~x12 =>
            /\ \A k \in Peers : \A c, d \in x2[k] : c = d
            /\ x8.pc = "hydrate" => ~known
            /\ (x6.of # NoValue /\ x8.pc # "compact" => N!Told(x7, "compaction", known, now))
            /\ x8.pc = "compact" =>
                 ~known /\ x2[x3] \subseteq {"own"} /\ N!Newest(x7, "compaction", shown)
      BY CompactionsKnown
    <2> HIDE DEF known, now, shown
    <2>3. N!Told(x7, "compaction", known, now) => N!Told(Append(x7, e), "compaction", known, now)
      BY <1>1, <1>2, <2>1, EventOfOther
    <2>4. N!Newest(x7, "compaction", shown) => N!Newest(Append(x7, e), "compaction", shown)
      BY <1>1, <1>2, <2>1, EventLast
    <2>5. /\ N!Told(x7, "compaction", known, now) => N!Told(x7', "compaction", known, now)
          /\ N!Newest(x7, "compaction", shown) => N!Newest(x7', "compaction", shown)
      BY <1>4, <2>3, <2>4
    <2> QED
      BY <1>3, <1>4, <2>2, <2>5 DEF known, now, shown, N!CompactionsAreTold
  <1> QED
    BY <1>4, <1>5, <1>6 DEF N!NavigationInv, NavPlaces

\* The spinners.
LEMMA NavTick == ASSUME N!NavigationInv, N!Tick PROVE N!NavigationInv'
  <1>1. /\ N!TypeOK /\ N!PlaceIsKnown /\ N!StreamIsOfView /\ N!StatusFits
        /\ N!TurnsAreTold /\ N!CompactionsAreTold
    BY DEF N!NavigationInv
  <1>2. /\ UNCHANGED <<x1, x2, x3, x4, x5, x6, x7, x8, x9, x12>>
        /\ \/ x9 /\ x8.pc # "turn" /\ x10' = [x10 EXCEPT !.turn = "turn"]
           \/ x10.local /\ x10' = [x10 EXCEPT !.turn = "compacting"]
    BY DEF N!Tick, N!server, N!place, N!LocalTurn
  <1>3. x10 \in N!Statuses
    BY <1>1, NavTypes
  <1>4. /\ x10' \in N!Statuses /\ x10'.compaction = x10.compaction /\ x10'.local = x10.local
        /\ \/ x9 /\ x8.pc # "turn" /\ x10'.turn = "turn"
           \/ x10.local /\ x10'.turn = "compacting"
    BY <1>2, <1>3 DEF N!Statuses
  <1>5. N!TypeOK'
    BY <1>1, <1>2, <1>4 DEF N!TypeOK
  <1>6. N!PlaceIsKnown' /\ N!StreamIsOfView'
    BY <1>1, <1>2 DEF N!PlaceIsKnown, N!StreamIsOfView, N!SubagentTargets, N!Leaving
  <1>7. N!StatusFits'
    BY <1>1, <1>2, <1>4 DEF N!StatusFits
  <1>8. N!TurnsAreTold'
    BY <1>1, <1>2 DEF N!TurnsAreTold, N!Known
  <1>9. N!CompactionsAreTold'
    BY <1>1, <1>2, <1>4 DEF N!CompactionsAreTold
  <1> QED
    BY <1>5, <1>6, <1>7, <1>8, <1>9 DEF N!NavigationInv

\* The client handles an event.
LEMMA NavDeliver == ASSUME N!NavigationInv, N!Deliver PROVE N!NavigationInv'
  <1>1. /\ N!TypeOK /\ N!PlaceIsKnown /\ N!StreamIsOfView /\ N!StatusFits
        /\ N!TurnsAreTold
    BY DEF N!NavigationInv
  <1>2. /\ x3 \in Peers /\ x4 \in Peers /\ x5 \subseteq Peers /\ x7 \in Seq(N!Events)
        /\ x8 \in N!Commands /\ x9 \in BOOLEAN /\ x10 \in N!Statuses
        /\ x10.compaction \in BOOLEAN /\ x10.local \in BOOLEAN
    BY <1>1, NavTypes DEF N!Statuses
  <1> DEFINE e == Head(x7)
             rest == Tail(x7)
  <1>3. /\ x7 # <<>> /\ x6.open /\ x7' = rest
        /\ UNCHANGED <<x1, x2, x3, x4, x6, x8, x11, x12>>
        /\ \/ /\ e.kind = "turn" /\ x9' = e.value /\ x5' = x5
              /\ x10' = IF x8.pc = "turn" THEN x10
                        ELSE [x10 EXCEPT !.turn = IF e.value THEN "turn" ELSE "none"]
           \/ /\ e.kind = "progress" /\ UNCHANGED <<x9, x10>>
              /\ x5' = IF e.value = x4 THEN x5 ELSE x5 \union {e.value}
           \/ /\ e.kind = "compaction" /\ UNCHANGED <<x5, x9>>
              /\ x10' = IF x10.local THEN x10 ELSE [x10 EXCEPT !.compaction = e.value]
    <2>1. e \in N!Events
      BY <1>2, EventHandled DEF N!Deliver
    <2>2. e.kind \in {"turn", "progress", "compaction"}
      BY <2>1 DEF N!Events
    <2> HIDE DEF e, rest
    <2>3. /\ x7 # <<>> /\ x6.open /\ x7' = rest
          /\ UNCHANGED <<x1, x2, x3, x4, x6, x8, x11, x12>>
      BY DEF N!Deliver, N!server, rest
    <2>4. CASE e.kind = "turn"
      BY <2>3, <2>4 DEF N!Deliver, N!ApplyTurnStatus, N!LocalTurn, e
    <2>5. CASE e.kind = "progress"
      BY <2>3, <2>5 DEF N!Deliver, N!Remember, e
    <2>6. CASE e.kind = "compaction"
      BY <2>3, <2>6 DEF N!Deliver, e
    <2> QED
      BY <2>2, <2>3, <2>4, <2>5, <2>6
  <1>4. /\ e \in N!Events /\ rest \in Seq(N!Events)
        /\ e.kind = "turn" => e.value \in BOOLEAN
        /\ e.kind = "compaction" => e.value \in BOOLEAN
        /\ e.kind = "progress" => e.value \in Peers
    BY <1>2, <1>3, EventHandled DEF N!Events
  <1>5. x6.of # NoValue => x8.pc \in {"idle", "turn", "compact", "finish"}
    BY <1>1, <1>2, <1>3 DEF N!StreamIsOfView, N!Commands
  <1>6. x8.pc \in {"idle", "turn", "compact", "finish"} /\ N!Known = x9 /\ N!Known' = x9'
    <2>1. x8.pc \notin {"hydrate", "apply", "open", "closed"}
      BY <1>1, <1>3 DEF N!StreamIsOfView
    <2> QED
      BY <1>2, <1>3, <2>1 DEF N!Commands, N!Known
  <1>7. /\ x9' \in BOOLEAN /\ x10' \in N!Statuses /\ x5' \subseteq Peers
        /\ x4 \notin x5 => x4 \notin x5' /\ x5 \subseteq x5'
    BY <1>2, <1>3, <1>4 DEF N!Statuses
  <1>8. /\ x10'.local = x10.local
        /\ e.kind # "turn" => x9' = x9 /\ x10'.turn = x10.turn
        /\ e.kind # "compaction" => x10'.compaction = x10.compaction
        /\ e.kind = "compaction" =>
             x10'.compaction = IF x10.local THEN x10.compaction ELSE e.value
        /\ e.kind = "turn" =>
             /\ x9' = e.value
             /\ \/ x8.pc = "turn" /\ x10'.turn = x10.turn
                \/ x8.pc # "turn" /\ e.value /\ x10'.turn = "turn"
                \/ x8.pc # "turn" /\ ~e.value /\ x10'.turn = "none"
    BY <1>2, <1>3, <1>4 DEF N!Statuses
  <1> HIDE DEF e, rest
  <1>9. N!TypeOK'
    BY <1>1, <1>3, <1>4, <1>7 DEF N!TypeOK
  <1>10. N!PlaceIsKnown'
    BY <1>1, <1>3, <1>7 DEF N!PlaceIsKnown, N!SubagentTargets, N!Leaving
  <1>11. N!StreamIsOfView'
    BY <1>1, <1>3, <1>6 DEF N!StreamIsOfView
  <1>12. N!StatusFits'
    BY <1>1, <1>3, <1>8 DEF N!StatusFits
  <1>13. N!TurnsAreTold'
    <2> DEFINE now == (x6.of \in x1)
    <2>1. now \in BOOLEAN /\ (x6.of # NoValue => N!Told(x7, "turn", x9, now))
      BY <1>1, <1>6 DEF N!TurnsAreTold
    <2> HIDE DEF now
    <2>2. x6.of # NoValue => N!Told(rest, "turn", x9', now)
      <3>1. CASE e.kind = "turn"
        <4>1. x6.of # NoValue => N!Newest(x7, "turn", now)
          BY <2>1 DEF N!Told
        <4>2. x9' <=> e.value = TRUE
          BY <1>4, <1>7, <1>8, <3>1
        <4> QED
          BY <1>2, <1>3, <1>7, <2>1, <3>1, <4>1, <4>2, EventHandled, ZenonT(40) DEF e, rest
      <3>2. CASE e.kind # "turn"
        <4>1. x6.of # NoValue => N!Told(rest, "turn", x9, now)
          BY <1>2, <1>3, <2>1, <3>2, EventHandled DEF e, rest
        <4> QED
          BY <1>8, <3>2, <4>1
      <3> QED
        BY <3>1, <3>2
    <2> QED
      BY <1>3, <1>6, <2>2 DEF now, N!TurnsAreTold
  <1>14. N!CompactionsAreTold'
    <2> SUFFICES ASSUME ~x12 PROVE N!CompactionsAreTold'
      BY <1>3 DEF N!CompactionsAreTold
    <2> DEFINE known == x10.compaction
               after == x10'.compaction
               now == (x2[x6.of] # {})
               shown == (x2[x3] # {})
    <2>1. /\ known \in BOOLEAN /\ now \in BOOLEAN /\ shown \in BOOLEAN
          /\ after \in BOOLEAN
      BY <1>2, <1>7 DEF N!Statuses
    <2>2. /\ \A k \in Peers : \A c, d \in x2[k] : c = d
          /\ (x6.of # NoValue /\ x8.pc # "compact" => N!Told(x7, "compaction", known, now))
          /\ x8.pc = "compact" =>
               ~known /\ x2[x3] \subseteq {"own"} /\ N!Newest(x7, "compaction", shown)
      BY CompactionsKnown
    <2>3. /\ e.kind # "compaction" => after = known
          /\ e.kind = "compaction" => after = IF x10.local THEN known ELSE e.value
          /\ x10.local = (x8.pc = "compact")
      BY <1>1, <1>8 DEF N!StatusFits
    <2> HIDE DEF known, after, now, shown
    <2>4. ASSUME x6.of # NoValue, x8.pc # "compact"
          PROVE  N!Told(rest, "compaction", after, now)
      <3>1. CASE e.kind = "compaction"
        <4>1. N!Newest(x7, "compaction", now)
          BY <2>2, <2>4 DEF N!Told
        <4>2. after <=> e.value = TRUE
          BY <1>4, <2>3, <2>4, <3>1
        <4> QED
          BY <1>2, <1>3, <2>1, <3>1, <4>1, <4>2, EventHandled, ZenonT(40) DEF e, rest
      <3>2. CASE e.kind # "compaction"
        <4>1. N!Told(x7, "compaction", known, now) /\ x7 \in Seq(N!Events) /\ x7 # <<>>
          BY <1>2, <1>3, <2>2, <2>4
        <4>2. N!Told(rest, "compaction", known, now)
          BY <2>1, <3>2, <4>1, EventHandled DEF e, rest
        <4> QED
          BY <2>3, <3>2, <4>2
      <3> QED
        BY <3>1, <3>2
    <2>5. ASSUME x8.pc = "compact"
          PROVE  ~after /\ x2[x3] \subseteq {"own"} /\ N!Newest(rest, "compaction", shown)
      <3>1. after = known
        BY <2>3, <2>5
      <3>2. N!Newest(rest, "compaction", shown)
        BY <1>2, <1>3, <2>1, <2>2, <2>5, EventHandled, ZenonT(40) DEF rest
      <3> QED
        BY <2>2, <2>5, <3>1, <3>2
    <2> QED
      BY <1>3, <1>6, <2>2, <2>4, <2>5 DEF after, now, shown, N!CompactionsAreTold
  <1> QED
    BY <1>9, <1>10, <1>11, <1>12, <1>13, <1>14 DEF N!NavigationInv

\* What holds in each of the steps below.
LEMMA NavFacts ==
  ASSUME N!NavigationInv
  PROVE  /\ N!TypeOK /\ N!PlaceIsKnown /\ N!StreamIsOfView /\ N!StatusFits
         /\ N!TurnsAreTold /\ N!CompactionsAreTold
         /\ x1 \subseteq Peers /\ x2 \in [Peers -> SUBSET {"other", "own"}]
         /\ x3 \in Peers /\ x4 \in Peers /\ x5 \subseteq Peers
         /\ x7 \in Seq(N!Events) /\ x8 \in N!Commands /\ x9 \in BOOLEAN
         /\ x10 \in N!Statuses /\ x10.compaction \in BOOLEAN /\ x10.local \in BOOLEAN
         /\ x12 \in BOOLEAN /\ NoValue \notin Peers
         /\ <<>> \in Seq(N!Events)
  BY NavTypes DEF N!NavigationInv, N!Statuses

\* The session is left: nothing is followed.
LEMMA NavLeave ==
  ASSUME N!NavigationInv, NEW s \in Peers, NEW kind \in {"session", "sub"}, N!Leave(kind, s)
  PROVE  N!NavigationInv'
  <1>1. /\ N!TypeOK /\ N!PlaceIsKnown /\ N!StatusFits
        /\ x10 \in N!Statuses /\ x10.compaction \in BOOLEAN /\ x12 \in BOOLEAN
        /\ <<>> \in Seq(N!Events)
    BY NavFacts
  <1>2. /\ x8.pc = "idle" /\ UNCHANGED <<x1, x2, x3, x4, x5>>
        /\ kind = "sub" => s \in N!SubagentTargets
        /\ x8' = [pc |-> "hydrate", kind |-> kind, target |-> s, running |-> FALSE]
        /\ x9' = FALSE /\ x10' = [x10 EXCEPT !.turn = "none"]
        /\ x6' = [of |-> NoValue, open |-> FALSE] /\ x7' = <<>>
        /\ x12' = (x12 \/ x10.compaction)
    BY DEF N!Leave, N!Command, N!ApplyTurnStatus, N!LocalTurn, N!server, N!place
  <1>3. /\ x8' \in N!Commands /\ x8'.pc = "hydrate" /\ x8'.kind = kind /\ x8'.target = s
    BY <1>2 DEF N!Commands
  <1>4. /\ x10' \in N!Statuses /\ x10'.turn = "none" /\ x10'.local = x10.local
        /\ x10'.compaction = x10.compaction
    BY <1>1, <1>2 DEF N!Statuses
  <1>5. N!TypeOK'
    <2>1. /\ x9' \in BOOLEAN /\ x12' \in BOOLEAN /\ x7' \in Seq(N!Events)
          /\ x6' \in [of : Peers \union {NoValue}, open : BOOLEAN]
      BY <1>1, <1>2
    <2> QED
      BY <1>1, <1>2, <1>3, <1>4, <2>1 DEF N!TypeOK
  <1>6. N!PlaceIsKnown'
    BY <1>1, <1>2, <1>3 DEF N!PlaceIsKnown, N!SubagentTargets, N!Leaving
  <1>7. N!StreamIsOfView'
    BY <1>2, <1>3 DEF N!StreamIsOfView
  <1>8. N!StatusFits'
    BY <1>1, <1>2, <1>3, <1>4 DEF N!StatusFits
  <1>9. N!TurnsAreTold'
    BY <1>2 DEF N!TurnsAreTold
  <1>10. N!CompactionsAreTold'
    <2> SUFFICES ASSUME ~x12' PROVE N!CompactionsAreTold'
      BY DEF N!CompactionsAreTold
    <2>1. ~x12 /\ ~x10.compaction
      BY <1>1, <1>2
    <2>2. \A k \in Peers : \A c, d \in x2'[k] : c = d
      BY <1>2, <2>1, CompactionsKnown
    <2> QED
      BY <1>2, <1>3, <1>4, <2>1, <2>2 DEF N!CompactionsAreTold
  <1> QED
    BY <1>5, <1>6, <1>7, <1>8, <1>9, <1>10 DEF N!NavigationInv

\* The new session is read.
LEMMA NavHydrate == ASSUME N!NavigationInv, N!Hydrate PROVE N!NavigationInv'
  <1>1. /\ N!TypeOK /\ N!PlaceIsKnown /\ N!StreamIsOfView /\ N!StatusFits
        /\ x8 \in N!Commands /\ x12 \in BOOLEAN /\ x10.compaction \in BOOLEAN
    BY NavFacts
  <1> DEFINE value == (x8.target \in x1)
             going == (x2[x8.target] # {})
  <1>2. /\ x8.pc = "hydrate" /\ UNCHANGED <<x1, x2, x3, x4, x5, x7, x9, x10>>
        /\ x8' = [x8 EXCEPT !.pc = "apply", !.running = value]
        /\ x6' = [of |-> x8.target, open |-> FALSE] /\ x12' = (x12 \/ going)
    BY DEF N!Hydrate, N!server, N!place
  <1>3. value \in BOOLEAN /\ going \in BOOLEAN
    OBVIOUS
  <1>4. x8.target \in Peers /\ x7 = <<>>
    BY <1>1, <1>2 DEF N!PlaceIsKnown, N!StreamIsOfView, N!Leaving
  <1> HIDE DEF value, going
  <1>5. /\ x8' \in N!Commands /\ x8'.pc = "apply" /\ x8'.running = value
        /\ x8'.kind = x8.kind /\ x8'.target = x8.target
    BY <1>1, <1>2, <1>3 DEF N!Commands
  <1>6. N!TypeOK'
    <2>1. x6' \in [of : Peers \union {NoValue}, open : BOOLEAN] /\ x12' \in BOOLEAN
      BY <1>1, <1>2, <1>3, <1>4
    <2> QED
      BY <1>1, <1>2, <1>5, <2>1 DEF N!TypeOK
  <1>7. N!PlaceIsKnown'
    BY <1>1, <1>2, <1>5 DEF N!PlaceIsKnown, N!SubagentTargets, N!Leaving
  <1>8. N!StreamIsOfView'
    BY <1>2, <1>5 DEF N!StreamIsOfView
  <1>9. N!StatusFits'
    BY <1>1, <1>2, <1>5 DEF N!StatusFits
  <1>10. N!TurnsAreTold'
    <2>1. N!Told(<<>>, "turn", value, value)
      BY <1>3, NothingTold
    <2>2. N!Known' = value /\ x6'.of = x8.target /\ x7' = <<>>
      BY <1>2, <1>4, <1>5 DEF N!Known
    <2>3. N!Told(x7', "turn", N!Known', value)
      BY <2>1, <2>2
    <2> QED
      BY <1>2, <2>2, <2>3 DEF value, N!TurnsAreTold
  <1>11. N!CompactionsAreTold'
    <2> SUFFICES ASSUME ~x12' PROVE N!CompactionsAreTold'
      BY DEF N!CompactionsAreTold
    <2>1. ~x12 /\ ~going
      BY <1>1, <1>2, <1>3
    <2>2. (\A k \in Peers : \A c, d \in x2[k] : c = d) /\ ~x10.compaction
      BY <1>2, <2>1, CompactionsKnown
    <2> DEFINE known == x10.compaction
    <2>3. known \in BOOLEAN
      BY <1>1
    <2>4. known <=> going
      BY <2>1, <2>2
    <2> HIDE DEF known
    <2>5. N!Told(<<>>, "compaction", known, going)
      BY <1>3, <2>3, <2>4, NothingTold
    <2>6. N!Told(x7', "compaction", x10'.compaction, x2'[x6'.of] # {})
      BY <1>2, <1>4, <2>5 DEF known, going
    <2> QED
      BY <1>2, <1>5, <2>2, <2>6 DEF N!CompactionsAreTold
  <1> QED
    BY <1>6, <1>7, <1>8, <1>9, <1>10, <1>11 DEF N!NavigationInv

\* It is shown, followed, and is the root unless it is a sub-agent.
LEMMA NavApply == ASSUME N!NavigationInv, N!Apply PROVE N!NavigationInv'
  <1>1. /\ N!TypeOK /\ N!PlaceIsKnown /\ N!StreamIsOfView /\ N!StatusFits
        /\ N!TurnsAreTold /\ N!CompactionsAreTold
        /\ x8 \in N!Commands /\ x10 \in N!Statuses
    BY NavFacts
  <1>2. /\ x8.pc = "apply" /\ UNCHANGED <<x1, x2, x3, x4, x5, x6, x7, x12>>
        /\ x8' = [x8 EXCEPT !.pc = "open"] /\ x9' = x8.running
        /\ x10' = [x10 EXCEPT !.turn = IF x8.running THEN "turn" ELSE "none"]
    BY DEF N!Apply, N!ApplyTurnStatus, N!LocalTurn, N!server, N!place
  <1>3. /\ x8' \in N!Commands /\ x8'.pc = "open" /\ x8.running \in BOOLEAN
        /\ x8'.kind = x8.kind /\ x8'.target = x8.target
    BY <1>1, <1>2 DEF N!Commands
  <1>4. /\ x10' \in N!Statuses /\ x10'.local = x10.local /\ x10'.compaction = x10.compaction
        /\ x10'.turn = IF x8.running THEN "turn" ELSE "none"
    BY <1>1, <1>2 DEF N!Statuses
  <1>5. N!TypeOK'
    BY <1>1, <1>2, <1>3, <1>4 DEF N!TypeOK
  <1>6. N!PlaceIsKnown'
    BY <1>1, <1>2, <1>3 DEF N!PlaceIsKnown, N!SubagentTargets, N!Leaving
  <1>7. N!StreamIsOfView'
    BY <1>1, <1>2, <1>3 DEF N!StreamIsOfView
  <1>8. N!StatusFits'
    BY <1>1, <1>2, <1>3, <1>4 DEF N!StatusFits
  <1>9. N!Known = x8.running /\ N!Known' = x8.running
    BY <1>2, <1>3 DEF N!Known
  <1>10. N!TurnsAreTold'
    BY <1>1, <1>2, <1>9 DEF N!TurnsAreTold
  <1>11. N!CompactionsAreTold'
    BY <1>1, <1>2, <1>3, <1>4 DEF N!CompactionsAreTold
  <1> QED
    BY <1>5, <1>6, <1>7, <1>8, <1>10, <1>11 DEF N!NavigationInv

LEMMA NavOpenStream == ASSUME N!NavigationInv, N!OpenStream PROVE N!NavigationInv'
  <1>1. /\ N!TypeOK /\ N!PlaceIsKnown /\ N!StreamIsOfView /\ N!StatusFits
        /\ N!TurnsAreTold /\ N!CompactionsAreTold /\ x8 \in N!Commands
        /\ x6 \in [of : Peers \union {NoValue}, open : BOOLEAN]
    BY NavFacts DEF N!TypeOK
  <1>2. /\ x8.pc = "open" /\ UNCHANGED <<x1, x2, x3, x4, x5, x7, x9, x10, x12>>
        /\ x8' = [x8 EXCEPT !.pc = "finish"] /\ x6' = [x6 EXCEPT !.open = TRUE]
    BY DEF N!OpenStream, N!server, N!place
  <1>3. /\ x8' \in N!Commands /\ x8'.pc = "finish"
        /\ x8'.kind = x8.kind /\ x8'.target = x8.target
    BY <1>1, <1>2 DEF N!Commands
  <1>4. /\ x6' \in [of : Peers \union {NoValue}, open : BOOLEAN] /\ x6'.of = x6.of
        /\ x6' = [of |-> x6.of, open |-> TRUE]
    BY <1>1, <1>2
  <1>5. N!TypeOK'
    BY <1>1, <1>2, <1>3, <1>4 DEF N!TypeOK
  <1>6. N!PlaceIsKnown'
    BY <1>1, <1>2, <1>3 DEF N!PlaceIsKnown, N!SubagentTargets, N!Leaving
  <1>7. N!StreamIsOfView'
    <2>1. x6.of = x8.target
      BY <1>1, <1>2 DEF N!StreamIsOfView
    <2> QED
      BY <1>2, <1>3, <1>4, <2>1 DEF N!StreamIsOfView
  <1>8. N!StatusFits'
    BY <1>1, <1>2, <1>3 DEF N!StatusFits
  <1>9. N!TurnsAreTold'
    BY <1>1, <1>2, <1>3, <1>4 DEF N!TurnsAreTold, N!Known
  <1>10. N!CompactionsAreTold'
    BY <1>1, <1>2, <1>3, <1>4 DEF N!CompactionsAreTold
  <1> QED
    BY <1>5, <1>6, <1>7, <1>8, <1>9, <1>10 DEF N!NavigationInv

LEMMA NavFinish == ASSUME N!NavigationInv, N!Finish PROVE N!NavigationInv'
  <1>1. /\ N!TypeOK /\ N!PlaceIsKnown /\ N!StreamIsOfView /\ N!StatusFits
        /\ N!TurnsAreTold /\ N!CompactionsAreTold
        /\ x4 \in Peers /\ x5 \subseteq Peers
    BY NavFacts
  <1>2. /\ x8.pc = "finish" /\ UNCHANGED <<x1, x2, x6, x7, x9, x10, x12>>
        /\ x8' = N!Idle /\ x3' = x8.target
        /\ \/ x8.kind = "sub" /\ x4' = x4 /\ x5' = x5
           \/ x8.kind # "sub" /\ x4' = x8.target /\ x5' = {}
    BY DEF N!Finish, N!Reset, N!server
  <1>3. N!Idle \in N!Commands /\ N!Idle.pc = "idle"
    BY DEF N!Idle, N!Commands
  <1>4. /\ x8.target \in Peers /\ x4 \notin x5
        /\ x8.kind = "sub" => x8.target \in {x4} \union x5
        /\ x6 = [of |-> x8.target, open |-> TRUE]
    BY <1>1, <1>2 DEF N!PlaceIsKnown, N!SubagentTargets, N!Leaving, N!StreamIsOfView
  <1>5. N!TypeOK'
    BY <1>1, <1>2, <1>3, <1>4 DEF N!TypeOK
  <1>6. N!PlaceIsKnown'
    BY <1>2, <1>3, <1>4 DEF N!PlaceIsKnown, N!SubagentTargets, N!Leaving
  <1>7. N!StreamIsOfView'
    BY <1>2, <1>3, <1>4 DEF N!StreamIsOfView
  <1>8. N!StatusFits'
    BY <1>1, <1>2, <1>3 DEF N!StatusFits
  <1>9. N!TurnsAreTold'
    BY <1>1, <1>2, <1>3 DEF N!TurnsAreTold, N!Known
  <1>10. N!CompactionsAreTold'
    BY <1>1, <1>2, <1>3 DEF N!CompactionsAreTold
  <1> QED
    BY <1>5, <1>6, <1>7, <1>8, <1>9, <1>10 DEF N!NavigationInv

\* A turn of this client.
LEMMA NavOwnTurn ==
  ASSUME N!NavigationInv, N!BeginOwnTurn \/ N!EndOwnTurn
  PROVE  N!NavigationInv'
  <1>1. /\ N!TypeOK /\ N!PlaceIsKnown /\ N!StreamIsOfView /\ N!StatusFits
        /\ x1 \subseteq Peers /\ x2 \in [Peers -> SUBSET {"other", "own"}] /\ x3 \in Peers
        /\ x7 \in Seq(N!Events) /\ x9 \in BOOLEAN /\ x10 \in N!Statuses
        /\ x10.compaction \in BOOLEAN /\ x12 \in BOOLEAN
    BY NavFacts
  <1>2. PICK b \in BOOLEAN :
          /\ x7' = Append(x7, N!Event("turn", b)) /\ UNCHANGED <<x2, x3, x4, x5, x6, x12>>
          /\ x1' \subseteq Peers /\ (b <=> x3 \in x1')
          /\ \/ /\ b /\ x8.pc = "idle" /\ x8' = [N!Idle EXCEPT !.pc = "turn"]
                /\ x9' = x9 /\ x10' = [x10 EXCEPT !.turn = "turn"]
             \/ /\ ~b /\ x8.pc = "turn" /\ x8' = N!Idle
                /\ x9' = FALSE /\ x10' = [x10 EXCEPT !.turn = "none"]
    BY <1>1 DEF N!BeginOwnTurn, N!EndOwnTurn, N!Command, N!LocalTurn, N!place
  <1> DEFINE e == N!Event("turn", b)
  <1>3. e \in N!Events /\ e.kind = "turn" /\ e.value = b
    BY DEF N!Event, N!Events
  <1> HIDE DEF e
  <1>4. /\ x8' \in N!Commands /\ x8.pc \in {"idle", "turn"}
        /\ x8'.pc = (IF b THEN "turn" ELSE "idle") /\ x9' \in BOOLEAN
    <2>1. /\ N!Idle \in N!Commands /\ N!Idle.pc = "idle"
          /\ [N!Idle EXCEPT !.pc = "turn"] \in N!Commands
          /\ [N!Idle EXCEPT !.pc = "turn"].pc = "turn"
      BY DEF N!Idle, N!Commands
    <2>2. CASE b
      BY <1>1, <1>2, <2>1, <2>2
    <2>3. CASE ~b
      BY <1>1, <1>2, <2>1, <2>3
    <2> QED
      BY <2>2, <2>3
  <1>5. /\ x10' \in N!Statuses /\ x10'.local = x10.local /\ x10'.compaction = x10.compaction
        /\ x10'.turn = (IF b THEN "turn" ELSE "none")
    BY <1>1, <1>2 DEF N!Statuses
  <1>6. x6 = [of |-> x3, open |-> TRUE] /\ x6.of = x3
    BY <1>1, <1>4 DEF N!StreamIsOfView
  <1>7. N!TypeOK'
    <2>1. Append(x7, e) \in Seq(N!Events)
      BY <1>1, <1>3
    <2> QED
      BY <1>1, <1>2, <1>4, <1>5, <2>1 DEF N!TypeOK, e
  <1>8. N!PlaceIsKnown'
    BY <1>1, <1>2, <1>4 DEF N!PlaceIsKnown, N!SubagentTargets, N!Leaving
  <1>9. N!StreamIsOfView'
    BY <1>2, <1>4, <1>6 DEF N!StreamIsOfView
  <1>10. N!StatusFits'
    BY <1>1, <1>4, <1>5 DEF N!StatusFits
  <1>11. N!TurnsAreTold'
    <2> DEFINE now == (x3 \in x1')
               known == x9'
    <2>1. now \in BOOLEAN /\ known \in BOOLEAN /\ (e.value = TRUE <=> now)
      BY <1>2, <1>3, <1>4
    <2> HIDE DEF now, known
    <2>2. N!Told(Append(x7, e), e.kind, known, now)
      BY <1>1, <1>3, <2>1, EventTells
    <2>3. N!Known' = x9'
      BY <1>4 DEF N!Known
    <2> QED
      BY <1>2, <1>3, <1>6, <2>2, <2>3 DEF now, known, e, N!TurnsAreTold
  <1>12. N!CompactionsAreTold'
    <2> SUFFICES ASSUME ~x12 PROVE N!CompactionsAreTold'
      BY <1>2 DEF N!CompactionsAreTold
    <2> DEFINE known == x10.compaction
               now == (x2[x6.of] # {})
    <2>1. known \in BOOLEAN /\ now \in BOOLEAN
      BY <1>1
    <2>2. /\ \A k \in Peers : \A c, d \in x2[k] : c = d
          /\ x6.of # NoValue => N!Told(x7, "compaction", known, now)
      BY <1>4, CompactionsKnown
    <2> HIDE DEF known, now
    <2>3. x6.of # NoValue => N!Told(Append(x7, e), "compaction", known, now)
      BY <1>1, <1>3, <2>1, <2>2, EventOfOther
    <2> QED
      BY <1>2, <1>4, <1>5, <2>2, <2>3 DEF known, now, e, N!CompactionsAreTold
  <1> QED
    BY <1>7, <1>8, <1>9, <1>10, <1>11, <1>12 DEF N!NavigationInv

\* /compact of this client.
LEMMA NavOwnCompaction ==
  ASSUME N!NavigationInv, N!BeginCompact \/ N!EndCompact
  PROVE  N!NavigationInv'
  <1>1. /\ N!TypeOK /\ N!PlaceIsKnown /\ N!StreamIsOfView /\ N!StatusFits /\ N!TurnsAreTold
        /\ x2 \in [Peers -> SUBSET {"other", "own"}] /\ x3 \in Peers
        /\ x8 \in N!Commands /\ x10 \in N!Statuses /\ x10.compaction \in BOOLEAN
        /\ x12 \in BOOLEAN /\ NoValue \notin Peers
    BY NavFacts
  <1>2. /\ UNCHANGED <<x1, x2, x3, x4, x5, x6, x7, x9>>
        /\ \/ /\ x8.pc = "idle" /\ x8' = [N!Idle EXCEPT !.pc = "compact"]
              /\ x10' = [x10 EXCEPT !.local = TRUE, !.turn = "compacting"]
              /\ x12' = (x12 \/ x2[x3] # {} \/ x7 # <<>>)
           \/ /\ x8.pc = "compact" /\ "own" \notin x2[x3] /\ x8' = N!Idle /\ x12' = x12
              /\ x10' = [x10 EXCEPT !.local = FALSE, !.turn = "none"]
    BY DEF N!BeginCompact, N!EndCompact, N!Command, N!server, N!place
  <1>3. /\ x8' \in N!Commands /\ x12' \in BOOLEAN /\ (~x12' => ~x12)
        /\ \/ x8.pc = "idle" /\ x8'.pc = "compact"
           \/ x8.pc = "compact" /\ x8'.pc = "idle"
    <2>1. /\ N!Idle \in N!Commands /\ N!Idle.pc = "idle"
          /\ [N!Idle EXCEPT !.pc = "compact"] \in N!Commands
          /\ [N!Idle EXCEPT !.pc = "compact"].pc = "compact"
      BY DEF N!Idle, N!Commands
    <2>2. x12' \in BOOLEAN /\ (~x12' => ~x12)
      BY <1>1, <1>2
    <2> QED
      BY <1>2, <2>1, <2>2
  <1>4. /\ x10' \in N!Statuses /\ x10'.compaction = x10.compaction
        /\ x10'.local = (x8'.pc = "compact")
        /\ x10'.turn = IF x8'.pc = "compact" THEN "compacting" ELSE "none"
    BY <1>1, <1>2, <1>3 DEF N!Statuses, N!Idle
  <1>5. x6 = [of |-> x3, open |-> TRUE] /\ x6.of = x3
    BY <1>1, <1>3 DEF N!StreamIsOfView
  <1>6. N!TypeOK'
    BY <1>1, <1>2, <1>3, <1>4 DEF N!TypeOK
  <1>7. N!PlaceIsKnown'
    BY <1>1, <1>2, <1>3 DEF N!PlaceIsKnown, N!SubagentTargets, N!Leaving
  <1>8. N!StreamIsOfView'
    BY <1>2, <1>3, <1>5 DEF N!StreamIsOfView
  <1>9. N!StatusFits'
    BY <1>3, <1>4 DEF N!StatusFits
  <1>10. N!TurnsAreTold'
    BY <1>1, <1>2, <1>3 DEF N!TurnsAreTold, N!Known
  <1>11. N!CompactionsAreTold'
    <2> SUFFICES ASSUME ~x12' PROVE N!CompactionsAreTold'
      BY DEF N!CompactionsAreTold
    <2>1. ~x12 /\ (\A k \in Peers : \A c, d \in x2[k] : c = d)
      BY <1>3, CompactionsKnown
    <2>2. CASE x8.pc = "idle"
      <3>1. x8'.pc = "compact" /\ x2[x3] = {} /\ x7 = <<>>
        BY <1>2, <1>3, <2>2
      <3>2. N!Told(x7, "compaction", x10.compaction, x2[x3] # {})
        BY <1>1, <1>5, <2>1, <2>2, CompactionsKnown
      <3>3. ~x10.compaction /\ N!Newest(x7, "compaction", x2[x3] # {})
        BY <3>1, <3>2 DEF N!Told
      <3> QED
        BY <1>2, <1>4, <2>1, <3>1, <3>3 DEF N!CompactionsAreTold
    <2>3. CASE x8.pc = "compact"
      <3>1. /\ x8'.pc = "idle" /\ "own" \notin x2[x3]
        BY <1>2, <1>3, <2>3
      <3>2. /\ ~x10.compaction /\ x2[x3] \subseteq {"own"}
            /\ N!Newest(x7, "compaction", x2[x3] # {})
        BY <2>1, <2>3, CompactionsKnown
      <3>3. x2[x3] = {}
        BY <3>1, <3>2
      <3>4. N!Told(x7, "compaction", x10.compaction, x2[x3] # {})
        BY <3>2, <3>3 DEF N!Told
      <3> QED
        BY <1>2, <1>4, <1>5, <2>1, <3>1, <3>4 DEF N!CompactionsAreTold
    <2> QED
      BY <1>3, <2>2, <2>3
  <1> QED
    BY <1>6, <1>7, <1>8, <1>9, <1>10, <1>11 DEF N!NavigationInv

\* The client ends.
LEMMA NavQuit == ASSUME N!NavigationInv, N!Quit PROVE N!NavigationInv'
  <1>1. /\ N!TypeOK /\ N!PlaceIsKnown /\ x12 \in BOOLEAN /\ <<>> \in Seq(N!Events)
    BY NavFacts
  <1>2. /\ UNCHANGED <<x1, x2, x3, x4, x5, x12>>
        /\ x8' = [N!Idle EXCEPT !.pc = "closed"]
        /\ x6' = [of |-> NoValue, open |-> FALSE] /\ x7' = <<>> /\ x9' = FALSE
        /\ x10' = [turn |-> "none", compaction |-> FALSE, local |-> FALSE]
    BY DEF N!Quit, N!server, N!place
  <1>3. x8' \in N!Commands /\ x8'.pc = "closed"
    BY <1>2 DEF N!Idle, N!Commands
  <1>4. N!TypeOK'
    <2>1. /\ x6' \in [of : Peers \union {NoValue}, open : BOOLEAN]
          /\ x9' \in BOOLEAN /\ x10' \in N!Statuses /\ x7' \in Seq(N!Events)
      BY <1>1, <1>2 DEF N!Statuses
    <2> QED
      BY <1>1, <1>2, <1>3, <2>1 DEF N!TypeOK
  <1>5. N!PlaceIsKnown'
    BY <1>1, <1>2, <1>3 DEF N!PlaceIsKnown, N!SubagentTargets, N!Leaving
  <1>6. N!StreamIsOfView' /\ N!StatusFits'
    BY <1>2, <1>3 DEF N!StreamIsOfView, N!StatusFits
  <1>7. N!TurnsAreTold'
    BY <1>2 DEF N!TurnsAreTold
  <1>8. N!CompactionsAreTold'
    <2> SUFFICES ASSUME ~x12 PROVE N!CompactionsAreTold'
      BY <1>2 DEF N!CompactionsAreTold
    <2>1. \A k \in Peers : \A c, d \in x2[k] : c = d
      BY CompactionsKnown
    <2> QED
      BY <1>2, <1>3, <2>1 DEF N!CompactionsAreTold
  <1> QED
    BY <1>4, <1>5, <1>6, <1>7, <1>8 DEF N!NavigationInv

LEMMA NavInit == ASSUME N!Init PROVE N!NavigationInv
  <1>1. /\ x1 \in SUBSET Peers /\ x2 = [s \in Peers |-> {}]
        /\ x3 \in Peers /\ x4 = x3 /\ x5 = {}
        /\ x6 = [of |-> x3, open |-> TRUE] /\ x7 = <<>> /\ x8 = N!Idle
        /\ x9 = (x3 \in x1)
        /\ x10 = [turn |-> IF x9 THEN "turn" ELSE "none", compaction |-> FALSE, local |-> FALSE]
        /\ x12 = FALSE
    BY DEF N!Init
  <1>2. N!Idle \in N!Commands /\ x8.pc = "idle"
    BY <1>1 DEF N!Idle, N!Commands
  <1>3. x9 \in BOOLEAN /\ x10 \in N!Statuses /\ x10.compaction = FALSE
    BY <1>1 DEF N!Statuses
  <1>4. N!TypeOK
    <2>1. <<>> \in Seq(N!Events) /\ {} \in SUBSET {"other", "own"}
      OBVIOUS
    <2>2. x2 \in [Peers -> SUBSET {"other", "own"}]
      BY <1>1, <2>1
    <2> QED
      BY <1>1, <1>2, <1>3, <2>1, <2>2 DEF N!TypeOK
  <1>5. N!PlaceIsKnown /\ N!StreamIsOfView
    BY <1>1, <1>2 DEF N!PlaceIsKnown, N!StreamIsOfView, N!SubagentTargets, N!Leaving
  <1>6. N!StatusFits
    BY <1>1, <1>2 DEF N!StatusFits
  <1>7. N!TurnsAreTold
    <2> DEFINE now == (x3 \in x1)
    <2>1. now \in BOOLEAN
      OBVIOUS
    <2>2. x9 = now /\ N!Known = x9 /\ x6.of = x3 /\ x7 = <<>>
      BY <1>1, <1>2 DEF N!Known
    <2> HIDE DEF now
    <2>3. N!Told(<<>>, "turn", now, now)
      BY <2>1, NothingTold
    <2>4. N!Told(x7, "turn", N!Known, now)
      BY <2>2, <2>3
    <2> QED
      BY <2>2, <2>4 DEF now, N!TurnsAreTold
  <1>8. N!CompactionsAreTold
    <2>1. N!Told(<<>>, "compaction", FALSE, FALSE)
      BY NothingTold
    <2>2. x2[x3] = {} /\ x6.of = x3 /\ \A s \in Peers : x2[s] = {}
      BY <1>1
    <2>3. N!Told(x7, "compaction", x10.compaction, x2[x6.of] # {})
      BY <1>1, <1>3, <2>1, <2>2
    <2> QED
      BY <1>2, <2>2, <2>3 DEF N!CompactionsAreTold
  <1> QED
    BY <1>4, <1>5, <1>6, <1>7, <1>8 DEF N!NavigationInv

LEMMA NavNext == ASSUME N!NavigationInv, N!Next PROVE N!NavigationInv'
  <1>1. CASE \E s \in Peers : N!BeginTurn(s) \/ N!EndTurn(s)
    BY <1>1, NavTurns
  <1>2. CASE \E s \in Peers : \E child \in Peers : N!Progress(s, child)
    BY <1>2, NavProgress
  <1>3. CASE \E s \in Peers : \E who \in {"other", "own"} :
                N!CompactionBegins(s, who) \/ N!CompactionEnds(s, who)
    BY <1>3, NavCompactions
  <1>4. CASE \E s \in Peers : \E kind \in {"session", "sub"} : N!Leave(kind, s)
    BY <1>4, NavLeave
  <1>5. CASE N!Tick \/ N!Deliver
    BY <1>5, NavTick, NavDeliver
  <1>6. CASE N!Hydrate \/ N!Apply \/ N!OpenStream \/ N!Finish
    BY <1>6, NavHydrate, NavApply, NavOpenStream, NavFinish
  <1>7. CASE N!BeginOwnTurn \/ N!EndOwnTurn \/ N!BeginCompact \/ N!EndCompact
    BY <1>7, NavOwnTurn, NavOwnCompaction
  <1>8. CASE N!Quit
    BY <1>8, NavQuit
  <1> QED
    BY <1>1, <1>2, <1>3, <1>4, <1>5, <1>6, <1>7, <1>8 DEF N!Next

\* The status row, once all events are handled.
LEMMA NavShows == ASSUME N!NavigationInv PROVE N!CanComeBack /\ N!StatusIsTrue
  <1>1. /\ N!PlaceIsKnown /\ N!StreamIsOfView /\ N!StatusFits /\ N!TurnsAreTold
        /\ x3 \in Peers /\ x9 \in BOOLEAN /\ x10 \in N!Statuses
        /\ x10.compaction \in BOOLEAN /\ NoValue \notin Peers
    BY NavFacts
  <1>2. N!CanComeBack
    BY <1>1 DEF N!CanComeBack, N!PlaceIsKnown, N!StreamIsOfView, N!SubagentTargets
  <1>3. ASSUME N!Quiet
        PROVE  /\ x9 = (x3 \in x1)
               /\ ~x12 => (N!Shown(x10) = "compacting") = (x2[x3] # {})
               /\ N!Shown(x10) = "turn" => x3 \in x1
    <2>1. x8.pc = "idle" /\ x7 = <<>> /\ x6.of = x3 /\ x6.of # NoValue /\ N!Known = x9
      BY <1>1, <1>3 DEF N!Quiet, N!StreamIsOfView, N!Known
    <2>2. x9 <=> x3 \in x1
      <3>1. N!Told(x7, "turn", x9, x3 \in x1)
        BY <1>1, <2>1 DEF N!TurnsAreTold
      <3> QED
        BY <2>1, <3>1 DEF N!Told
    <2>3. ~x12 => (x10.compaction <=> x2[x3] # {})
      <3>1. ~x12 => N!Told(x7, "compaction", x10.compaction, x2[x3] # {})
        BY <2>1, CompactionsKnown
      <3> QED
        BY <2>1, <3>1 DEF N!Told
    <2>4. /\ x10.turn \in {"none", "turn"} /\ (x10.turn = "turn" => x9)
      BY <1>1, <2>1 DEF N!StatusFits, N!Statuses
    <2>5. N!Shown(x10) = "compacting" <=> x10.compaction
      BY <1>1, <2>4 DEF N!Shown
    <2>6. N!Shown(x10) = "turn" => x9
      BY <1>1, <2>4 DEF N!Shown
    <2>7. x9 = (x3 \in x1)
      BY <1>1, <2>2
    <2> QED
      BY <2>2, <2>3, <2>5, <2>6, <2>7
  <1>4. N!StatusIsTrue
    BY <1>3 DEF N!StatusIsTrue
  <1> QED
    BY <1>2, <1>4

(* Whatever other clients, sub-agents and this client's own commands do    *)
(* between two steps of a switch, the way back from a sub-agent is always  *)
(* there, events are those of the session shown, and once they are handled *)
(* the status row says what that session does (app.ts: switchSession,      *)
(* applyTurnStatus, setCoordinatedStatus).                                 *)
THEOREM NavigationStaysTrue == Spec => []NavigationIsTrue
  <1> DEFINE Inv == part = "navigation" => N!NavigationInv
  <1>1. Init => Inv
    BY NavInit DEF Init, InitDiff, InitPatch, InitOutput, InitPanel, InitPrint,
       InitNavigation, InitShare, InitActivity, InitJoin, InitTranscript, InitReplay
  <1>2. Inv /\ [Next]_vars => Inv'
    <2> SUFFICES ASSUME Inv, [Next]_vars, part' = "navigation" PROVE N!NavigationInv'
      OBVIOUS
    <2>1. part = "navigation"
      BY DEF Next, vars, OfDiff, OfPatch, OfOutput, OfPanel, OfPrint, OfNavigation, OfShare,
         OfActivity, OfJoin, OfTranscript, OfReplay
    <2>2. CASE UNCHANGED vars
      BY <2>1, <2>2 DEF vars, N!NavigationInv, N!TypeOK, N!PlaceIsKnown, N!StreamIsOfView,
         N!TurnsAreTold, N!CompactionsAreTold, N!StatusFits, N!Known, N!Leaving,
         N!SubagentTargets
    <2>3. CASE Next
      <3>1. N!Next
        BY <2>1, <2>3 DEF Next, OfDiff, OfPatch, OfOutput, OfPanel, OfPrint, OfNavigation,
           OfShare, OfActivity, OfJoin, OfTranscript, OfReplay
      <3> QED
        BY <2>1, <3>1, NavNext
    <2> QED
      BY <2>2, <2>3
  <1>3. Inv => NavigationIsTrue
    BY NavShows DEF NavigationIsTrue
  <1> QED
    BY <1>1, <1>2, <1>3, PTL DEF Spec
=============================================================================
