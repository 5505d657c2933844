------------------------- MODULE MCClientParts_proofs --------------------------
(***************************************************************************)
(* Proofs about the smaller parts of the terminal client.                  *)
(***************************************************************************)
EXTENDS MCClientParts, TLAPS, NaturalsInduction, WellFoundedInduction, FiniteSetTheorems,
        FunctionTheorems

-----------------------------------------------------------------------------
(* The suggestions of sessions.                                            *)

\* What a sequence holds is of its type.
LEMMA ElementIsTyped ==
  ASSUME NEW Elements, NEW s \in Seq(Elements), NEW n \in DOMAIN s PROVE s[n] \in Elements
  OBVIOUS

LEMMA PickerInit == ASSUME S!Init PROVE S!PickerInv
  <1>0. <<>> \in Seq([begun : Nat, state : {"running", "ok", "failed"}])
    OBVIOUS
  <1>1. S!TypeOK
    BY <1>0 DEF S!Init, S!TypeOK, S!Free
  <1> QED
    BY <1>1 DEF S!Init, S!PickerInv, S!JoinedInTime, S!LoadIsAwaited,
         S!ListIsOfGeneration, S!Free

LEMMA PickerAsk == ASSUME S!PickerInv, NEW r \in Requests, S!Ask(r) PROVE S!PickerInv'
  <1> USE DEF S!PickerInv
  <1>0. x1 \in Nat /\ x6 \in Seq([begun : Nat, state : {"running", "ok", "failed"}])
        /\ x7 \in [Requests -> [generation : Nat, load : Nat]]
    BY DEF S!TypeOK
  <1>1. CASE x4 # 0
    <2>1. /\ UNCHANGED <<x1, x2, x3, x4, x5, x6>>
          /\ x7' = [x7 EXCEPT ![r] = [generation |-> x1, load |-> x4]]
      BY <1>1 DEF S!Ask
    <2>2. S!TypeOK'
      BY <2>1 DEF S!TypeOK
    <2>3. S!JoinedInTime'
      BY <1>0, <1>1, <2>1 DEF S!JoinedInTime
    <2>4. S!LoadIsAwaited'
      BY <1>0, <2>1 DEF S!LoadIsAwaited
    <2> QED
      BY <2>1, <2>2, <2>3, <2>4 DEF S!ListIsOfGeneration
  <1>2. CASE x4 = 0
    <2> DEFINE new == [begun |-> x1, state |-> "running"]
    <2>1. /\ UNCHANGED <<x1, x2, x3, x5>> /\ ~x3
          /\ x4' = Len(x6) + 1 /\ x6' = Append(x6, new)
          /\ x7' = [x7 EXCEPT ![r] = [generation |-> x1, load |-> Len(x6) + 1]]
      BY <1>2 DEF S!Ask
    <2>2. new \in [begun : Nat, state : {"running", "ok", "failed"}] /\ new.begun = x1
      BY <1>0
    <2> HIDE DEF new
    <2>3. /\ x6' \in Seq([begun : Nat, state : {"running", "ok", "failed"}])
          /\ x4' \in Nat /\ x4' \in DOMAIN x6' /\ x6'[x4'] = new
          /\ \A n \in DOMAIN x6 : n \in DOMAIN x6' /\ x6'[n] = x6[n]
      BY <1>0, <2>1, <2>2
    <2>4. /\ x7' \in [Requests -> [generation : Nat, load : Nat]]
          /\ x7'[r] = [generation |-> x1, load |-> x4']
          /\ \A s \in Requests : s # r => x7'[s] = x7[s]
      BY <1>0, <2>1, <2>3
    <2>5. S!TypeOK'
      BY <2>1, <2>3, <2>4 DEF S!TypeOK
    <2>6. S!JoinedInTime'
      BY <1>0, <2>1, <2>2, <2>3, <2>4 DEF S!JoinedInTime
    <2>7. S!LoadIsAwaited'
      BY <2>1, <2>4 DEF S!LoadIsAwaited
    <2> QED
      BY <2>1, <2>5, <2>6, <2>7 DEF S!ListIsOfGeneration
  <1> QED
    BY <1>1, <1>2

LEMMA PickerNext == ASSUME S!PickerInv, S!Next PROVE S!PickerInv'
  <1> USE DEF S!PickerInv
  <1>0. x1 \in Nat /\ x6 \in Seq([begun : Nat, state : {"running", "ok", "failed"}])
        /\ x7 \in [Requests -> [generation : Nat, load : Nat]]
    BY DEF S!TypeOK
  <1>1. CASE S!SetSuggestions \/ \E on \in BOOLEAN : S!SetLoader(on)
    <2>0. x4' = 0 /\ x1' = x1 + 1 /\ x5' \in {0, x5} /\ UNCHANGED <<x6, x7>>
      BY <1>1 DEF S!SetSuggestions, S!SetLoader
    <2>a. x2 \in BOOLEAN
      BY DEF S!TypeOK
    <2>b. ASSUME NEW on \in BOOLEAN, S!SetLoader(on)
          PROVE  x3' \in BOOLEAN /\ x2' \in BOOLEAN /\ ~(x3' /\ x2')
      BY <2>b DEF S!SetLoader
    <2>1. x3' \in BOOLEAN /\ x2' \in BOOLEAN /\ ~(x3' /\ x2')
      <3>1. CASE S!SetSuggestions
        BY <2>a, <3>1 DEF S!SetSuggestions
      <3> QED
        BY <1>1, <2>b, <3>1
    <2>2. S!TypeOK'
      BY <1>0, <2>0, <2>1 DEF S!TypeOK
    <2> QED
      BY <2>0, <2>1, <2>2 DEF S!JoinedInTime, S!LoadIsAwaited, S!ListIsOfGeneration
  <1>2. CASE \E r \in Requests : S!Ask(r)
    BY <1>2, PickerAsk
  <1>3. ASSUME NEW r \in Requests, S!Loaded(r) \/ S!Failed(r) PROVE S!PickerInv'
    <2>1. /\ UNCHANGED <<x1, x2, x6>>
          /\ x7' = [x7 EXCEPT ![r] = S!Free] /\ x7[r] # S!Free
          /\ \/ UNCHANGED <<x3, x5, x4>>
             \/ x7[r].generation = x1 /\ x5' = x7[r].load /\ x3' = TRUE /\ x4' = x4
             \/ x4' = 0 /\ UNCHANGED <<x3, x5>>
          /\ \/ x6[x7[r].load].state = "ok"
             \/ x7[r].generation # x1
             \/ x4' = 0
      BY <1>3 DEF S!Loaded, S!Failed, S!SameGeneration
    <2>2. S!Free \in [generation : Nat, load : Nat]
      BY DEF S!Free
    <2>3. /\ x7' \in [Requests -> [generation : Nat, load : Nat]]
          /\ x7'[r] = S!Free
          /\ \A s \in Requests : s # r => x7'[s] = x7[s]
      BY <1>0, <2>1, <2>2
    <2>4. x7[r].load \in DOMAIN x6 /\ x6[x7[r].load].begun = x7[r].generation
          /\ x7[r].load \in Nat
      BY <1>0, <2>1 DEF S!JoinedInTime
    <2>5. S!TypeOK'
      <3>1. x4' \in Nat /\ x5' \in Nat
        BY <2>1, <2>4 DEF S!TypeOK
      <3>2. x3' \in BOOLEAN
        BY <2>1 DEF S!TypeOK
      <3> QED
        BY <2>1, <2>3, <3>1, <3>2 DEF S!TypeOK
    <2>6. S!JoinedInTime'
      BY <2>1, <2>3 DEF S!JoinedInTime
    <2>7. S!LoadIsAwaited'
      <3> SUFFICES ASSUME x4' # 0, x6'[x4'].state # "ok"
                   PROVE  \E s \in Requests : x7'[s] = [generation |-> x1', load |-> x4']
        BY DEF S!LoadIsAwaited
      <3>1. x4' = x4 /\ x1' = x1 /\ x6' = x6
        BY <2>1
      <3>2. PICK s \in Requests : x7[s] = [generation |-> x1, load |-> x4]
        BY <3>1 DEF S!LoadIsAwaited
      <3>3. x7[s].generation = x1 /\ x7[s].load = x4
        BY <3>2
      <3>4. s # r
        BY <2>1, <3>1, <3>3
      <3> QED
        BY <2>3, <3>1, <3>2, <3>4
    <2>8. S!ListIsOfGeneration'
      BY <2>1, <2>4 DEF S!ListIsOfGeneration
    <2> QED
      BY <2>5, <2>6, <2>7, <2>8
  <1>4. ASSUME NEW n \in 1..MaxLoads, NEW state \in {"ok", "failed"}, S!Settle(n, state)
        PROVE  S!PickerInv'
    <2>1. /\ UNCHANGED <<x1, x2, x3, x4, x5, x7>>
          /\ n \in DOMAIN x6 /\ x6[n].state = "running"
          /\ x6' = [x6 EXCEPT ![n].state = state]
      BY <1>4 DEF S!Settle
    <2>2. /\ x6' \in Seq([begun : Nat, state : {"running", "ok", "failed"}])
          /\ DOMAIN x6' = DOMAIN x6
          /\ \A m \in DOMAIN x6 : x6'[m].begun = x6[m].begun
          /\ \A m \in DOMAIN x6 : x6'[m].state # "ok" => x6[m].state # "ok"
      <3> DEFINE entry == [begun |-> x6[n].begun, state |-> state]
      <3>0. n \in DOMAIN x6
        BY <2>1
      <3>1. x6[n] \in [begun : Nat, state : {"running", "ok", "failed"}]
        BY <1>0, <3>0, ElementIsTyped
      <3>2. /\ [x6[n] EXCEPT !.state = state] = entry /\ entry.begun = x6[n].begun
            /\ entry \in [begun : Nat, state : {"running", "ok", "failed"}]
        BY <3>1
      <3> HIDE DEF entry
      <3>3. x6' = [x6 EXCEPT ![n] = entry]
        BY <2>1, <3>2
      <3>4. /\ x6' \in Seq([begun : Nat, state : {"running", "ok", "failed"}])
            /\ DOMAIN x6' = DOMAIN x6
            /\ \A m \in DOMAIN x6 : x6'[m] = IF m = n THEN entry ELSE x6[m]
        BY <1>0, <3>0, <3>2, <3>3
      <3> QED
        BY <2>1, <3>2, <3>4
    <2>3. S!TypeOK'
      BY <2>1, <2>2 DEF S!TypeOK
    <2>4. S!JoinedInTime'
      BY <1>0, <2>1, <2>2 DEF S!JoinedInTime
    <2>5. S!LoadIsAwaited'
      BY <2>1, <2>2 DEF S!LoadIsAwaited, S!JoinedInTime
    <2> QED
      BY <2>1, <2>2, <2>3, <2>4, <2>5 DEF S!ListIsOfGeneration
  <1> QED
    BY <1>1, <1>2, <1>3, <1>4 DEF S!Next

(* Whoever asks for sessions gets those of the current generation, for any *)
(* number of requests (autocomplete.ts, loadSessionSuggestions).           *)
THEOREM SuggestionsStayCurrent == Spec => []SuggestionsAreCurrent
  <1> DEFINE Inv == part = "picker" => S!PickerInv
  <1>1. Init => Inv
    BY PickerInit DEF Init, InitPrompt, InitPicker, InitCredentials, InitInstallation,
       InitModels, InitTerminal
  <1>2. Inv /\ [Next]_vars => Inv'
    <2> SUFFICES ASSUME Inv, [Next]_vars, part' = "picker" PROVE S!PickerInv'
      OBVIOUS
    <2>1. CASE UNCHANGED vars
      BY <2>1 DEF vars, S!PickerInv, S!TypeOK, S!JoinedInTime, S!LoadIsAwaited,
         S!ListIsOfGeneration
    <2>2. CASE Next
      <3>1. part = "picker" /\ S!Next
        BY <2>2 DEF Next, OfPrompt, OfPicker, OfCredentials, OfInstallation, OfModels,
           OfTerminal
      <3> QED
        BY <3>1, PickerNext
    <2> QED
      BY <2>1, <2>2
  <1>3. Inv => SuggestionsAreCurrent
    BY DEF SuggestionsAreCurrent, S!SuggestionsAreCurrent, S!PickerInv, S!TypeOK,
       S!JoinedInTime, S!LoadIsAwaited, S!ListIsOfGeneration
  <1> QED
    BY <1>1, <1>2, <1>3, PTL DEF Spec

-----------------------------------------------------------------------------
(* The installation of the server.                                         *)

LEMMA InstallInit == ASSUME I!Init PROVE I!InstallInv
  <1>0. /\ x3 \in Nat /\ x4 \in [exe : Nat, asset : Nat, whole : BOOLEAN]
        /\ x6 \in [Clients -> [pc : I!Steps, want : Nat]]
    <2>1. /\ [pc |-> "idle", want |-> 0] \in [pc : I!Steps, want : Nat]
          /\ x6 = [c \in Clients |-> [pc |-> "idle", want |-> 0]]
      BY DEF I!Init, I!Idle, I!None, I!Steps
    <2>2. x3 \in {0, 1}
      BY DEF I!Init, I!None
    <2>3. x4 \in {I!NoDir, [I!NoDir EXCEPT !.exe = 1], [I!NoDir EXCEPT !.asset = 1]}
      BY DEF I!Init
    <2>4. I!NoDir \in [exe : Nat, asset : Nat, whole : BOOLEAN]
      BY DEF I!NoDir, I!None
    <2>5. ASSUME NEW d \in [exe : Nat, asset : Nat, whole : BOOLEAN]
          PROVE  /\ [d EXCEPT !.exe = 1] \in [exe : Nat, asset : Nat, whole : BOOLEAN]
                 /\ [d EXCEPT !.asset = 1] \in [exe : Nat, asset : Nat, whole : BOOLEAN]
      OBVIOUS
    <2>6. x4 \in [exe : Nat, asset : Nat, whole : BOOLEAN]
      BY <2>3, <2>4, <2>5
    <2> QED
      BY <2>1, <2>2, <2>6
  <1>1. I!TypeOK
    BY <1>0 DEF I!Init, I!TypeOK
  <1> QED
    BY <1>1 DEF I!Init, I!InstallInv, I!ReadyToGo, I!HalfIsOfServer, I!Idle, I!NoDir,
       I!StartsWholeRuntime, I!OldServerStays, I!Used, I!None, I!Kinds

\* A step that leaves the files alone and takes a client to a place where it
\* needs no more than it has.
LEMMA InstallQuiet ==
  ASSUME I!InstallInv, NEW c \in Clients, NEW pc \in I!Steps, NEW want \in Nat,
         x6' = [x6 EXCEPT ![c] = [pc |-> pc, want |-> want]],
         UNCHANGED <<x1, x3, x4, x5>>, x2' \in {x2, "whole"}, x8' \subseteq {"whole"},
         x9' = x9 \/ x9' = (x9 \/ I!Replacing(c)),
         x9' \/ ~I!Replacing(c) \/ pc \in {"removing", "removed"},
         pc = "installed" => x2' = "whole",
         pc \in {"archive", "binary", "unpacked", "loaded", "removing", "removed"} =>
           want # I!None,
         pc = "removed" => x3 = I!None, pc # "updated"
  PROVE  I!InstallInv' /\ I!Updates
  <1> USE DEF I!InstallInv
  <1>1. /\ x6' \in [Clients -> [pc : I!Steps, want : Nat]]
        /\ x6'[c] = [pc |-> pc, want |-> want]
        /\ \A d \in Clients : d # c => x6'[d] = x6[d]
    BY DEF I!TypeOK
  <1>2. I!TypeOK'
    BY <1>1 DEF I!TypeOK
  <1>3. I!ReadyToGo'
    BY <1>1 DEF I!ReadyToGo, I!None
  <1>4. I!HalfIsOfServer' /\ I!StartsWholeRuntime'
    BY DEF I!HalfIsOfServer, I!StartsWholeRuntime
  <1>5. I!OldServerStays'
    BY <1>1 DEF I!OldServerStays, I!Replacing, I!Used
  <1>6. I!Updates
    BY <1>1 DEF I!Updates
  <1> QED
    BY <1>2, <1>3, <1>4, <1>5, <1>6

LEMMA InstallNext == ASSUME I!InstallInv, I!Next PROVE I!InstallInv' /\ I!Updates
  <1> USE DEF I!InstallInv
  <1>0. /\ x6 \in [Clients -> [pc : I!Steps, want : Nat]] /\ x3 \in Nat
        /\ x4 \in [exe : Nat, asset : Nat, whole : BOOLEAN] /\ x5.version \in Nat \ {0}
    BY DEF I!TypeOK
  <1>go. ASSUME NEW c \in Clients, NEW pc \in I!Steps, I!Go(c, pc)
         PROVE  x6' = [x6 EXCEPT ![c] = [pc |-> pc, want |-> x6[c].want]] /\ x6[c].want \in Nat
    <2>1. x6[c] \in [pc : I!Steps, want : Nat]
      BY <1>0
    <2>2. [x6[c] EXCEPT !.pc = pc] = [pc |-> pc, want |-> x6[c].want] /\ x6[c].want \in Nat
      BY <2>1
    <2> QED
      BY <1>0, <1>go, <2>2 DEF I!Go
  <1>stop. ASSUME NEW c \in Clients, I!Stop(c)
           PROVE  x6' = [x6 EXCEPT ![c] = [pc |-> "idle", want |-> 0]]
    BY <1>stop DEF I!Stop, I!Idle, I!None
  <1>moves. ASSUME NEW c \in Clients, NEW pc \in I!Steps, NEW want \in Nat,
                   x6' = [x6 EXCEPT ![c] = [pc |-> pc, want |-> want]]
            PROVE  /\ x6' \in [Clients -> [pc : I!Steps, want : Nat]]
                   /\ x6'[c].pc = pc /\ x6'[c].want = want
                   /\ \A d \in Clients : d # c => x6'[d] = x6[d]
    BY <1>0, <1>moves
  <1>s. /\ I!Steps = {"idle", "fetch", "extracted", "installed", "archive", "binary",
                     "unpacked", "loaded", "removing", "removed", "updated"}
        /\ 0 \in Nat /\ I!None = 0 /\ x8 \subseteq {"whole"} /\ x2 \in {"none", "whole"}
    BY DEF I!Steps, I!None, I!StartsWholeRuntime, I!TypeOK
  <1>1. CASE \E archive \in BOOLEAN : I!Release(archive)
    <2>1. /\ UNCHANGED <<x1, x2, x3, x4, x6, x8, x9>>
          /\ x5' \in [version : Nat \ {0}, archive : BOOLEAN]
      BY <1>0, <1>1 DEF I!Release, I!files
    <2> QED
      BY <2>1 DEF I!TypeOK, I!ReadyToGo, I!HalfIsOfServer, I!StartsWholeRuntime,
         I!OldServerStays, I!Used, I!Replacing, I!Updates
  <1>2. ASSUME NEW c \in Clients, I!Begin(c) \/ I!Extract(c) \/ I!Unpack(c) \/ I!Load(c)
        PROVE  I!InstallInv' /\ I!Updates
    <2>1. /\ UNCHANGED <<x1, x2, x3, x4, x5, x8, x9>> /\ ~I!Replacing(c)
          /\ \/ I!Go(c, "installed") /\ x2 = "whole"
             \/ I!Go(c, "fetch") \/ I!Go(c, "extracted")
             \/ I!Go(c, "unpacked") /\ x6[c].pc = "archive"
             \/ I!Go(c, "loaded") /\ x6[c].pc = "binary"
      BY <1>2, <1>s DEF I!Begin, I!Extract, I!Unpack, I!Load, I!At, I!Installed,
         I!Replacing, I!files
    <2>2. x6[c].pc \in {"archive", "binary"} => x6[c].want # I!None
      BY DEF I!ReadyToGo
    <2> QED
      BY <1>go, <1>s, <2>1, <2>2, InstallQuiet
  <1>3. ASSUME NEW c \in Clients, I!Start(c) PROVE I!InstallInv' /\ I!Updates
    <2>1. /\ UNCHANGED <<x1, x2, x3, x4, x5, x9>> /\ ~I!Replacing(c) /\ I!Stop(c)
          /\ x8' = x8 \union {x2} /\ x2 = "whole"
      BY <1>3 DEF I!Start, I!At, I!Replacing, I!files, I!ReadyToGo
    <2> QED
      BY <1>stop, <1>s, <2>1, InstallQuiet
  <1>4. ASSUME NEW c \in Clients, NEW b \in BOOLEAN, I!Place(c, b)
        PROVE  I!InstallInv' /\ I!Updates
    <2>1. /\ UNCHANGED <<x1, x3, x4, x5, x8, x9>> /\ ~I!Replacing(c)
          /\ x2' \in {x2, "whole"}
          /\ \/ I!Go(c, "installed") /\ x2' = "whole"
             \/ I!Stop(c)
      BY <1>4, <1>s DEF I!Place, I!At, I!Installed, I!Replacing
    <2> QED
      BY <1>go, <1>stop, <1>s, <2>1, InstallQuiet
  <1>5. ASSUME NEW c \in Clients, NEW b \in BOOLEAN, I!Check(c, b)
        PROVE  I!InstallInv' /\ I!Updates
    <2>1. /\ UNCHANGED <<x1, x2, x3, x4, x5, x8, x9>> /\ ~I!Replacing(c)
          /\ x6' = [x6 EXCEPT ![c] = I!Download]
      BY <1>5 DEF I!Check, I!At, I!Replacing, I!files
    <2>2. \E pc \in {"archive", "binary"} : I!Download = [pc |-> pc, want |-> x5.version]
      BY DEF I!Download
    <2> QED
      BY <1>0, <1>s, <2>1, <2>2, InstallQuiet
  <1>6. ASSUME NEW c \in Clients, I!Updated(c) \/ I!Fail(c) \/ I!Killed(c)
        PROVE  I!InstallInv' /\ I!Updates
    <2>1. /\ UNCHANGED <<x1, x2, x3, x4, x5, x8>> /\ I!Stop(c)
          /\ \/ x9' = x9 /\ ~I!Replacing(c)
             \/ x9' = (x9 \/ I!Replacing(c))
      BY <1>6 DEF I!Updated, I!Fail, I!Killed, I!At, I!Replacing, I!files
    <2>2. x9' \/ ~I!Replacing(c)
      BY <2>1
    <2>3. x9' = x9 \/ x9' = (x9 \/ I!Replacing(c))
      BY <2>1
    <2> QED
      BY <1>stop, <1>s, <2>1, <2>2, <2>3, InstallQuiet
  <1>7. ASSUME NEW c \in Clients, I!RemoveOld(c) PROVE I!InstallInv' /\ I!Updates
    <2>1. /\ UNCHANGED <<x1, x2, x3, x5, x8, x9>> /\ x6[c].pc = "unpacked"
          /\ I!Go(c, "removing")
          /\ x4' = IF x4.exe = 0 /\ x4.asset = 0 THEN x4 ELSE [x4 EXCEPT !.whole = FALSE]
      BY <1>7, <1>s DEF I!RemoveOld, I!At
    <2>2. /\ x4' \in [exe : Nat, asset : Nat, whole : BOOLEAN]
          /\ x4'.exe = x4.exe /\ x4'.asset = x4.asset
          /\ x4'.whole = x4.whole \/ x4.exe # 0 \/ x4.asset # 0
      BY <1>0, <2>1
    <2>3. x6[c].want # 0
      BY <1>s, <2>1 DEF I!ReadyToGo
    <2>4. /\ x6' \in [Clients -> [pc : I!Steps, want : Nat]]
          /\ x6'[c].pc = "removing" /\ x6'[c].want = x6[c].want
          /\ \A d \in Clients : d # c => x6'[d] = x6[d]
      BY <1>go, <1>moves, <1>s, <2>1
    <2>5. I!TypeOK'
      BY <2>1, <2>2, <2>4 DEF I!TypeOK
    <2>6. I!ReadyToGo'
      BY <1>s, <2>1, <2>3, <2>4 DEF I!ReadyToGo
    <2>7. I!HalfIsOfServer'
      BY <1>s, <2>2 DEF I!HalfIsOfServer
    <2>8. I!OldServerStays'
      BY <2>4 DEF I!OldServerStays, I!Replacing
    <2> QED
      BY <2>1, <2>4, <2>5, <2>6, <2>7, <2>8 DEF I!StartsWholeRuntime, I!Updates
  <1>8. ASSUME NEW c \in Clients, I!OldRemoved(c) PROVE I!InstallInv' /\ I!Updates
    <2>1. /\ UNCHANGED <<x1, x2, x5, x8, x9>> /\ x6[c].pc = "removing"
          /\ I!Go(c, "removed") /\ x3' = 0
          /\ x4' = [exe |-> 0, asset |-> 0, whole |-> TRUE]
      BY <1>8, <1>s DEF I!OldRemoved, I!RemoveLoose, I!NoDir, I!At
    <2>2. /\ x4' \in [exe : Nat, asset : Nat, whole : BOOLEAN] /\ x4'.whole
      BY <2>1
    <2>3. x6[c].want # 0
      BY <1>s, <2>1 DEF I!ReadyToGo
    <2>4. /\ x6' \in [Clients -> [pc : I!Steps, want : Nat]]
          /\ x6'[c].pc = "removed" /\ x6'[c].want = x6[c].want
          /\ \A d \in Clients : d # c => x6'[d] = x6[d]
      BY <1>go, <1>moves, <1>s, <2>1
    <2>5. I!TypeOK'
      BY <2>1, <2>2, <2>4 DEF I!TypeOK
    <2>6. I!ReadyToGo'
      BY <1>s, <2>1, <2>3, <2>4 DEF I!ReadyToGo
    <2>7. I!HalfIsOfServer'
      BY <2>2 DEF I!HalfIsOfServer
    <2>8. I!OldServerStays'
      BY <2>4 DEF I!OldServerStays, I!Replacing
    <2> QED
      BY <2>1, <2>4, <2>5, <2>6, <2>7, <2>8 DEF I!StartsWholeRuntime, I!Updates
  <1>9. ASSUME NEW c \in Clients, I!PutNew(c) PROVE I!InstallInv' /\ I!Updates
    <2>1. /\ UNCHANGED <<x1, x2, x3, x5, x8, x9>> /\ x6[c].pc = "removed"
          /\ \/ /\ x4 = I!NoDir /\ I!Go(c, "updated")
                /\ x4' = [I!NoDir EXCEPT !.exe = x6[c].want]
             \/ x4 # I!NoDir /\ x4' = x4 /\ I!Stop(c)
      BY <1>9 DEF I!PutNew, I!At
    <2>2. x6[c].want \in Nat \ {0} /\ x3 = 0
      BY <1>0, <1>s, <2>1 DEF I!ReadyToGo
    <2>3. \E pc \in {"updated", "idle"}, want \in Nat :
            /\ x6' = [x6 EXCEPT ![c] = [pc |-> pc, want |-> want]]
            /\ pc = "updated" => x4' = [exe |-> x6[c].want, asset |-> 0, whole |-> TRUE]
                                 /\ want = x6[c].want
            /\ pc = "idle" => x4' = x4 /\ x4 # I!NoDir
      BY <1>go, <1>stop, <1>s, <2>1 DEF I!NoDir
    <2>4. PICK pc \in {"updated", "idle"}, want \in Nat :
            /\ x6' = [x6 EXCEPT ![c] = [pc |-> pc, want |-> want]]
            /\ pc = "updated" => x4' = [exe |-> x6[c].want, asset |-> 0, whole |-> TRUE]
                                 /\ want = x6[c].want
            /\ pc = "idle" => x4' = x4 /\ x4 # I!NoDir
      BY <2>3
    <2>5. /\ x6' \in [Clients -> [pc : I!Steps, want : Nat]]
          /\ x6'[c].pc = pc /\ x6'[c].want = want
          /\ \A d \in Clients : d # c => x6'[d] = x6[d]
      BY <1>moves, <1>s, <2>4
    <2>6. /\ x4' \in [exe : Nat, asset : Nat, whole : BOOLEAN]
          /\ x4'.exe # 0 \/ x4'.asset # 0
          /\ pc = "updated" => x4'.asset = 0 /\ x4'.exe = want
      <3>1. CASE pc = "updated"
        <4>1. x4' = [exe |-> x6[c].want, asset |-> 0, whole |-> TRUE] /\ want = x6[c].want
          BY <2>4, <3>1
        <4>2. x4'.exe = x6[c].want /\ x4'.asset = 0
              /\ x4' \in [exe : Nat, asset : Nat, whole : BOOLEAN]
          BY <2>2, <4>1
        <4> QED
          BY <2>2, <4>1, <4>2
      <3>2. CASE pc = "idle"
        <4>1. x4.exe # 0 \/ x4.asset # 0 \/ x4.whole
          BY <1>s DEF I!HalfIsOfServer
        <4>2. x4 # [exe |-> 0, asset |-> 0, whole |-> TRUE]
          BY <1>s, <2>4, <3>2 DEF I!NoDir
        <4>3. x4.whole = TRUE => x4.exe # 0 \/ x4.asset # 0
          BY <1>0, <4>2
        <4> QED
          BY <1>0, <2>4, <3>2, <4>1, <4>3
      <3> QED
        BY <3>1, <3>2
    <2>7. I!TypeOK'
      BY <2>1, <2>5, <2>6 DEF I!TypeOK
    <2>8. I!ReadyToGo'
      BY <1>s, <2>1, <2>4, <2>5 DEF I!ReadyToGo
    <2>9. I!HalfIsOfServer' /\ I!OldServerStays'
      BY <1>s, <2>1, <2>2, <2>6 DEF I!HalfIsOfServer, I!OldServerStays, I!Used
    <2>10. I!Updates
      BY <1>s, <2>1, <2>2, <2>4, <2>5, <2>6 DEF I!Updates, I!Used
    <2> QED
      BY <2>1, <2>7, <2>8, <2>9, <2>10 DEF I!StartsWholeRuntime
  <1>10. ASSUME NEW c \in Clients, I!Replace(c) PROVE I!InstallInv' /\ I!Updates
    <2>1. /\ UNCHANGED <<x1, x2, x5, x8, x9>> /\ x6[c].pc = "loaded"
          /\ I!Go(c, "updated") /\ x3' = 0
          /\ x4' = [x4 EXCEPT !.asset = x6[c].want]
      BY <1>10, <1>s DEF I!Replace, I!RemoveLoose, I!At
    <2>2. x6[c].want \in Nat \ {0}
      BY <1>0, <1>s, <2>1 DEF I!ReadyToGo
    <2>3. /\ x4' \in [exe : Nat, asset : Nat, whole : BOOLEAN] /\ x4'.asset = x6[c].want
      BY <1>0, <2>1, <2>2
    <2>4. /\ x6' \in [Clients -> [pc : I!Steps, want : Nat]]
          /\ x6'[c].pc = "updated" /\ x6'[c].want = x6[c].want
          /\ \A d \in Clients : d # c => x6'[d] = x6[d]
      BY <1>go, <1>moves, <1>s, <2>1
    <2>5. I!TypeOK'
      BY <2>1, <2>3, <2>4 DEF I!TypeOK
    <2>6. I!ReadyToGo'
      BY <1>s, <2>1, <2>4 DEF I!ReadyToGo
    <2>7. I!HalfIsOfServer' /\ I!OldServerStays' /\ I!Updates
      BY <1>s, <2>1, <2>2, <2>3, <2>4 DEF I!HalfIsOfServer, I!OldServerStays, I!Used, I!Updates
    <2> QED
      BY <2>1, <2>5, <2>6, <2>7 DEF I!StartsWholeRuntime
  <1> QED
    BY <1>1, <1>2, <1>3, <1>4, <1>5, <1>6, <1>7, <1>8, <1>9, <1>10 DEF I!Next

(* For any number of clients: none starts half a runtime, an update that   *)
(* fails leaves the old server, and one that succeeds is what is used      *)
(* (server-runtime-install.ts, update.ts).                                 *)
THEOREM InstallsStayWhole == Spec => InstallsWhole
  <1> DEFINE Inv == part = "installation" => I!InstallInv
  <1>1. Init => Inv
    BY InstallInit DEF Init, InitPrompt, InitPicker, InitCredentials, InitInstallation,
       InitModels, InitTerminal
  <1>2. Inv /\ [Next]_vars => Inv' /\ (part = "installation" => I!Updates \/ UNCHANGED vars)
    <2> SUFFICES ASSUME Inv, [Next]_vars
                 PROVE  /\ part' = "installation" => I!InstallInv'
                        /\ part = "installation" => I!Updates \/ UNCHANGED vars
      OBVIOUS
    <2>1. CASE UNCHANGED vars
      BY <2>1 DEF vars, I!InstallInv, I!TypeOK, I!ReadyToGo, I!HalfIsOfServer,
         I!StartsWholeRuntime, I!OldServerStays, I!Used, I!Replacing
    <2>2. CASE Next
      <3>1. part' = part /\ (part = "installation" => I!Next)
        BY <2>2 DEF Next, OfPrompt, OfPicker, OfCredentials, OfInstallation, OfModels,
           OfTerminal
      <3> QED
        BY <3>1, InstallNext
    <2> QED
      BY <2>1, <2>2
  <1>3. Inv => (part = "installation" => I!StartsWholeRuntime /\ I!OldServerStays)
    BY DEF I!InstallInv
  <1>4. Inv /\ [Next]_vars => [part = "installation" => I!Updates]_vars
    BY <1>2
  <1> QED
    BY <1>1, <1>2, <1>3, <1>4, PTL DEF Spec, InstallsWhole

-----------------------------------------------------------------------------
(* The catalog of models.                                                  *)

LEMMA CatalogInit == ASSUME M!Assumptions, M!Init PROVE M!CatalogInv
  <1>1. M!Idle \in M!Loads /\ M!Idle.at = "none"
    BY DEF M!Idle, M!Loads, M!Versions, M!Absent
  <1>2. M!TypeOK
    <2>1. x2 \in [version : M!Versions, stale : BOOLEAN]
      BY DEF M!Init, M!Versions
    <2> QED
      BY <1>1, <2>1 DEF M!Init, M!TypeOK, M!Assumptions
  <1>3. M!PagesKeepTheirs
    BY <1>1 DEF M!Init, M!PagesKeepTheirs, M!Processes
  <1>4. M!AnswersAreOfTheCatalog
    BY DEF M!Init, M!AnswersAreOfTheCatalog
  <1> QED
    BY <1>2, <1>3, <1>4 DEF M!CatalogInv

\* A client goes on with its load.
LEMMA CatalogLoads ==
  ASSUME M!Assumptions, M!CatalogInv, NEW c \in Clients, NEW next \in M!Loads,
         x3[c].at # "loaded", x3' = [x3 EXCEPT ![c] = next],
         x2' \in [version : M!Versions, stale : BOOLEAN], UNCHANGED <<x1, x4, x7>>
  PROVE  M!CatalogInv'
  <1> USE DEF M!CatalogInv
  <1>1. /\ x3' \in [M!Processes -> M!Loads]
        /\ \A y \in M!Processes : y # c => x3'[y] = x3[y]
        /\ c \notin Pages /\ Pages \subseteq M!Processes
    BY DEF M!TypeOK, M!Processes, M!Assumptions
  <1>2. M!TypeOK'
    BY <1>1 DEF M!TypeOK
  <1>3. M!PagesKeepTheirs'
    BY <1>1 DEF M!PagesKeepTheirs
  <1>4. M!AnswersAreOfTheCatalog'
    <2> SUFFICES ASSUME NEW y \in M!Processes, NEW a \in x7[y]
                 PROVE  /\ y \in Clients => /\ x3'[y].at = "loaded"
                                            /\ a.choices = M!Choices(y, x3'[y].version, a.provider, a.served)
                        /\ y \in Pages /\ a.late =>
                             \E v \in DOMAIN Published : a.choices = M!Choices(y, v, a.provider, a.served)
      BY DEF M!AnswersAreOfTheCatalog
    <2>1. y \in Clients => y # c
      BY DEF M!AnswersAreOfTheCatalog
    <2> QED
      BY <1>1, <2>1 DEF M!AnswersAreOfTheCatalog
  <1> QED
    BY <1>2, <1>3, <1>4

\* A request is given its choices, by the catalog of the process or, of a page,
\* by one that was just fetched.
LEMMA CatalogGives ==
  ASSUME M!Assumptions, M!CatalogInv, NEW r \in Lists, NEW v, M!Given(r, v),
         x4[r] # M!Free, UNCHANGED <<x1, x2>>,
         x4[r].of \in Clients => v = x3[x4[r].of].version /\ x3[x4[r].of].at = "loaded",
         x4[r].late => v \in DOMAIN Published,
         \/ x3' = x3
         \/ /\ x4[r].of \in Pages
            /\ x3' = [x3 EXCEPT ![x4[r].of] = [at |-> "loaded", version |-> x1]]
  PROVE  M!CatalogInv'
  <1> USE DEF M!CatalogInv
  <1> DEFINE p == x4[r].of
             got == [provider |-> x4[r].provider, served |-> x4[r].served,
                     late |-> x4[r].late,
                     choices |-> M!Choices(p, v, x4[r].provider, x4[r].served)]
  <1>1. /\ x7' = [x7 EXCEPT ![p] = @ \union {got}]
        /\ x4' = [x4 EXCEPT ![r] = M!Free]
    BY DEF M!Given
  <1>2. /\ got.provider = x4[r].provider /\ got.served = x4[r].served
        /\ got.late = x4[r].late
        /\ got.choices = M!Choices(p, v, got.provider, got.served)
    OBVIOUS
  <1>3. p \in M!Processes
    BY DEF M!TypeOK, M!Asked
  <1> HIDE DEF got
  <1>4. /\ x7' = [y \in M!Processes |-> x7'[y]] /\ x7'[p] = x7[p] \union {got}
        /\ \A y \in M!Processes : y # p => x7'[y] = x7[y]
    BY <1>1, <1>3 DEF M!TypeOK
  <1>5. x4'[r] = M!Free /\ \A s \in Lists : s # r => x4'[s] = x4[s]
    BY <1>1 DEF M!TypeOK
  <1>6. [at |-> "loaded", version |-> x1] \in M!Loads
    BY DEF M!TypeOK, M!Loads, M!Versions
  <1>7. /\ x3' \in [M!Processes -> M!Loads]
        /\ \A y \in M!Processes : x3'[y] = x3[y]
              \/ (y \in Pages /\ x3'[y].at = "loaded" /\ x3'[y].version = x1)
    <2>1. CASE x3' = x3
      <3>1. x3 \in [M!Processes -> M!Loads]
        BY DEF M!TypeOK
      <3> QED
        BY <2>1, <3>1
    <2>2. CASE p \in Pages /\ x3' = [x3 EXCEPT ![p] = [at |-> "loaded", version |-> x1]]
      <3> DEFINE new == [at |-> "loaded", version |-> x1]
      <3>1. new.at = "loaded" /\ new.version = x1
        OBVIOUS
      <3> HIDE DEF new
      <3>2. /\ x3' \in [M!Processes -> M!Loads] /\ x3'[p] = new
            /\ \A y \in M!Processes : y # p => x3'[y] = x3[y]
        BY <1>3, <1>6, <2>2 DEF M!TypeOK, new
      <3>3. p \in Pages
        BY <2>2
      <3> HIDE DEF p
      <3> QED
        BY <3>1, <3>2, <3>3
    <2> QED
      BY <2>1, <2>2
  <1>8. M!TypeOK'
    <2>1. x4' \in [Lists -> {M!Free} \union M!Asked]
      BY <1>1 DEF M!TypeOK
    <2> QED
      BY <1>4, <1>7, <2>1 DEF M!TypeOK
  <1>9. M!PagesKeepTheirs'
    BY <1>5, <1>7 DEF M!PagesKeepTheirs, M!Processes, M!TypeOK
  <1>10. M!AnswersAreOfTheCatalog'
    <2> SUFFICES ASSUME NEW y \in M!Processes, NEW a \in x7'[y]
                 PROVE  /\ y \in Clients => /\ x3'[y].at = "loaded"
                                            /\ a.choices = M!Choices(y, x3'[y].version, a.provider, a.served)
                        /\ y \in Pages /\ a.late =>
                             \E w \in DOMAIN Published : a.choices = M!Choices(y, w, a.provider, a.served)
      BY DEF M!AnswersAreOfTheCatalog
    <2>1. y \in Clients => x3'[y] = x3[y]
      BY <1>7 DEF M!Assumptions
    <2>2. CASE a \in x7[y]
      BY <2>1, <2>2 DEF M!AnswersAreOfTheCatalog
    <2>3. CASE a \notin x7[y]
      <3>1. y = p /\ a = got
        BY <1>4, <2>3
      <3> QED
        BY <1>2, <2>1, <3>1
    <2> QED
      BY <2>2, <2>3
  <1> QED
    BY <1>8, <1>9, <1>10

LEMMA CatalogNext == ASSUME M!Assumptions, M!CatalogInv, M!Next PROVE M!CatalogInv'
  <1> USE DEF M!CatalogInv
  <1>0. /\ x3 \in [M!Processes -> M!Loads] /\ x2 \in [version : M!Versions, stale : BOOLEAN]
        /\ x1 \in DOMAIN Published /\ x4 \in [Lists -> {M!Free} \union M!Asked]
        /\ Clients \subseteq M!Processes /\ Pages \subseteq M!Processes
        /\ M!Versions = {0, 100} \union DOMAIN Published
    BY DEF M!TypeOK, M!Processes, M!Versions, M!Absent, M!Torn
  <1>at. ASSUME NEW c \in Clients,
                NEW at \in {"none", "stat", "read", "fetch", "write", "store", "loaded"},
                x3' = [x3 EXCEPT ![c].at = at]
         PROVE  \E next \in M!Loads : x3' = [x3 EXCEPT ![c] = next]
    <2>1. x3[c] \in M!Loads
      BY <1>0
    <2>2. [x3[c] EXCEPT !.at = at] \in M!Loads
      BY <2>1 DEF M!Loads
    <2> QED
      BY <1>0, <1>at, <2>2
  <1>ask. ASSUME NEW r \in Lists, NEW new \in M!Asked, x4' = [x4 EXCEPT ![r] = new],
                 UNCHANGED <<x1, x2, x7>>,
                 x3' = x3 \/ \E c \in Clients, next \in M!Loads :
                               x3[c].at # "loaded" /\ x3' = [x3 EXCEPT ![c] = next],
                 new.state = "fetching" => new.of \in Pages /\ ~new.late,
                 new.late => new.of \in Pages
          PROVE  M!CatalogInv'
    <2>1. x4' \in [Lists -> {M!Free} \union M!Asked] /\ x4'[r] = new
          /\ \A s \in Lists : s # r => x4'[s] = x4[s]
      BY <1>0, <1>ask
    <2>2. /\ x3' \in [M!Processes -> M!Loads]
          /\ \A y \in M!Processes : x3'[y] = x3[y] \/ (y \in Clients /\ x3[y].at # "loaded")
      BY <1>0, <1>ask
    <2>3. M!TypeOK'
      BY <1>ask, <2>1, <2>2 DEF M!TypeOK
    <2>4. M!PagesKeepTheirs'
      BY <1>0, <1>ask, <2>1, <2>2 DEF M!PagesKeepTheirs, M!Assumptions
    <2>5. M!AnswersAreOfTheCatalog'
      BY <1>0, <1>ask, <2>2 DEF M!AnswersAreOfTheCatalog
    <2> QED
      BY <2>3, <2>4, <2>5
  <1>1. ASSUME NEW r \in Lists, NEW p \in Vendors, NEW served \in Served, NEW c \in Clients,
               M!Ask(r, c, p, served)
        PROVE  M!CatalogInv'
    <2> DEFINE new == [state |-> "waiting", of |-> c, provider |-> p, served |-> served,
                       late |-> FALSE]
    <2>1. /\ x4' = [x4 EXCEPT ![r] = new] /\ UNCHANGED <<x1, x2, x7>> /\ M!LoadOnce(c)
      BY <1>1 DEF M!Ask
    <2>2. new \in M!Asked /\ new.state = "waiting" /\ new.late = FALSE
      BY <1>0 DEF M!Asked
    <2> HIDE DEF new
    <2>3. x3' = x3 \/ (x3[c].at = "none" /\ x3' = [x3 EXCEPT ![c].at = "stat"])
      BY <2>1 DEF M!LoadOnce
    <2>4. x3' = x3 \/ \E d \in Clients, next \in M!Loads :
                        x3[d].at # "loaded" /\ x3' = [x3 EXCEPT ![d] = next]
      BY <2>3, <1>at
    <2> QED
      BY <2>1, <2>2, <2>4, <1>ask
  <1>2. ASSUME NEW r \in Lists, NEW p \in Vendors, NEW served \in Served, NEW g \in Pages,
               M!PageAsk(r, g, p, served)
        PROVE  M!CatalogInv'
    <2> DEFINE late == x3[g].at = "loaded"
               new == [state |-> IF late THEN "waiting" ELSE "fetching", of |-> g,
                       provider |-> p, served |-> served, late |-> late]
    <2>1. /\ x4' = [x4 EXCEPT ![r] = new] /\ UNCHANGED <<x1, x2, x3, x7>>
      BY <1>2 DEF M!PageAsk
    <2>2. late \in BOOLEAN
      OBVIOUS
    <2> HIDE DEF late
    <2>3. /\ new \in M!Asked /\ new.of = g /\ new.late = late
          /\ new.state = "fetching" => ~late
      BY <1>0, <2>2 DEF M!Asked
    <2> HIDE DEF new
    <2> QED
      BY <2>1, <2>3, <1>ask
  <1>3. ASSUME NEW c \in Clients,
               M!Stat(c) \/ M!Read(c) \/ M!Fetched(c) \/ M!Truncate(c) \/ M!Store(c)
                 \/ M!LoadFails(c)
        PROVE  M!CatalogInv'
    <2>1. UNCHANGED <<x1, x4, x7>> /\ x3[c].at # "loaded"
      BY <1>3 DEF M!Stat, M!Read, M!Fetched, M!Truncate, M!Store, M!LoadFails
    <2>2. x2' \in [version : M!Versions, stale : BOOLEAN]
      <3>1. x3[c].version \in M!Versions
        BY <1>0 DEF M!Loads
      <3>2. ASSUME NEW v \in M!Versions
            PROVE  [version |-> v, stale |-> FALSE] \in [version : M!Versions, stale : BOOLEAN]
        OBVIOUS
      <3>3. \/ x2' = x2
            \/ \E v \in M!Versions : x2' = [version |-> v, stale |-> FALSE]
        BY <1>0, <1>3, <3>1 DEF M!Stat, M!Read, M!Fetched, M!Truncate, M!Store,
           M!LoadFails, M!Torn
      <3> QED
        BY <1>0, <3>2, <3>3
    <2>3. \E next \in M!Loads : x3' = [x3 EXCEPT ![c] = next]
      <3>1. \/ \E at \in {"fetch", "read", "store"} : x3' = [x3 EXCEPT ![c].at = at]
            \/ \E at \in {"loaded", "write"}, v \in {0, x1, x2.version, x3[c].version} :
                 x3' = [x3 EXCEPT ![c] = [at |-> at, version |-> v]]
        BY <1>3 DEF M!Stat, M!Read, M!Fetched, M!Truncate, M!Store, M!LoadFails, M!Loaded
      <3>2. {0, x1, x2.version, x3[c].version} \subseteq M!Versions
        BY <1>0 DEF M!Loads
      <3>3. ASSUME NEW at \in {"loaded", "write"}, NEW v \in M!Versions
            PROVE  [at |-> at, version |-> v] \in M!Loads
        BY DEF M!Loads
      <3> QED
        BY <1>at, <3>1, <3>2, <3>3
    <2> QED
      BY <2>1, <2>2, <2>3, CatalogLoads
  <1>4. ASSUME NEW c \in Clients, M!Killed(c) PROVE M!CatalogInv'
    <2>1. /\ UNCHANGED <<x1, x2>> /\ x3' = [x3 EXCEPT ![c] = M!Idle]
          /\ x4' = [r \in Lists |-> IF x4[r] # M!Free /\ x4[r].of = c THEN M!Free ELSE x4[r]]
          /\ x7' = [x7 EXCEPT ![c] = {}]
      BY <1>4 DEF M!Killed
    <2>2. M!Idle \in M!Loads
      BY DEF M!Idle, M!Loads, M!Versions, M!Absent
    <2>3. /\ x3' \in [M!Processes -> M!Loads] /\ c \notin Pages
          /\ \A y \in M!Processes : y # c => x3'[y] = x3[y]
      BY <1>0, <2>1, <2>2 DEF M!Assumptions
    <2>4. /\ x4' \in [Lists -> {M!Free} \union M!Asked]
          /\ \A r \in Lists : x4'[r] \in {M!Free, x4[r]}
      BY <1>0, <2>1
    <2>5. /\ x7' = [y \in M!Processes |-> x7'[y]] /\ x7'[c] = {}
          /\ \A y \in M!Processes : y # c => x7'[y] = x7[y]
      BY <1>0, <2>1 DEF M!TypeOK
    <2>6. M!TypeOK'
      BY <2>1, <2>3, <2>4, <2>5 DEF M!TypeOK
    <2>7. M!PagesKeepTheirs'
      BY <1>0, <2>3, <2>4 DEF M!PagesKeepTheirs
    <2>8. M!AnswersAreOfTheCatalog'
      BY <2>3, <2>5 DEF M!AnswersAreOfTheCatalog
    <2> QED
      BY <2>6, <2>7, <2>8
  <1>5. ASSUME NEW r \in Lists, M!PageFetched(r) \/ M!PageFails(r) \/ M!Answer(r)
        PROVE  M!CatalogInv'
    <2>1. x4[r] # M!Free
      BY <1>5 DEF M!PageFetched, M!PageFails, M!Answer, M!Free
    <2>2. /\ x4[r].state = "fetching" => x4[r].of \in Pages /\ ~x4[r].late
          /\ x4[r].late => x4[r].of \in Pages
          /\ Clients \intersect Pages = {}
      BY <2>1 DEF M!PagesKeepTheirs, M!Assumptions
    <2>3. CASE M!PageFetched(r)
      BY <1>0, <2>1, <2>2, <2>3, CatalogGives DEF M!PageFetched
    <2>4. CASE M!PageFails(r)
      BY <1>0, <2>1, <2>2, <2>4, CatalogGives DEF M!PageFails
    <2>5. CASE M!Answer(r)
      <3>1. /\ M!Given(r, x3[x4[r].of].version) /\ UNCHANGED <<x1, x2, x3>>
            /\ x3[x4[r].of].at = "loaded"
        BY <2>5 DEF M!Answer
      <3>2. x4[r].late => x3[x4[r].of].version \in DOMAIN Published
        BY <2>2, <3>1 DEF M!PagesKeepTheirs
      <3> QED
        BY <2>1, <3>1, <3>2, CatalogGives
    <2> QED
      BY <1>5, <2>3, <2>4, <2>5
  <1>6. CASE M!Expire \/ M!Publish
    <2>1. /\ UNCHANGED <<x3, x4, x7>> /\ x1' \in DOMAIN Published
          /\ x2' = x2 \/ x2' = [x2 EXCEPT !.stale = TRUE]
      BY <1>0, <1>6 DEF M!Expire, M!Publish
    <2>2. x2' \in [version : M!Versions, stale : BOOLEAN]
      BY <1>0, <2>1
    <2> QED
      BY <2>1, <2>2 DEF M!TypeOK, M!PagesKeepTheirs, M!AnswersAreOfTheCatalog
  <1> QED
    BY <1>1, <1>2, <1>3, <1>4, <1>5, <1>6 DEF M!Next

(* For any number of clients, pages, requests and catalogs: a client offers *)
(* one list for one server (loadModelCatalog), and a page does not fall     *)
(* back behind the catalog it has (fetchModelCatalog).                      *)
THEOREM ModelsAreOfOneCatalog == Spec => []OneCatalog
  <1> DEFINE Inv == part = "models" => M!CatalogInv
  <1>0. M!Assumptions
    BY ConstantsAssumption
  <1>1. Init => Inv
    BY <1>0, CatalogInit DEF Init, InitPrompt, InitPicker, InitCredentials,
       InitInstallation, InitModels, InitTerminal
  <1>2. Inv /\ [Next]_vars => Inv'
    <2> SUFFICES ASSUME Inv, [Next]_vars, part' = "models" PROVE M!CatalogInv'
      OBVIOUS
    <2>1. CASE UNCHANGED vars
      BY <2>1 DEF vars, M!CatalogInv, M!TypeOK, M!PagesKeepTheirs, M!AnswersAreOfTheCatalog
    <2>2. CASE Next
      <3>1. part = "models" /\ M!Next
        BY <2>2 DEF Next, OfPrompt, OfPicker, OfCredentials, OfInstallation, OfModels,
           OfTerminal
      <3> QED
        BY <1>0, <3>1, CatalogNext
    <2> QED
      BY <2>1, <2>2
  <1>3. Inv => OneCatalog
    <2>1. ASSUME part = "models", M!CatalogInv, NEW x \in M!Processes, NEW a \in x7[x],
                 NEW b \in x7[x]
          PROVE  /\ x \in Clients /\ a.provider = b.provider /\ a.served = b.served =>
                      a.choices = b.choices
                 /\ x \in Pages /\ a.late =>
                      \E v \in DOMAIN Published : a.choices = M!Choices(x, v, a.provider, a.served)
      BY <2>1 DEF M!CatalogInv, M!AnswersAreOfTheCatalog
    <2> QED
      BY <2>1 DEF OneCatalog, M!OneCatalog
  <1> QED
    BY <1>1, <1>2, <1>3, PTL DEF Spec

-----------------------------------------------------------------------------
(* The credentials of the providers.                                       *)

LEMMA CredentialsInit == ASSUME C!Assumptions, C!Init PROVE C!CredentialsInv
  <1>1. C!Empty \in C!Copies
    BY DEF C!Empty, C!Copies
  <1>2. C!Idle \in C!Runs /\ C!Idle.pc = "idle"
    BY <1>1 DEF C!Idle, C!Runs
  <1>3. C!TypeOK
    BY <1>1, <1>2 DEF C!Init, C!TypeOK
  <1>4. C!PortIsHeld
    BY <1>2 DEF C!Init, C!PortIsHeld, C!Assumptions
  <1>5. C!CopiesAreKnown /\ C!LossIsExplained
    BY <1>2 DEF C!Init, C!CopiesAreKnown, C!LossIsExplained
  <1> QED
    BY <1>3, <1>4, <1>5 DEF C!CredentialsInv

\* A command signs in, gives it up or is killed: it has no copy of the file.
LEMMA SignInStep ==
  ASSUME C!CredentialsInv, NEW c \in Commands, NEW new \in C!Runs,
         x2' = [x2 EXCEPT ![c] = new], new.pc \notin {"read", "torn"},
         new.pc \in {"browser", "device", "signed"} => new.for \in Providers,
         x3' \in [Providers -> Commands \union {NoValue}],
         \A p \in Providers : x3'[p] = c <=> new.pc = "browser" /\ new.for = p,
         \A p \in Providers, d \in Commands : d # c => (x3'[p] = d <=> x3[p] = d),
         x5' \in C!Copies, UNCHANGED <<x1, x4, x7, x8>>, x9' \in {x9, Providers}
  PROVE  C!CredentialsInv'
  <1> USE DEF C!CredentialsInv
  <1>1. /\ x2' \in [Commands -> C!Runs] /\ x2'[c] = new
        /\ \A d \in Commands : d # c => x2'[d] = x2[d]
        /\ x9 \subseteq x9' /\ x9' \subseteq Providers
    BY DEF C!TypeOK
  <1>2. C!TypeOK'
    BY <1>1 DEF C!TypeOK
  <1>3. C!PortIsHeld'
    BY <1>1 DEF C!PortIsHeld
  <1>4. C!CopiesAreKnown' /\ C!LossIsExplained'
    BY <1>1 DEF C!CopiesAreKnown, C!KnownIn, C!LossIsExplained
  <1> QED
    BY <1>2, <1>3, <1>4

LEMMA CredentialsSignIn ==
  ASSUME C!Assumptions, C!CredentialsInv, NEW c \in Commands,
         \/ \E p \in Providers, how \in {"browser", "device", "key"} : C!Connect(c, p, how)
         \/ C!CallbackRefused(c) \/ C!Callback(c) \/ C!CallbackTimeout(c)
         \/ \E ok \in BOOLEAN : C!Exchanged(c, ok)
         \/ C!PollSigned(c) \/ C!PollPending(c) \/ C!PollRefused(c) \/ C!Killed(c)
  PROVE  C!CredentialsInv'
  <1> USE DEF C!CredentialsInv
  <1>0. /\ x2 \in [Commands -> C!Runs] /\ x5 \in C!Copies /\ x5 \in [Providers -> Nat]
        /\ x3 \in [Providers -> Commands \union {NoValue}]
        /\ x2[c] \in C!Runs /\ x2[c].exchanges \in Nat /\ x2[c].tries \in Nat
        /\ x2[c].pc \in {"browser", "device", "signed"} => x2[c].for \in Providers
        /\ NoValue \notin Commands
    BY DEF C!TypeOK, C!Runs, C!Copies, C!Assumptions
  <1>i. C!Idle \in C!Runs /\ C!Idle.pc = "idle"
    <2>1. C!Empty \in C!Copies
      BY DEF C!Empty, C!Copies
    <2> QED
      BY <2>1 DEF C!Idle, C!Runs
  <1>held. \A p \in Providers : x3[p] = c <=> x2[c].pc = "browser" /\ x2[c].for = p
    BY DEF C!PortIsHeld
  <1>issue. ASSUME NEW p \in Providers, C!Issue(p)
            PROVE  x5' \in C!Copies /\ x5'[p] \in Nat
    BY <1>0, <1>issue DEF C!Issue, C!Copies
  <1>stays. ASSUME NEW new \in C!Runs, x2' = [x2 EXCEPT ![c] = new],
                   new.pc \notin {"read", "torn"},
                   new.pc \in {"browser", "device", "signed"} => new.for \in Providers,
                   \/ x2[c].pc # "browser" /\ new.pc # "browser"
                   \/ x2[c].pc = "browser" /\ new.pc = "browser" /\ new.for = x2[c].for,
                   x3' = x3, x5' \in C!Copies, UNCHANGED <<x1, x4, x7, x8>>,
                   x9' \in {x9, Providers}
            PROVE  C!CredentialsInv'
    <2>1. \A p \in Providers : x3'[p] = c <=> new.pc = "browser" /\ new.for = p
      BY <1>held, <1>stays
    <2>2. /\ x3' \in [Providers -> Commands \union {NoValue}]
          /\ \A p \in Providers, d \in Commands : d # c => (x3'[p] = d <=> x3[p] = d)
      BY <1>0, <1>stays
    <2>3. /\ x2' = [x2 EXCEPT ![c] = new] /\ new.pc \notin {"read", "torn"}
          /\ new.pc \in {"browser", "device", "signed"} => new.for \in Providers
          /\ x5' \in C!Copies /\ UNCHANGED <<x1, x4, x7, x8>> /\ x9' \in {x9, Providers}
      BY <1>stays
    <2> QED
      BY <2>1, <2>2, <2>3, SignInStep
  <1>left. ASSUME NEW new \in C!Runs, x2' = [x2 EXCEPT ![c] = new],
                  new.pc \notin {"read", "torn", "browser"},
                  new.pc \in {"device", "signed"} => new.for \in Providers,
                  x2[c].pc = "browser", C!Close(c), x5' \in C!Copies,
                  UNCHANGED <<x1, x4, x7, x8, x9>>
           PROVE  C!CredentialsInv'
    <2>1. x3' = [x3 EXCEPT ![x2[c].for] = NoValue] /\ x2[c].for \in Providers
      BY <1>0, <1>left DEF C!Close
    <2>2. /\ x3' \in [Providers -> Commands \union {NoValue}]
          /\ x3'[x2[c].for] = NoValue /\ x3[x2[c].for] = c
          /\ \A p \in Providers : p # x2[c].for => x3'[p] = x3[p] /\ x3[p] # c
      BY <1>0, <1>held, <1>left, <2>1
    <2>3. \A p \in Providers : x3'[p] = c <=> new.pc = "browser" /\ new.for = p
      BY <1>0, <1>left, <2>2
    <2>4. \A p \in Providers, d \in Commands : d # c => (x3'[p] = d <=> x3[p] = d)
      BY <1>0, <2>2
    <2> QED
      BY <1>left, <2>2, <2>3, <2>4, SignInStep
  <1>1. ASSUME NEW p \in Providers, NEW how \in {"browser", "device", "key"},
               C!Connect(c, p, how)
        PROVE  C!CredentialsInv'
    <2>1. x2[c].pc = "idle" /\ UNCHANGED <<x1, x4, x7, x8, x9>>
      BY <1>1 DEF C!Connect, C!history
    <2>2. CASE how = "browser"
      <3>1. C!Listen(c, p) /\ x5' = x5
        BY <1>1, <2>2 DEF C!Connect
      <3>2. CASE x3[p] = NoValue
        <4> DEFINE new == [x2[c] EXCEPT !.pc = "browser", !.for = p]
        <4>1. x3' = [x3 EXCEPT ![p] = c] /\ x2' = [x2 EXCEPT ![c].pc = "browser", ![c].for = p]
          BY <3>1, <3>2 DEF C!Listen
        <4>2. x2' = [x2 EXCEPT ![c] = new]
          BY <1>0, <4>1
        <4>3. new \in C!Runs /\ new.pc = "browser" /\ new.for = p
          BY <1>0 DEF C!Runs
        <4> HIDE DEF new
        <4>4. /\ x3' \in [Providers -> Commands \union {NoValue}] /\ x3'[p] = c
              /\ \A q \in Providers : q # p => x3'[q] = x3[q]
          BY <1>0, <4>1
        <4>5. \A q \in Providers : x3'[q] = c <=> new.pc = "browser" /\ new.for = q
          BY <1>held, <2>1, <4>3, <4>4
        <4>6. \A q \in Providers, d \in Commands : d # c => (x3'[q] = d <=> x3[q] = d)
          BY <1>0, <3>2, <4>4
        <4> QED
          BY <1>0, <2>1, <3>1, <4>2, <4>3, <4>4, <4>5, <4>6, SignInStep, ZenonT(40)
      <3>3. CASE x3[p] # NoValue
        <4>1. UNCHANGED <<x1, x2, x3, x4, x5, x7, x8, x9>>
          BY <2>1, <3>1, <3>3 DEF C!Listen
        <4> QED
          BY <4>1 DEF C!TypeOK, C!PortIsHeld, C!CopiesAreKnown, C!KnownIn, C!LossIsExplained
      <3> QED
        BY <3>2, <3>3
    <2>3. CASE how = "device"
      <3> DEFINE new == [x2[c] EXCEPT !.pc = "device", !.for = p]
      <3>1. /\ x3' = x3 /\ x5' = x5
            /\ x2' = [x2 EXCEPT ![c].pc = "device", ![c].for = p]
        BY <1>1, <2>3 DEF C!Connect
      <3>2. x2' = [x2 EXCEPT ![c] = new]
        BY <1>0, <3>1
      <3>3. new \in C!Runs /\ new.pc = "device" /\ new.for = p
        BY <1>0 DEF C!Runs
      <3> HIDE DEF new
      <3> QED
        BY <1>0, <1>stays, <2>1, <3>1, <3>2, <3>3
    <2>4. CASE how = "key"
      <3> DEFINE half == [x2[c] EXCEPT !.pc = "signed", !.for = p]
                 new == [half EXCEPT !.token = x5'[p]]
      <3>1. /\ x3' = x3 /\ C!Issue(p)
            /\ x2' = [x2 EXCEPT ![c].pc = "signed", ![c].for = p, ![c].token = x5'[p]]
        BY <1>1, <2>4 DEF C!Connect
      <3>2. x2' = [x2 EXCEPT ![c] = new]
        BY <1>0, <3>1
      <3>3. half \in C!Runs /\ half.pc = "signed" /\ half.for = p
        BY <1>0 DEF C!Runs
      <3> HIDE DEF half
      <3>4. x5' \in C!Copies /\ x5'[p] \in Nat
        BY <1>issue, <3>1
      <3>5. new \in C!Runs /\ new.pc = "signed" /\ new.for = p
        BY <3>3, <3>4 DEF C!Runs
      <3> HIDE DEF new
      <3> QED
        BY <1>stays, <2>1, <3>1, <3>2, <3>4, <3>5
    <2> QED
      BY <2>2, <2>3, <2>4
  <1>2. CASE C!CallbackRefused(c) \/ C!CallbackTimeout(c)
    <2>1. /\ x2[c].pc = "browser" /\ C!Close(c) /\ x2' = [x2 EXCEPT ![c] = C!Idle]
          /\ UNCHANGED <<x1, x4, x5, x7, x8, x9>>
      BY <1>2 DEF C!CallbackRefused, C!CallbackTimeout, C!Gone, C!history
    <2> QED
      BY <1>0, <1>i, <1>left, <2>1
  <1>3. CASE C!Callback(c)
    <2> DEFINE half == [x2[c] EXCEPT !.exchanges = @ + 1]
               new == [half EXCEPT !.tries = @ + 1]
    <2>1. /\ x2[c].pc = "browser" /\ UNCHANGED <<x1, x3, x4, x5, x7, x8, x9>>
          /\ x2' = [x2 EXCEPT ![c].exchanges = @ + 1, ![c].tries = @ + 1]
      BY <1>3 DEF C!Callback, C!history
    <2>2. x2' = [x2 EXCEPT ![c] = new]
      BY <1>0, <2>1
    <2>3. half \in C!Runs /\ half.pc = x2[c].pc /\ half.for = x2[c].for
      BY <1>0 DEF C!Runs
    <2> HIDE DEF half
    <2>4. half.tries \in Nat
      BY <2>3 DEF C!Runs
    <2>5. new \in C!Runs /\ new.pc = x2[c].pc /\ new.for = x2[c].for
      BY <2>3, <2>4 DEF C!Runs
    <2> HIDE DEF new
    <2> QED
      BY <1>0, <1>stays, <2>1, <2>2, <2>5
  <1>4. ASSUME NEW ok \in BOOLEAN, C!Exchanged(c, ok) PROVE C!CredentialsInv'
    <2>1. x2[c].pc = "browser" /\ C!Close(c) /\ UNCHANGED <<x1, x4, x7, x8, x9>>
      BY <1>4 DEF C!Exchanged, C!history
    <2>2. CASE ~ok
      <3>1. x2' = [x2 EXCEPT ![c] = C!Idle] /\ x5' = x5
        BY <1>4, <2>2 DEF C!Exchanged, C!Gone
      <3> QED
        BY <1>0, <1>i, <1>left, <2>1, <3>1
    <2>3. CASE ok
      <3> DEFINE one == [x2[c] EXCEPT !.pc = "signed"]
                 two == [one EXCEPT !.exchanges = 0]
                 new == [two EXCEPT !.token = x5'[x2[c].for]]
      <3>1. /\ C!Issue(x2[c].for)
            /\ x2' = [x2 EXCEPT ![c].pc = "signed", ![c].exchanges = 0,
                                ![c].token = x5'[x2[c].for]]
        BY <1>4, <2>3 DEF C!Exchanged
      <3>2. x2' = [x2 EXCEPT ![c] = new]
        BY <1>0, <3>1
      <3>3. one \in C!Runs /\ one.pc = "signed" /\ one.for = x2[c].for
        BY <1>0 DEF C!Runs
      <3> HIDE DEF one
      <3>4. two \in C!Runs /\ two.pc = "signed" /\ two.for = x2[c].for
        BY <3>3 DEF C!Runs
      <3> HIDE DEF two
      <3>5. x5' \in C!Copies /\ x5'[x2[c].for] \in Nat
        BY <1>0, <1>issue, <2>1, <3>1
      <3>6. new \in C!Runs /\ new.pc = "signed" /\ new.for = x2[c].for
        BY <3>4, <3>5 DEF C!Runs
      <3> HIDE DEF new
      <3> QED
        BY <1>0, <1>left, <2>1, <3>2, <3>5, <3>6
    <2> QED
      BY <2>2, <2>3
  <1>5. CASE C!PollSigned(c)
    <2> DEFINE half == [x2[c] EXCEPT !.pc = "signed"]
               new == [half EXCEPT !.token = x5'[x2[c].for]]
    <2>1. /\ x2[c].pc = "device" /\ C!Issue(x2[c].for)
          /\ x2' = [x2 EXCEPT ![c].pc = "signed", ![c].token = x5'[x2[c].for]]
          /\ UNCHANGED <<x1, x3, x4, x7, x8, x9>>
      BY <1>5 DEF C!PollSigned, C!history
    <2>2. x2' = [x2 EXCEPT ![c] = new]
      BY <1>0, <2>1
    <2>3. half \in C!Runs /\ half.pc = "signed" /\ half.for = x2[c].for
      BY <1>0 DEF C!Runs
    <2> HIDE DEF half
    <2>4. x5' \in C!Copies /\ x5'[x2[c].for] \in Nat
      BY <1>0, <1>issue, <2>1
    <2>5. new \in C!Runs /\ new.pc = "signed" /\ new.for = x2[c].for
      BY <2>3, <2>4 DEF C!Runs
    <2> HIDE DEF new
    <2> QED
      BY <1>0, <1>stays, <2>1, <2>2, <2>4, <2>5
  <1>6. CASE C!PollPending(c)
    <2> DEFINE new == [x2[c] EXCEPT !.tries = @ + 1]
    <2>1. /\ x2[c].pc = "device" /\ UNCHANGED <<x1, x3, x4, x5, x7, x8, x9>>
          /\ x2' = [x2 EXCEPT ![c].tries = @ + 1]
      BY <1>6 DEF C!PollPending, C!history
    <2>2. x2' = [x2 EXCEPT ![c] = new]
      BY <1>0, <2>1
    <2>3. new \in C!Runs /\ new.pc = x2[c].pc /\ new.for = x2[c].for
      BY <1>0 DEF C!Runs
    <2> HIDE DEF new
    <2> QED
      BY <1>0, <1>stays, <2>1, <2>2, <2>3
  <1>7. CASE C!PollRefused(c)
    <2>1. /\ x2[c].pc = "device" /\ x2' = [x2 EXCEPT ![c] = C!Idle]
          /\ UNCHANGED <<x1, x3, x4, x5, x7, x8, x9>>
      BY <1>7 DEF C!PollRefused, C!Gone, C!history
    <2> QED
      BY <1>0, <1>i, <1>stays, <2>1
  <1>8. CASE C!Killed(c)
    <2>1. /\ x3' = [p \in Providers |-> IF x3[p] = c THEN NoValue ELSE x3[p]]
          /\ x9' \in {x9, Providers} /\ x2' = [x2 EXCEPT ![c] = C!Idle]
          /\ UNCHANGED <<x1, x4, x5, x7, x8>>
      BY <1>8 DEF C!Killed, C!Gone
    <2>2. /\ x3' \in [Providers -> Commands \union {NoValue}]
          /\ \A p \in Providers : x3'[p] # c
          /\ \A p \in Providers, d \in Commands : d # c => (x3'[p] = d <=> x3[p] = d)
      BY <1>0, <2>1
    <2> QED
      BY <1>0, <1>i, <2>1, <2>2, SignInStep
  <1> QED
    BY <1>1, <1>2, <1>3, <1>4, <1>5, <1>6, <1>7, <1>8

LEMMA CredentialsFile ==
  ASSUME C!Assumptions, C!CredentialsInv, NEW c \in Commands,
         C!ReadFile(c) \/ C!Truncate(c) \/ C!Store(c)
  PROVE  C!CredentialsInv'
  <1> USE DEF C!CredentialsInv
  <1>0. /\ x2 \in [Commands -> C!Runs] /\ x2[c] \in C!Runs /\ x2[c].seen \in C!Copies
        /\ x1 \in C!Copies \union {C!Torn} /\ x7 \in C!Copies
        /\ x8 \in [C!writers -> SUBSET Providers] /\ x9 \subseteq Providers
        /\ x2[c].for \in Providers \union {NoValue} /\ x2[c].token \in Nat
        /\ c \in C!writers /\ Commands \subseteq C!writers /\ Sessions \subseteq C!writers
        /\ \A s \in Sessions : s # c
    BY DEF C!TypeOK, C!Runs, C!writers, C!Assumptions
  <1>port. ASSUME NEW new \in C!Runs, x2' = [x2 EXCEPT ![c] = new], x2[c].pc # "browser",
                  new.pc # "browser", x3' = x3
           PROVE  C!PortIsHeld'
    BY <1>0, <1>port DEF C!PortIsHeld
  <1>1. CASE C!ReadFile(c)
    <2> DEFINE half == [x2[c] EXCEPT !.pc = "read"]
               new == [half EXCEPT !.seen = C!Parsed]
    <2>1. /\ x2[c].pc \in {"signed", "idle"} /\ UNCHANGED <<x1, x3, x4, x5, x7, x9>>
          /\ x2' = [x2 EXCEPT ![c].pc = "read", ![c].seen = C!Parsed]
          /\ x8' = [x8 EXCEPT ![c] = C!MissedNow]
      BY <1>1 DEF C!ReadFile
    <2>2. x2' = [x2 EXCEPT ![c] = new]
      BY <1>0, <2>1
    <2>3. C!Parsed \in C!Copies
      BY <1>0 DEF C!Parsed, C!Empty, C!Copies
    <2>4. half \in C!Runs /\ half.pc = "read"
      BY <1>0 DEF C!Runs
    <2> HIDE DEF half
    <2>5. new \in C!Runs /\ new.pc = "read" /\ new.seen = C!Parsed
      BY <2>3, <2>4 DEF C!Runs
    <2> HIDE DEF new
    <2>6. /\ x2' \in [Commands -> C!Runs] /\ x2'[c] = new
          /\ \A d \in Commands : d # c => x2'[d] = x2[d]
      BY <1>0, <2>2, <2>5
    <2>7. /\ x8' \in [C!writers -> SUBSET Providers] /\ x8'[c] = C!MissedNow
          /\ \A v \in C!writers : v # c => x8'[v] = x8[v]
      BY <1>0, <2>1 DEF C!MissedNow
    <2>8. C!TypeOK'
      BY <2>1, <2>5, <2>6, <2>7 DEF C!TypeOK
    <2>9. C!PortIsHeld'
      BY <1>port, <2>1, <2>2, <2>5
    <2>10. \A p \in Providers : C!Parsed[p] # x7[p] => p \in C!MissedNow \union x9
      BY DEF C!Parsed, C!MissedNow, C!LossIsExplained
    <2>11. C!CopiesAreKnown'
      BY <1>0, <2>1, <2>5, <2>6, <2>7, <2>10 DEF C!CopiesAreKnown, C!KnownIn
    <2>12. C!LossIsExplained'
      BY <2>1 DEF C!LossIsExplained
    <2> QED
      BY <2>8, <2>9, <2>11, <2>12
  <1>2. CASE C!Truncate(c)
    <2> DEFINE new == [x2[c] EXCEPT !.pc = "torn"]
    <2>1. /\ x2[c].pc = "read" /\ UNCHANGED <<x3, x4, x5, x7, x8, x9>>
          /\ x1' = C!Torn /\ x2' = [x2 EXCEPT ![c].pc = "torn"]
      BY <1>2 DEF C!Truncate, C!history
    <2>2. x2' = [x2 EXCEPT ![c] = new]
      BY <1>0, <2>1
    <2>3. new \in C!Runs /\ new.pc = "torn" /\ new.seen = x2[c].seen
      BY <1>0 DEF C!Runs
    <2> HIDE DEF new
    <2>4. /\ x2' \in [Commands -> C!Runs] /\ x2'[c] = new
          /\ \A d \in Commands : d # c => x2'[d] = x2[d]
      BY <1>0, <2>2, <2>3
    <2>5. C!TypeOK'
      BY <2>1, <2>3, <2>4 DEF C!TypeOK
    <2>6. C!PortIsHeld'
      BY <1>port, <2>1, <2>2, <2>3
    <2>7. C!CopiesAreKnown'
      BY <2>1, <2>3, <2>4 DEF C!CopiesAreKnown, C!KnownIn
    <2>8. C!LossIsExplained'
      BY <2>1 DEF C!LossIsExplained
    <2> QED
      BY <2>5, <2>6, <2>7, <2>8
  <1>3. CASE C!Store(c)
    <2> DEFINE ps == IF x2[c].for = NoValue THEN {} ELSE {x2[c].for}
    <2>1. /\ x2[c].pc = "torn" /\ UNCHANGED <<x3, x4, x5>>
          /\ x1' = C!Merged(c) /\ x2' = [x2 EXCEPT ![c] = C!Idle]
          /\ x8' = [v \in C!writers |-> IF v = c THEN {} ELSE x8[v] \union ps]
          /\ x9' = (x9 \ ps) \union (x8[c] \ ps)
          /\ x7' = [p \in Providers |-> IF p \in ps THEN x2[c].token ELSE x7[p]]
      BY <1>3 DEF C!Store, C!Wrote, C!Gone
    <2>2. ps \subseteq Providers
      BY <1>0
    <2>3. C!Idle \in C!Runs /\ C!Idle.pc = "idle"
      <3>1. C!Empty \in C!Copies
        BY DEF C!Empty, C!Copies
      <3> QED
        BY <3>1 DEF C!Idle, C!Runs
    <2>4. /\ x1' \in C!Copies
          /\ \A p \in Providers : x1'[p] = IF p \in ps THEN x2[c].token ELSE x2[c].seen[p]
      BY <1>0, <2>1 DEF C!Merged, C!Copies
    <2>5. /\ x2' \in [Commands -> C!Runs] /\ x2'[c] = C!Idle
          /\ \A d \in Commands : d # c => x2'[d] = x2[d]
      BY <1>0, <2>1, <2>3
    <2> HIDE DEF ps
    <2>6. /\ x8' \in [C!writers -> SUBSET Providers] /\ x9' \subseteq Providers
          /\ x7' \in C!Copies
          /\ \A p \in Providers : x7'[p] = IF p \in ps THEN x2[c].token ELSE x7[p]
      BY <1>0, <2>1, <2>2 DEF C!Copies
    <2>7. C!TypeOK'
      BY <2>1, <2>3, <2>4, <2>5, <2>6 DEF C!TypeOK
    <2>8. C!PortIsHeld'
      BY <1>port, <2>1, <2>3
    <2>9. \A p \in Providers : x2[c].seen[p] # x7[p] => p \in x8[c] \union x9
      BY <2>1 DEF C!CopiesAreKnown, C!KnownIn
    <2>10. C!LossIsExplained'
      BY <2>1, <2>4, <2>6, <2>9 DEF C!LossIsExplained
    <2>11. ASSUME NEW v \in C!writers, v # c, NEW copy \in C!Copies,
                  \A p \in Providers : copy[p] # x7[p] => p \in x8[v] \union x9
           PROVE  \A p \in Providers : copy[p] # x7'[p] => p \in x8'[v] \union x9'
      BY <2>1, <2>6, <2>11
    <2>12. C!CopiesAreKnown'
      <3>1. ASSUME NEW d \in Commands, x2'[d].pc \in {"read", "torn"}
            PROVE  \A p \in Providers : x2'[d].seen[p] # x7'[p] => p \in x8'[d] \union x9'
        <4>1. d # c /\ x2'[d] = x2[d]
          BY <2>3, <2>5, <3>1
        <4>2. x2[d].seen \in C!Copies
          BY <1>0 DEF C!Runs
        <4> QED
          BY <1>0, <2>11, <3>1, <4>1, <4>2 DEF C!CopiesAreKnown, C!KnownIn
      <3>2. ASSUME NEW s \in Sessions, x4'[s] # NoValue
            PROVE  \A p \in Providers : x4'[s].seen[p] # x7'[p] => p \in x8'[s] \union x9'
        <4>1. x4'[s] = x4[s] /\ s # c
          BY <1>0, <2>1
        <4>2. x4[s].seen \in C!Copies
          BY <3>2, <4>1 DEF C!TypeOK
        <4> QED
          BY <1>0, <2>11, <3>2, <4>1, <4>2 DEF C!CopiesAreKnown, C!KnownIn
      <3> QED
        BY <3>1, <3>2 DEF C!CopiesAreKnown, C!KnownIn
    <2> QED
      BY <2>7, <2>8, <2>10, <2>12
  <1> QED
    BY <1>1, <1>2, <1>3

LEMMA CredentialsSessions ==
  ASSUME C!Assumptions, C!CredentialsInv, NEW s \in Sessions,
         (\E p \in Providers : C!Resolve(s, p)) \/ C!Refresh(s) \/ C!Drop(s)
  PROVE  C!CredentialsInv'
  <1> USE DEF C!CredentialsInv
  <1>0. /\ x4 \in [Sessions -> [provider : Providers, seen : C!Copies] \union {NoValue}]
        /\ x1 \in C!Copies \union {C!Torn} /\ x7 \in C!Copies /\ x5 \in C!Copies
        /\ x8 \in [C!writers -> SUBSET Providers] /\ x9 \subseteq Providers
        /\ s \in C!writers /\ Commands \subseteq C!writers /\ Sessions \subseteq C!writers
        /\ \A c \in Commands : s # c
    BY DEF C!TypeOK, C!writers, C!Assumptions
  <1>1. ASSUME NEW p \in Providers, C!Resolve(s, p) PROVE C!CredentialsInv'
    <2> DEFINE new == [provider |-> p, seen |-> x1]
    <2>1. /\ x1 # C!Torn /\ x4' = [x4 EXCEPT ![s] = new] /\ x8' = [x8 EXCEPT ![s] = {}]
          /\ UNCHANGED <<x1, x2, x3, x5, x7, x9>>
      BY <1>1 DEF C!Resolve
    <2>2. new \in [provider : Providers, seen : C!Copies] /\ new.seen = x1
      BY <1>0, <2>1
    <2> HIDE DEF new
    <2>3. /\ x4' \in [Sessions -> [provider : Providers, seen : C!Copies] \union {NoValue}]
          /\ x4'[s] = new /\ \A t \in Sessions : t # s => x4'[t] = x4[t]
      BY <1>0, <2>1, <2>2
    <2>4. /\ x8' \in [C!writers -> SUBSET Providers]
          /\ \A v \in C!writers : v # s => x8'[v] = x8[v]
      BY <1>0, <2>1
    <2>5. C!TypeOK'
      BY <2>1, <2>3, <2>4 DEF C!TypeOK
    <2>6. C!CopiesAreKnown'
      BY <1>0, <2>1, <2>2, <2>3, <2>4 DEF C!CopiesAreKnown, C!KnownIn, C!LossIsExplained
    <2> QED
      BY <2>1, <2>5, <2>6 DEF C!PortIsHeld, C!LossIsExplained
  <1>2. CASE C!Refresh(s)
    <2> DEFINE p == x4[s].provider
               copy == [x4[s].seen EXCEPT ![p] = x5'[p]]
               new == [x4[s] EXCEPT !.seen = copy]
    <2>1. /\ x4[s] # NoValue /\ C!Issue(p) /\ x1' = copy
          /\ x4' = [x4 EXCEPT ![s].seen = copy]
          /\ x7' = [x7 EXCEPT ![p] = x5'[p]]
          /\ x8' = [v \in C!writers |-> IF v = s THEN x8[s] ELSE x8[v] \union {p}]
          /\ x9' = (x9 \ {p}) \union (x8[s] \ {p})
          /\ UNCHANGED <<x2, x3>>
      BY <1>2 DEF C!Refresh
    <2>2. x4[s] \in [provider : Providers, seen : C!Copies]
      BY <1>0, <2>1
    <2>3. p \in Providers /\ x4[s].seen \in C!Copies
      BY <2>2
    <2> HIDE DEF p
    <2>4. x5' \in C!Copies /\ x5'[p] \in Nat
      BY <1>0, <2>1, <2>3 DEF C!Issue, C!Copies
    <2>5. /\ copy \in C!Copies /\ copy[p] = x5'[p]
          /\ \A q \in Providers : q # p => copy[q] = x4[s].seen[q]
      BY <2>3, <2>4 DEF C!Copies
    <2> HIDE DEF copy
    <2>6. new \in [provider : Providers, seen : C!Copies] /\ new.seen = copy
      BY <2>2, <2>5
    <2>7. x4' = [x4 EXCEPT ![s] = new]
      BY <1>0, <2>1
    <2> HIDE DEF new
    <2>8. /\ x4' \in [Sessions -> [provider : Providers, seen : C!Copies] \union {NoValue}]
          /\ x4'[s] = new /\ \A t \in Sessions : t # s => x4'[t] = x4[t]
      BY <1>0, <2>6, <2>7
    <2>9. /\ x7' \in C!Copies /\ x7'[p] = x5'[p]
          /\ \A q \in Providers : q # p => x7'[q] = x7[q]
      BY <1>0, <2>1, <2>3, <2>4 DEF C!Copies
    <2>10. /\ x8' \in [C!writers -> SUBSET Providers] /\ x9' \subseteq Providers
           /\ x8'[s] = x8[s] /\ \A v \in C!writers : v # s => x8'[v] = x8[v] \union {p}
      BY <1>0, <2>1, <2>3
    <2>11. C!TypeOK'
      BY <2>1, <2>4, <2>5, <2>8, <2>9, <2>10 DEF C!TypeOK
    <2>12. \A q \in Providers : x4[s].seen[q] # x7[q] => q \in x8[s] \union x9
      BY <2>1 DEF C!CopiesAreKnown, C!KnownIn
    <2>13. \A q \in Providers : copy[q] # x7'[q] => q # p /\ q \in (x8[s] \union x9) \ {p}
      BY <2>5, <2>9, <2>12
    <2>14. C!LossIsExplained'
      BY <2>1, <2>13 DEF C!LossIsExplained
    <2>15. ASSUME NEW v \in C!writers, v # s, NEW own,
                  \A q \in Providers : own[q] # x7[q] => q \in x8[v] \union x9
           PROVE  \A q \in Providers : own[q] # x7'[q] => q \in x8'[v] \union x9'
      BY <2>1, <2>9, <2>10, <2>15
    <2>16. C!CopiesAreKnown'
      <3>1. ASSUME NEW c \in Commands, x2'[c].pc \in {"read", "torn"}
            PROVE  \A q \in Providers : x2'[c].seen[q] # x7'[q] => q \in x8'[c] \union x9'
        BY <1>0, <2>1, <2>15, <3>1 DEF C!CopiesAreKnown, C!KnownIn
      <3>2. ASSUME NEW t \in Sessions, x4'[t] # NoValue
            PROVE  \A q \in Providers : x4'[t].seen[q] # x7'[q] => q \in x8'[t] \union x9'
        <4>1. CASE t = s
          BY <2>1, <2>6, <2>8, <2>10, <2>13, <4>1
        <4>2. CASE t # s
          <5>1. x4'[t] = x4[t] /\ t \in C!writers
            BY <1>0, <2>8, <4>2
          <5>2. \A q \in Providers : x4[t].seen[q] # x7[q] => q \in x8[t] \union x9
            BY <3>2, <5>1 DEF C!CopiesAreKnown, C!KnownIn
          <5> QED
            BY <2>15, <4>2, <5>1, <5>2
        <4> QED
          BY <4>1, <4>2
      <3> QED
        BY <3>1, <3>2 DEF C!CopiesAreKnown, C!KnownIn
    <2> QED
      BY <2>1, <2>11, <2>14, <2>16 DEF C!PortIsHeld
  <1>3. CASE C!Drop(s)
    <2>1. x4' = [x4 EXCEPT ![s] = NoValue] /\ UNCHANGED <<x1, x2, x3, x5, x7, x8, x9>>
      BY <1>3 DEF C!Drop, C!history
    <2>2. /\ x4' \in [Sessions -> [provider : Providers, seen : C!Copies] \union {NoValue}]
          /\ x4'[s] = NoValue /\ \A t \in Sessions : t # s => x4'[t] = x4[t]
      BY <1>0, <2>1
    <2>3. C!TypeOK'
      BY <2>1, <2>2 DEF C!TypeOK
    <2>4. C!CopiesAreKnown'
      BY <2>1, <2>2 DEF C!CopiesAreKnown, C!KnownIn
    <2> QED
      BY <2>1, <2>3, <2>4 DEF C!PortIsHeld, C!LossIsExplained
  <1> QED
    BY <1>1, <1>2, <1>3

(* For any number of commands, sign-ins and sessions: what is lost of the  *)
(* credentials has a writer that had missed it, or a client killed while   *)
(* it wrote, and the port of a callback is free or somebody waits at it    *)
(* (auth.ts, waitForBrowserCallback).                                      *)
THEOREM CredentialsStayKept == Spec => []CredentialsAreKept
  <1> DEFINE Inv == part = "credentials" => C!CredentialsInv
  <1>0. C!Assumptions
    BY ConstantsAssumption
  <1>1. Init => Inv
    BY <1>0, CredentialsInit DEF Init, InitPrompt, InitPicker, InitCredentials,
       InitInstallation, InitModels, InitTerminal
  <1>2. Inv /\ [Next]_vars => Inv'
    <2> SUFFICES ASSUME Inv, [Next]_vars, part' = "credentials" PROVE C!CredentialsInv'
      OBVIOUS
    <2>1. CASE UNCHANGED vars
      BY <2>1 DEF vars, C!CredentialsInv, C!TypeOK, C!PortIsHeld, C!CopiesAreKnown,
         C!KnownIn, C!LossIsExplained
    <2>2. CASE Next
      <3>1. part = "credentials" /\ C!Next
        BY <2>2 DEF Next, OfPrompt, OfPicker, OfCredentials, OfInstallation, OfModels,
           OfTerminal
      <3> QED
        BY <1>0, <3>1, CredentialsSignIn, CredentialsFile, CredentialsSessions DEF C!Next
    <2> QED
      BY <2>1, <2>2
  <1>3. Inv => CredentialsAreKept
    <2> SUFFICES ASSUME C!CredentialsInv PROVE C!LossIsExplained /\ C!PortIsFreed
      BY DEF CredentialsAreKept
    <2>1. ASSUME NEW p \in Providers
          PROVE  {c \in Commands : x2[c].pc = "browser" /\ x2[c].for = p}
                   = IF x3[p] = NoValue THEN {} ELSE {x3[p]}
      <3>1. \A c \in Commands : x3[p] = c <=> x2[c].pc = "browser" /\ x2[c].for = p
        BY DEF C!CredentialsInv, C!PortIsHeld
      <3>2. x3[p] \in Commands \union {NoValue} /\ NoValue \notin Commands
        BY <1>0 DEF C!CredentialsInv, C!TypeOK, C!Assumptions
      <3> QED
        BY <3>1, <3>2
    <2> QED
      BY <2>1 DEF C!CredentialsInv, C!PortIsFreed
  <1> QED
    BY <1>1, <1>2, <1>3, PTL DEF Spec

-----------------------------------------------------------------------------
(***************************************************************************)
(* The lines a user types (TerminalClient).  The variables of the part are *)
(*                                                                         *)
(*   x1 turn       x6 shown    x11 typed    x16 local     x21 cancels      *)
(*   x2 pend       x7 cursor   x12 queue    x17 pending   x22 gone         *)
(*   x3 log        x8 up       x13 reader   x18 steer     x23 bounds       *)
(*   x4 delivered  x9 wire     x14 main     x19 pop       x24 excused      *)
(*   x5 config     x10 late    x15 turnNo   x20 remote    x25 crossed      *)
(***************************************************************************)
\* The largest of a set of positions is in it.
LEMMA MaxIsIn ==
  ASSUME NEW n \in Nat, NEW At \in SUBSET (1 .. n), At # {}
  PROVE  T!Max(At) \in At /\ \A j \in At : j <= T!Max(At)
  <1> DEFINE Back == {k \in Nat : n - k \in At}
  <1>1. PICK i \in At : TRUE
    OBVIOUS
  <1>2. n - i \in Back
    BY <1>1
  <1>3. IsWellFoundedOn(OpToRel(<, Nat), Nat)
    BY NatLessThanWellFounded
  <1>4. Back \subseteq Nat /\ Back # {}
    BY <1>2
  <1> HIDE DEF Back
  <1>5. PICK m \in Back : \A k \in Back : ~ (<<k, m>> \in OpToRel(<, Nat))
    BY <1>3, <1>4, WFMin
  <1>6. ASSUME NEW k \in Back PROVE m <= k
    <2>1. ~ (k < m)
      BY <1>4, <1>5 DEF OpToRel
    <2> QED
      BY <1>4, <2>1
  <1>7. n - m \in At /\ \A j \in At : n - m >= j
    <2>1. n - m \in At
      BY DEF Back
    <2>2. ASSUME NEW j \in At PROVE n - m >= j
      <3>1. n - j \in Back
        BY DEF Back
      <3> QED
        BY <3>1, <1>6, <1>4
    <2> QED
      BY <2>1, <2>2
  <1>8. \E x \in At : \A y \in At : x >= y
    BY <1>7
  <1> QED
    BY <1>8 DEF T!Max

\* The last turn_status of a sequence of events, if it has one.
LEMMA LastTurnOf ==
  ASSUME NEW s \in Seq(T!Events)
  PROVE  IF T!TellsTurn(s)
         THEN \E i \in DOMAIN s : /\ T!LastTurn(s) = s[i] /\ s[i].type = "turn_status"
                                  /\ \A j \in DOMAIN s : j > i => s[j].type # "turn_status"
         ELSE T!LastTurn(s) = T!Ended
  <1> DEFINE At == {i \in 1 .. Len(s) : s[i].type = "turn_status"}
  <1>1. T!SelectLastInSeq(s, LAMBDA e : e.type = "turn_status") = IF At # {} THEN T!Max(At) ELSE 0
    BY DEF T!SelectLastInSeq
  <1>2. T!TellsTurn(s) <=> At # {}
    BY DEF T!TellsTurn, T!ToSet
  <1>3. Len(s) \in Nat /\ At \in SUBSET (1 .. Len(s)) /\ DOMAIN s = 1 .. Len(s)
    OBVIOUS
  <1>4. CASE At = {}
    BY <1>1, <1>2, <1>4 DEF T!LastTurn
  <1>5. CASE At # {}
    <2>1. T!Max(At) \in At /\ \A j \in At : j <= T!Max(At)
      BY <1>3, <1>5, MaxIsIn
    <2>2. T!LastTurn(s) = s[T!Max(At)]
      <3>1. T!Max(At) # 0
        BY <2>1
      <3> HIDE DEF At
      <3> QED
        BY <1>1, <1>5, <3>1 DEF T!LastTurn
    <2>3. PICK m \in 1 .. Len(s) : m = T!Max(At)
      BY <2>1
    <2>4. s[m].type = "turn_status"
      BY <2>1, <2>3
    <2>5. ASSUME NEW j \in 1 .. Len(s), j > m PROVE s[j].type # "turn_status"
      <3>1. s[j].type = "turn_status" => j \in At
        OBVIOUS
      <3> HIDE DEF At
      <3>2. ~(j <= m) /\ (j \in At => j <= m)
        BY <2>1, <2>3, <2>5
      <3> QED
        BY <3>1, <3>2
    <2>6. T!LastTurn(s) = s[m]
      BY <2>2, <2>3
    <2> HIDE DEF At
    <2> QED
      BY <2>4, <2>5, <2>6, <1>2, <1>3, <1>5
  <1> QED
    BY <1>4, <1>5

\* Events that tell nothing of a turn do not change it.
LEMMA LastTurnAfter ==
  ASSUME NEW s \in Seq(T!Events), NEW t \in Seq(T!Events), ~T!TellsTurn(t)
  PROVE  T!LastTurn(s \o t) = T!LastTurn(s) /\ (T!TellsTurn(s \o t) <=> T!TellsTurn(s))
  <1> DEFINE u == s \o t
  <1>1. u \in Seq(T!Events) /\ Len(u) = Len(s) + Len(t)
        /\ \A i \in DOMAIN s : i \in DOMAIN u /\ u[i] = s[i]
    OBVIOUS
  <1>2. \A i \in DOMAIN u : i \notin DOMAIN s => u[i].type # "turn_status"
    <2> SUFFICES ASSUME NEW i \in DOMAIN u, i \notin DOMAIN s PROVE u[i].type # "turn_status"
      OBVIOUS
    <2>1. i - Len(s) \in DOMAIN t /\ u[i] = t[i - Len(s)]
      OBVIOUS
    <2> QED
      BY <2>1 DEF T!TellsTurn, T!ToSet
  <1> HIDE DEF u
  <1>3. T!TellsTurn(u) <=> T!TellsTurn(s)
    BY <1>1, <1>2 DEF T!TellsTurn, T!ToSet
  <1>4. CASE T!TellsTurn(s)
    <2>1. PICK i \in DOMAIN s : /\ T!LastTurn(s) = s[i] /\ s[i].type = "turn_status"
                               /\ \A j \in DOMAIN s : j > i => s[j].type # "turn_status"
      BY <1>4, LastTurnOf
    <2>2. PICK k \in DOMAIN u : /\ T!LastTurn(u) = u[k] /\ u[k].type = "turn_status"
                               /\ \A j \in DOMAIN u : j > k => u[j].type # "turn_status"
      BY <1>1, <1>3, <1>4, LastTurnOf
    <2>3. k \in DOMAIN s /\ u[k] = s[k] /\ i \in DOMAIN u /\ u[i] = s[i]
      BY <1>1, <1>2, <2>1, <2>2
    <2>4. ~(k > i) /\ ~(i > k)
      BY <2>1, <2>2, <2>3
    <2>5. k = i
      BY <2>4, <2>3
    <2> QED
      BY <1>3, <2>1, <2>2, <2>3, <2>5 DEF u
  <1>5. CASE ~T!TellsTurn(s)
    BY <1>1, <1>3, <1>5, LastTurnOf DEF u
  <1> QED
    BY <1>4, <1>5

\* A turn_status that comes last is it.
LEMMA LastTurnNow ==
  ASSUME NEW s \in Seq(T!Events), NEW e \in T!Events, e.type = "turn_status"
  PROVE  T!LastTurn(s \o <<e>>) = e /\ T!TellsTurn(s \o <<e>>)
  <1> DEFINE u == s \o <<e>>
  <1>1. u \in Seq(T!Events) /\ Len(u) = Len(s) + 1 /\ u[Len(u)] = e /\ Len(u) \in DOMAIN u
    OBVIOUS
  <1> HIDE DEF u
  <1>2. T!TellsTurn(u)
    BY <1>1 DEF T!TellsTurn, T!ToSet
  <1>3. PICK i \in DOMAIN u : /\ T!LastTurn(u) = u[i]
                             /\ \A j \in DOMAIN u : j > i => u[j].type # "turn_status"
    BY <1>1, <1>2, LastTurnOf
  <1>4. i = Len(u)
    BY <1>1, <1>3
  <1> QED
    BY <1>1, <1>2, <1>3, <1>4 DEF u

\* What a sequence holds after an append.
LEMMA Appended ==
  ASSUME NEW Els, NEW s \in Seq(Els), NEW x \in Els
  PROVE  /\ Append(s, x) \in Seq(Els)
         /\ T!ToSet(Append(s, x)) = T!ToSet(s) \cup {x}
         /\ T!IsInjective(s) /\ x \notin T!ToSet(s) => T!IsInjective(Append(s, x))
  <1> DEFINE u == Append(s, x)
  <1>1. u \in Seq(Els) /\ Len(u) = Len(s) + 1 /\ u[Len(u)] = x /\ DOMAIN u = 1 .. Len(u)
        /\ DOMAIN s = 1 .. Len(s) /\ Len(s) \in Nat /\ \A i \in DOMAIN s : u[i] = s[i]
    OBVIOUS
  <1> HIDE DEF u
  <1>2. T!ToSet(u) = T!ToSet(s) \cup {x}
    BY <1>1 DEF T!ToSet
  <1>3. T!IsInjective(s) /\ x \notin T!ToSet(s) => T!IsInjective(u)
    BY <1>1 DEF T!ToSet, T!IsInjective
  <1> QED
    BY <1>1, <1>2, <1>3 DEF u

\* What two sequences hold together.
LEMMA Joined ==
  ASSUME NEW Els, NEW s \in Seq(Els), NEW t \in Seq(Els)
  PROVE  s \o t \in Seq(Els) /\ T!ToSet(s \o t) = T!ToSet(s) \cup T!ToSet(t)
  <1> DEFINE u == s \o t
  <1>1. u \in Seq(Els) /\ Len(u) = Len(s) + Len(t) /\ DOMAIN u = 1 .. Len(u)
        /\ DOMAIN s = 1 .. Len(s) /\ DOMAIN t = 1 .. Len(t) /\ Len(s) \in Nat /\ Len(t) \in Nat
        /\ \A i \in DOMAIN s : u[i] = s[i]
    OBVIOUS
  <1>2. \A i \in DOMAIN u : i \notin DOMAIN s => i - Len(s) \in DOMAIN t /\ u[i] = t[i - Len(s)]
    OBVIOUS
  <1>3. \A i \in DOMAIN t : i + Len(s) \in DOMAIN u /\ u[i + Len(s)] = t[i]
    OBVIOUS
  <1>4. \A i \in DOMAIN s : i \in DOMAIN u
    BY <1>1
  <1> HIDE DEF u
  <1>5. ASSUME NEW y \in T!ToSet(u) PROVE y \in T!ToSet(s) \cup T!ToSet(t)
    BY <1>1, <1>2 DEF T!ToSet
  <1>6. ASSUME NEW y \in T!ToSet(s) PROVE y \in T!ToSet(u)
    BY <1>1, <1>4 DEF T!ToSet
  <1>7. ASSUME NEW y \in T!ToSet(t) PROVE y \in T!ToSet(u)
    BY <1>1, <1>3 DEF T!ToSet
  <1> QED
    BY <1>1, <1>5, <1>6, <1>7 DEF u

\* What a sequence holds without its last element.
LEMMA FrontLast ==
  ASSUME NEW Els, NEW s \in Seq(Els), s # <<>>
  PROVE  /\ T!Front(s) \in Seq(Els) /\ T!Last(s) \in Els
         /\ T!ToSet(s) = T!ToSet(T!Front(s)) \cup {T!Last(s)}
         /\ \A i \in DOMAIN T!Front(s) : i \in DOMAIN s /\ T!Front(s)[i] = s[i]
         /\ T!IsInjective(s) => T!IsInjective(T!Front(s)) /\ T!Last(s) \notin T!ToSet(T!Front(s))
  <1> DEFINE u == T!Front(s)
  <1>0. DOMAIN s = 1 .. Len(s) /\ Len(s) \in Nat /\ Len(s) # 0
    OBVIOUS
  <1>1. u \in Seq(Els) /\ Len(u) = Len(s) - 1 /\ DOMAIN u = 1 .. Len(u) /\ DOMAIN s = 1 .. Len(s)
        /\ Len(s) \in Nat /\ Len(s) # 0 /\ \A i \in DOMAIN u : u[i] = s[i]
    BY <1>0 DEF T!Front
  <1>2. \A i \in DOMAIN u : i \in DOMAIN s /\ i # Len(s)
    BY <1>1
  <1>3. \A i \in DOMAIN s : i = Len(s) \/ i \in DOMAIN u
    BY <1>1
  <1>4. Len(s) \in DOMAIN s
    BY <1>1
  <1> HIDE DEF u
  <1>5. T!ToSet(s) = T!ToSet(u) \cup {T!Last(s)}
    BY <1>1, <1>2, <1>3, <1>4 DEF T!ToSet, T!Last
  <1>6. T!IsInjective(s) => T!IsInjective(u) /\ T!Last(s) \notin T!ToSet(u)
    BY <1>1, <1>2, <1>3, <1>4 DEF T!ToSet, T!Last, T!IsInjective
  <1>7. T!Last(s) \in Els
    BY <1>4 DEF T!Last
  <1> QED
    BY <1>1, <1>2, <1>5, <1>6, <1>7 DEF u

\* The smallest of a set of positions is in it.
LEMMA MinIsIn ==
  ASSUME NEW At \in SUBSET Nat, At # {}
  PROVE  T!Min(At) \in At
  <1>1. PICK m \in At : \A k \in At : ~ (<<k, m>> \in OpToRel(<, Nat))
    BY NatLessThanWellFounded, WFMin
  <1>2. ASSUME NEW k \in At PROVE m <= k
    <2>1. ~ (k < m)
      BY <1>1 DEF OpToRel
    <2> QED
      BY <2>1
  <1>3. \E x \in At : \A y \in At : x =< y
    BY <1>2
  <1> QED
    BY <1>3 DEF T!Min

\* A part of a sequence, element by element.
LEMMA SubSeqIs ==
  ASSUME NEW Els, NEW s \in Seq(Els), NEW m \in 1 .. Len(s) + 1, NEW n \in 0 .. Len(s), m <= n + 1
  PROVE  /\ SubSeq(s, m, n) \in Seq(Els) /\ Len(SubSeq(s, m, n)) = n + 1 - m
         /\ \A i \in 1 .. n + 1 - m : SubSeq(s, m, n)[i] = s[i + m - 1]
  <1>1. Len(s) \in Nat /\ DOMAIN s = 1 .. Len(s) /\ m \in Nat /\ n \in Nat /\ 1 <= m /\ n <= Len(s)
    OBVIOUS
  <1>2. SubSeq(s, m, n) = [i \in 1 .. n + 1 - m |-> s[i + m - 1]]
    BY <1>1
  <1> DEFINE f == [i \in 1 .. n + 1 - m |-> s[i + m - 1]]
  <1>3. \A i \in 1 .. n + 1 - m : i + m - 1 \in 1 .. Len(s)
    BY <1>1
  <1>4. \A i \in 1 .. n + 1 - m : s[i + m - 1] \in Els
    BY <1>1, <1>3
  <1>5. n + 1 - m \in Nat
    BY <1>1
  <1>6. f \in Seq(Els) /\ Len(f) = n + 1 - m
    BY <1>4, <1>5
  <1> QED
    BY <1>2, <1>6

\* Two sequences after each other, element by element.
LEMMA JoinedIs ==
  ASSUME NEW Els, NEW s \in Seq(Els), NEW t \in Seq(Els)
  PROVE  /\ s \o t \in Seq(Els) /\ Len(s \o t) = Len(s) + Len(t)
         /\ \A i \in 1 .. Len(s) + Len(t) : (s \o t)[i] = IF i <= Len(s) THEN s[i] ELSE t[i - Len(s)]
  OBVIOUS

\* What a sequence holds without the first occurrence of an element.
LEMMA Removed ==
  ASSUME NEW Els, NEW s \in Seq(Els), NEW x
  PROVE  /\ T!RemoveFirst(s, x) \in Seq(Els)
         /\ T!ToSet(s) \subseteq T!ToSet(T!RemoveFirst(s, x)) \cup {x}
         /\ T!ToSet(T!RemoveFirst(s, x)) \subseteq T!ToSet(s)
         /\ T!IsInjective(s) => T!IsInjective(T!RemoveFirst(s, x)) /\ x \notin T!ToSet(T!RemoveFirst(s, x))
  <1>1. CASE ~ \E i \in 1 .. Len(s) : s[i] = x
    <2>1. T!RemoveFirst(s, x) = s /\ x \notin T!ToSet(s)
      BY <1>1 DEF T!RemoveFirst, T!ToSet
    <2> QED
      BY <2>1
  <1>2. CASE \E i \in 1 .. Len(s) : s[i] = x
    <2> DEFINE At == {i \in 1 .. Len(s) : s[i] = x}
               n == T!SelectInSeq(s, LAMBDA v : v = x)
    <2>1. At \in SUBSET Nat /\ At # {}
      BY <1>2
    <2>2. n = T!Min(At)
      BY <2>1 DEF T!SelectInSeq
    <2>3. T!RemoveFirst(s, x) = SubSeq(s, 1, n - 1) \o SubSeq(s, n + 1, Len(s))
      BY <1>2 DEF T!RemoveFirst, T!RemoveAt
    <2>4. PICK k \in 1 .. Len(s) : k = n /\ s[k] = x
      BY <2>1, <2>2, MinIsIn
    <2> HIDE DEF n, At
    <2> DEFINE u == SubSeq(s, 1, k - 1) \o SubSeq(s, k + 1, Len(s))
    <2>5. T!RemoveFirst(s, x) = u
      BY <2>3, <2>4
    <2> DEFINE a == SubSeq(s, 1, k - 1)
               b == SubSeq(s, k + 1, Len(s))
    <2>a. k \in Nat /\ 1 <= k /\ k <= Len(s) /\ Len(s) \in Nat /\ DOMAIN s = 1 .. Len(s)
      BY <2>4
    <2>b. a \in Seq(Els) /\ Len(a) = k - 1 /\ \A i \in 1 .. k - 1 : a[i] = s[i]
      BY <2>a, SubSeqIs
    <2>c. b \in Seq(Els) /\ Len(b) = Len(s) - k /\ \A i \in 1 .. Len(s) - k : b[i] = s[i + k]
      <3>1. k + 1 \in 1 .. Len(s) + 1 /\ Len(s) \in 0 .. Len(s) /\ k + 1 <= Len(s) + 1
            /\ Len(s) + 1 - (k + 1) = Len(s) - k
        <4>1. PICK l \in Nat : l = Len(s)
          BY <2>a
        <4>2. k + 1 \in 1 .. l + 1 /\ l \in 0 .. l
          BY <2>a, <4>1
        <4>3. k + 1 <= l + 1
          BY <2>a, <4>1
        <4>4. ASSUME NEW p \in Nat, NEW q \in Nat PROVE q + 1 - (p + 1) = q - p
          OBVIOUS
        <4>5. l + 1 - (k + 1) = l - k
          BY <2>a, <4>4
        <4> QED
          BY <4>1, <4>2, <4>3, <4>5
      <3>0. \A i \in 1 .. Len(s) - k : i + (k + 1) - 1 = i + k
        BY <2>a
      <3>2. b \in Seq(Els) /\ Len(b) = Len(s) + 1 - (k + 1)
            /\ \A i \in 1 .. Len(s) + 1 - (k + 1) : b[i] = s[i + (k + 1) - 1]
        BY <3>1, SubSeqIs
      <3> HIDE DEF b
      <3> QED
        BY <3>0, <3>1, <3>2
    <2> HIDE DEF a, b
    <2>6. u \in Seq(Els) /\ Len(u) = Len(s) - 1 /\ DOMAIN u = 1 .. Len(u) /\ DOMAIN s = 1 .. Len(s)
          /\ Len(s) \in Nat /\ k \in Nat
      <3>1. a \o b \in Seq(Els) /\ Len(a \o b) = Len(a) + Len(b)
        BY <2>b, <2>c, JoinedIs
      <3>2. u = a \o b
        BY DEF a, b
      <3> HIDE DEF u
      <3>4. Len(u) = Len(a) + Len(b) /\ Len(a) = k - 1 /\ Len(b) = Len(s) - k
        BY <3>1, <3>2, <2>b, <2>c
      <3>3. Len(u) = Len(s) - 1
        BY <3>4, <2>a
      <3> QED
        BY <3>1, <3>2, <3>3, <2>a
    <2>7. \A i \in DOMAIN u : u[i] = IF i < k THEN s[i] ELSE s[i + 1]
      <3> SUFFICES ASSUME NEW i \in 1 .. Len(s) - 1 PROVE u[i] = IF i < k THEN s[i] ELSE s[i + 1]
        BY <2>6
      <3>1. (a \o b)[i] = IF i <= Len(a) THEN a[i] ELSE b[i - Len(a)]
        <4>1. i \in 1 .. Len(a) + Len(b)
          BY <2>a, <2>b, <2>c
        <4> QED
          BY <4>1, <2>b, <2>c, JoinedIs
      <3>2. CASE i < k
        <4>1. i <= Len(a) /\ i \in 1 .. k - 1
          BY <3>2, <2>a, <2>b
        <4>2. (a \o b)[i] = s[i]
          BY <4>1, <3>1, <2>b
        <4> QED
          BY <3>2, <4>2 DEF a, b
      <3>3. CASE ~(i < k)
        <4>1. i - (k - 1) \in 1 .. Len(s) - k /\ ~(i <= k - 1) /\ i - (k - 1) + k = i + 1
          BY <3>3, <2>a
        <4>2. (a \o b)[i] = s[i + 1]
          BY <3>1, <4>1, <2>b, <2>c
        <4> QED
          BY <4>2, <3>3 DEF a, b
      <3> QED
        BY <3>2, <3>3
    <2> HIDE DEF u
    <2>8. \A i \in DOMAIN u : \E j \in DOMAIN s : j # k /\ u[i] = s[j]
      BY <2>4, <2>6, <2>7
    <2>9. \A j \in DOMAIN s : j # k => \E i \in DOMAIN u : u[i] = s[j]
      <3> SUFFICES ASSUME NEW j \in DOMAIN s, j # k PROVE \E i \in DOMAIN u : u[i] = s[j]
        OBVIOUS
      <3>1. CASE j < k
        BY <3>1, <2>4, <2>6, <2>7
      <3>2. CASE j > k
        <4>1. j - 1 \in DOMAIN u /\ ~(j - 1 < k) /\ (j - 1) + 1 = j
          BY <3>2, <2>4, <2>6
        <4> QED
          BY <4>1, <2>7
      <3> QED
        BY <3>1, <3>2, <2>6
    <2>10. T!ToSet(s) \subseteq T!ToSet(u) \cup {x} /\ T!ToSet(u) \subseteq T!ToSet(s)
      <3>1. ASSUME NEW y \in T!ToSet(s), y # x PROVE y \in T!ToSet(u)
        BY <3>1, <2>4, <2>9 DEF T!ToSet
      <3>2. ASSUME NEW y \in T!ToSet(u) PROVE y \in T!ToSet(s)
        BY <2>8 DEF T!ToSet
      <3> QED
        BY <3>1, <3>2
    <2>11. ASSUME T!IsInjective(s) PROVE T!IsInjective(u) /\ x \notin T!ToSet(u)
      <3>1. x \notin T!ToSet(u)
        BY <2>4, <2>6, <2>8, <2>11 DEF T!ToSet, T!IsInjective
      <3>2. ASSUME NEW i \in DOMAIN u, NEW j \in DOMAIN u, u[i] = u[j] PROVE i = j
        <4> DEFINE at(m) == IF m < k THEN m ELSE m + 1
        <4>1. at(i) \in DOMAIN s /\ at(j) \in DOMAIN s /\ s[at(i)] = s[at(j)]
          BY <3>2, <2>4, <2>6, <2>7
        <4>2. at(i) = at(j)
          BY <4>1, <2>11 DEF T!IsInjective
        <4> QED
          BY <4>2, <2>4, <2>6
      <3> QED
        BY <3>1, <3>2 DEF T!IsInjective
    <2> QED
      BY <2>5, <2>6, <2>10, <2>11
  <1> QED
    BY <1>1, <1>2

\* The lines of a queue,
LinesOf(q) == {q[i].line : i \in DOMAIN q}
\* that each of them is there once,
EachOnce(q) == \A i, j \in DOMAIN q : q[i].line = q[j].line => i = j
\* and that each is text or a switch to a session.
Doable(q) == \A i \in DOMAIN q : q[i].text \/ q[i].session \in Screens

\* A line pushed at the end of the queue.
LEMMA LinesAppended ==
  ASSUME NEW q \in Seq(T!Queued), NEW x \in T!Queued
  PROVE  /\ Append(q, x) \in Seq(T!Queued)
         /\ LinesOf(Append(q, x)) = LinesOf(q) \cup {x.line}
         /\ EachOnce(q) /\ x.line \notin LinesOf(q) => EachOnce(Append(q, x))
         /\ Doable(q) /\ (x.text \/ x.session \in Screens) => Doable(Append(q, x))
  <1> DEFINE u == Append(q, x)
  <1>1. u \in Seq(T!Queued) /\ Len(u) = Len(q) + 1 /\ u[Len(u)] = x /\ DOMAIN u = 1 .. Len(u)
        /\ DOMAIN q = 1 .. Len(q) /\ Len(q) \in Nat /\ \A i \in DOMAIN q : u[i] = q[i]
    OBVIOUS
  <1> HIDE DEF u
  <1>2. \A i \in DOMAIN u : i \in DOMAIN q \/ i = Len(u)
    BY <1>1
  <1>3. Len(u) \in DOMAIN u /\ \A i \in DOMAIN q : i \in DOMAIN u
    BY <1>1
  <1>4. LinesOf(u) = LinesOf(q) \cup {x.line}
    BY <1>1, <1>2, <1>3 DEF LinesOf
  <1>5. EachOnce(q) /\ x.line \notin LinesOf(q) => EachOnce(u)
    BY <1>1, <1>2, <1>3 DEF LinesOf, EachOnce
  <1>6. Doable(q) /\ (x.text \/ x.session \in Screens) => Doable(u)
    BY <1>1, <1>2 DEF Doable
  <1> QED
    BY <1>1, <1>4, <1>5, <1>6 DEF u

\* A line taken from the front of the queue.
LEMMA LinesTail ==
  ASSUME NEW q \in Seq(T!Queued), q # <<>>
  PROVE  /\ Tail(q) \in Seq(T!Queued) /\ Head(q) \in T!Queued
         /\ LinesOf(q) = LinesOf(Tail(q)) \cup {Head(q).line}
         /\ EachOnce(q) => EachOnce(Tail(q)) /\ Head(q).line \notin LinesOf(Tail(q))
         /\ Doable(q) => Doable(Tail(q)) /\ (Head(q).text \/ Head(q).session \in Screens)
  <1> DEFINE u == Tail(q)
  <1>1. u \in Seq(T!Queued) /\ Len(u) = Len(q) - 1 /\ DOMAIN u = 1 .. Len(u)
        /\ DOMAIN q = 1 .. Len(q) /\ Len(q) \in Nat /\ Len(q) # 0 /\ \A i \in DOMAIN u : u[i] = q[i + 1]
        /\ Head(q) = q[1]
    OBVIOUS
  <1>2. 1 \in DOMAIN q /\ \A i \in DOMAIN u : i + 1 \in DOMAIN q /\ i + 1 # 1
    BY <1>1
  <1>3. \A i \in DOMAIN q : i # 1 => i - 1 \in DOMAIN u /\ (i - 1) + 1 = i
    BY <1>1
  <1> HIDE DEF u
  <1>4. LinesOf(q) = LinesOf(u) \cup {Head(q).line}
    <2>1. ASSUME NEW y \in LinesOf(q) PROVE y \in LinesOf(u) \cup {Head(q).line}
      <3>1. PICK i \in DOMAIN q : y = q[i].line
        BY <2>1 DEF LinesOf
      <3>2. CASE i = 1
        BY <3>1, <3>2, <1>1
      <3>3. CASE i # 1
        <4>1. i - 1 \in DOMAIN u /\ u[i - 1] = q[i]
          BY <3>3, <1>1, <1>3
        <4> QED
          BY <4>1, <3>1 DEF LinesOf
      <3> QED
        BY <3>2, <3>3
    <2>2. ASSUME NEW y \in LinesOf(u) PROVE y \in LinesOf(q)
      BY <1>1, <1>2 DEF LinesOf
    <2>3. Head(q).line \in LinesOf(q)
      BY <1>1, <1>2 DEF LinesOf
    <2> QED
      BY <2>1, <2>2, <2>3
  <1>5. EachOnce(q) => EachOnce(u) /\ Head(q).line \notin LinesOf(u)
    <2> SUFFICES ASSUME EachOnce(q) PROVE EachOnce(u) /\ Head(q).line \notin LinesOf(u)
      OBVIOUS
    <2>1. \A i \in DOMAIN u : u[i].line # Head(q).line
      BY <1>1, <1>2 DEF EachOnce
    <2>2. ASSUME NEW i \in DOMAIN u, NEW j \in DOMAIN u, u[i].line = u[j].line PROVE i = j
      <3>1. i + 1 = j + 1
        BY <2>2, <1>1, <1>2 DEF EachOnce
      <3> QED
        BY <3>1, <1>1
    <2> QED
      BY <2>1, <2>2 DEF EachOnce, LinesOf
  <1>6. Doable(q) => Doable(u) /\ (Head(q).text \/ Head(q).session \in Screens)
    BY <1>1, <1>2 DEF Doable
  <1>7. Head(q) \in T!Queued
    BY <1>1, <1>2
  <1> QED
    BY <1>1, <1>4, <1>5, <1>6, <1>7 DEF u

\* A line taken back from the end of the queue.
LEMMA LinesFront ==
  ASSUME NEW q \in Seq(T!Queued), q # <<>>
  PROVE  /\ T!Front(q) \in Seq(T!Queued) /\ T!Last(q) \in T!Queued
         /\ LinesOf(q) = LinesOf(T!Front(q)) \cup {T!Last(q).line}
         /\ EachOnce(q) => EachOnce(T!Front(q)) /\ T!Last(q).line \notin LinesOf(T!Front(q))
         /\ Doable(q) => Doable(T!Front(q))
  <1> DEFINE u == T!Front(q)
  <1>0. DOMAIN q = 1 .. Len(q) /\ Len(q) \in Nat /\ Len(q) # 0
    OBVIOUS
  <1>1. u \in Seq(T!Queued) /\ Len(u) = Len(q) - 1 /\ DOMAIN u = 1 .. Len(u) /\ DOMAIN q = 1 .. Len(q)
        /\ Len(q) \in Nat /\ Len(q) # 0 /\ \A i \in DOMAIN u : u[i] = q[i]
    BY <1>0 DEF T!Front
  <1>2. \A i \in DOMAIN u : i \in DOMAIN q /\ i # Len(q)
    BY <1>1
  <1>3. \A i \in DOMAIN q : i = Len(q) \/ i \in DOMAIN u
    BY <1>1
  <1>4. Len(q) \in DOMAIN q
    BY <1>1
  <1> HIDE DEF u
  <1>5. LinesOf(q) = LinesOf(u) \cup {T!Last(q).line}
    <2>1. ASSUME NEW y \in LinesOf(q) PROVE y \in LinesOf(u) \cup {T!Last(q).line}
      BY <1>1, <1>3 DEF LinesOf, T!Last
    <2>2. ASSUME NEW y \in LinesOf(u) PROVE y \in LinesOf(q)
      BY <1>1, <1>2 DEF LinesOf
    <2>3. T!Last(q).line \in LinesOf(q)
      BY <1>4 DEF LinesOf, T!Last
    <2> QED
      BY <2>1, <2>2, <2>3
  <1>6. EachOnce(q) => EachOnce(u) /\ T!Last(q).line \notin LinesOf(u)
    BY <1>1, <1>2, <1>4 DEF LinesOf, T!Last, EachOnce
  <1>7. T!Last(q) \in T!Queued
    BY <1>4 DEF T!Last
  <1>8. Doable(q) => Doable(u)
    BY <1>1, <1>2 DEF Doable
  <1> QED
    BY <1>1, <1>5, <1>6, <1>7, <1>8 DEF u

\* Lines put back at the front of the queue.
LEMMA LinesBack ==
  ASSUME NEW p \in Seq(Nat), NEW q \in Seq(T!Queued)
  PROVE  /\ T!Texts(p) \o q \in Seq(T!Queued)
         /\ LinesOf(T!Texts(p) \o q) = T!ToSet(p) \cup LinesOf(q)
         /\ T!IsInjective(p) /\ EachOnce(q) /\ T!ToSet(p) \cap LinesOf(q) = {} => EachOnce(T!Texts(p) \o q)
         /\ Doable(q) => Doable(T!Texts(p) \o q)
  <1> DEFINE t == T!Texts(p)
             u == t \o q
  <1>1. t \in Seq(T!Queued) /\ Len(t) = Len(p) /\ DOMAIN t = 1 .. Len(p) /\ DOMAIN p = 1 .. Len(p)
        /\ Len(p) \in Nat
    <2>1. DOMAIN p = 1 .. Len(p) /\ Len(p) \in Nat /\ \A i \in DOMAIN p : p[i] \in Nat
      OBVIOUS
    <2>2. \A i \in 1 .. Len(p) : [text |-> TRUE, line |-> p[i], session |-> NoValue] \in T!Queued
      BY <2>1 DEF T!Queued
    <2> QED
      BY <2>1, <2>2 DEF T!Texts
  <1>2. \A i \in DOMAIN p : t[i].line = p[i] /\ t[i].text = TRUE
    BY DEF T!Texts
  <1> HIDE DEF t
  <1>3. u \in Seq(T!Queued) /\ Len(u) = Len(p) + Len(q) /\ DOMAIN u = 1 .. Len(u)
        /\ DOMAIN q = 1 .. Len(q) /\ Len(q) \in Nat
    BY <1>1
  <1>4. \A i \in DOMAIN u : u[i] = IF i \in DOMAIN p THEN t[i] ELSE q[i - Len(p)]
    BY <1>1, <1>3
  <1> HIDE DEF u
  <1>5. \A i \in DOMAIN p : i \in DOMAIN u /\ u[i].line = p[i] /\ u[i].text = TRUE
    BY <1>1, <1>2, <1>3, <1>4
  <1>6. \A i \in DOMAIN q : i + Len(p) \in DOMAIN u /\ i + Len(p) \notin DOMAIN p
                            /\ u[i + Len(p)] = q[i]
    BY <1>1, <1>3, <1>4
  <1>7. \A i \in DOMAIN u : i \notin DOMAIN p => i - Len(p) \in DOMAIN q /\ u[i] = q[i - Len(p)]
    BY <1>1, <1>3, <1>4
  <1>8. LinesOf(u) = T!ToSet(p) \cup LinesOf(q)
    <2>1. ASSUME NEW y \in LinesOf(u) PROVE y \in T!ToSet(p) \cup LinesOf(q)
      BY <1>5, <1>7 DEF LinesOf, T!ToSet
    <2>2. ASSUME NEW y \in T!ToSet(p) PROVE y \in LinesOf(u)
      BY <1>5 DEF LinesOf, T!ToSet
    <2>3. ASSUME NEW y \in LinesOf(q) PROVE y \in LinesOf(u)
      BY <1>6 DEF LinesOf
    <2> QED
      BY <2>1, <2>2, <2>3
  <1>9. ASSUME T!IsInjective(p), EachOnce(q), T!ToSet(p) \cap LinesOf(q) = {} PROVE EachOnce(u)
    <2> SUFFICES ASSUME NEW i \in DOMAIN u, NEW j \in DOMAIN u, u[i].line = u[j].line PROVE i = j
      BY DEF EachOnce
    <2>1. CASE i \in DOMAIN p /\ j \in DOMAIN p
      BY <2>1, <1>5, <1>9 DEF T!IsInjective
    <2>2. CASE i \in DOMAIN p /\ j \notin DOMAIN p
      <3>1. u[i].line \in T!ToSet(p) /\ u[j].line \in LinesOf(q)
        BY <2>2, <1>5, <1>7 DEF T!ToSet, LinesOf
      <3> QED
        BY <3>1, <1>9
    <2>3. CASE i \notin DOMAIN p /\ j \in DOMAIN p
      <3>1. u[j].line \in T!ToSet(p) /\ u[i].line \in LinesOf(q)
        BY <2>3, <1>5, <1>7 DEF T!ToSet, LinesOf
      <3> QED
        BY <3>1, <1>9
    <2>4. CASE i \notin DOMAIN p /\ j \notin DOMAIN p
      <3>1. i - Len(p) = j - Len(p)
        BY <2>4, <1>7, <1>9 DEF EachOnce
      <3> QED
        BY <3>1, <1>1, <1>3
    <2> QED
      BY <2>1, <2>2, <2>3, <2>4
  <1>10. Doable(q) => Doable(u)
    BY <1>5, <1>7 DEF Doable
  <1> QED
    BY <1>3, <1>8, <1>9, <1>10 DEF u, t

\* What of a log comes after a cursor.
LEMMA RestIs ==
  ASSUME NEW Els, NEW s \in Seq(Els), NEW n \in 0 .. Len(s)
  PROVE  /\ SubSeq(s, n + 1, Len(s)) \in Seq(Els) /\ Len(SubSeq(s, n + 1, Len(s))) = Len(s) - n
         /\ \A i \in 1 .. Len(s) - n : SubSeq(s, n + 1, Len(s))[i] = s[i + n]
  <1> DEFINE b == SubSeq(s, n + 1, Len(s))
  <1>1. Len(s) \in Nat /\ n \in Nat /\ n <= Len(s)
    OBVIOUS
  <1>2. n + 1 \in 1 .. Len(s) + 1 /\ Len(s) \in 0 .. Len(s) /\ n + 1 <= Len(s) + 1
    BY <1>1
  <1>3. b \in Seq(Els) /\ Len(b) = Len(s) + 1 - (n + 1)
        /\ \A i \in 1 .. Len(s) + 1 - (n + 1) : b[i] = s[i + (n + 1) - 1]
    BY <1>2, SubSeqIs
  <1>4. PICK l \in Nat : l = Len(s)
    BY <1>1
  <1>5. ASSUME NEW p \in Nat, NEW q \in Nat PROVE q + 1 - (p + 1) = q - p
    OBVIOUS
  <1>6. Len(s) + 1 - (n + 1) = Len(s) - n
    BY <1>4, <1>5, <1>1
  <1>7. \A i \in 1 .. Len(s) - n : i + (n + 1) - 1 = i + n
    BY <1>1
  <1> HIDE DEF b
  <1>8. b \in Seq(Els) /\ Len(b) = Len(s) - n /\ \A i \in 1 .. Len(s) - n : b[i] = s[i + n]
    BY <1>3, <1>6, <1>7
  <1> QED
    BY <1>8 DEF b

\* Sequences of the same length and elements are the same.
LEMMA SameSeq ==
  ASSUME NEW Els, NEW s \in Seq(Els), NEW t \in Seq(Els), Len(s) = Len(t),
         \A i \in 1 .. Len(s) : s[i] = t[i]
  PROVE  s = t
  OBVIOUS

\* A log is what comes up to a cursor and what comes after it.
LEMMA Split ==
  ASSUME NEW Els, NEW s \in Seq(Els), NEW n \in 0 .. Len(s)
  PROVE  /\ SubSeq(s, 1, n) \in Seq(Els) /\ SubSeq(s, n + 1, Len(s)) \in Seq(Els)
         /\ s = SubSeq(s, 1, n) \o SubSeq(s, n + 1, Len(s))
         /\ T!ToSet(s) = T!ToSet(SubSeq(s, 1, n)) \cup T!ToSet(SubSeq(s, n + 1, Len(s)))
  <1> DEFINE a == SubSeq(s, 1, n)
             b == SubSeq(s, n + 1, Len(s))
  <1>1. Len(s) \in Nat /\ n \in Nat /\ n <= Len(s)
    OBVIOUS
  <1>2. a \in Seq(Els) /\ Len(a) = n /\ \A i \in 1 .. n : a[i] = s[i]
    <2>1. n + 1 - 1 = n /\ \A i \in 1 .. n : i + 1 - 1 = i
      BY <1>1
    <2>2. 1 \in 1 .. Len(s) + 1 /\ n \in 0 .. Len(s) /\ 1 <= n + 1
      BY <1>1
    <2>3. a \in Seq(Els) /\ Len(a) = n + 1 - 1 /\ \A i \in 1 .. n + 1 - 1 : a[i] = s[i + 1 - 1]
      BY <2>2, SubSeqIs
    <2> HIDE DEF a
    <2> QED
      BY <2>1, <2>3
  <1>3. b \in Seq(Els) /\ Len(b) = Len(s) - n /\ \A i \in 1 .. Len(s) - n : b[i] = s[i + n]
    BY RestIs
  <1> HIDE DEF a, b
  <1>4. a \o b \in Seq(Els) /\ Len(a \o b) = Len(s)
    <2>1. a \o b \in Seq(Els) /\ Len(a \o b) = Len(a) + Len(b)
      BY <1>2, <1>3, JoinedIs
    <2>2. n + (Len(s) - n) = Len(s)
      BY <1>1
    <2> QED
      BY <2>1, <2>2, <1>2, <1>3
  <1>5. ASSUME NEW i \in 1 .. Len(s) PROVE s[i] = (a \o b)[i]
    <2>1. i \in 1 .. Len(a) + Len(b)
      BY <1>1, <1>2, <1>3
    <2>2. (a \o b)[i] = IF i <= Len(a) THEN a[i] ELSE b[i - Len(a)]
      BY <2>1, <1>2, <1>3, JoinedIs
    <2>3. CASE i <= n
      BY <2>2, <2>3, <1>1, <1>2
    <2>4. CASE ~(i <= n)
      <3>1. i - n \in 1 .. Len(s) - n /\ (i - n) + n = i
        BY <2>4, <1>1
      <3>2. b[i - n] = s[i]
        BY <3>1, <1>3
      <3> QED
        BY <2>2, <2>4, <3>2, <1>2
    <2> QED
      BY <2>3, <2>4
  <1>6. s = a \o b
    <2>1. \A i \in 1 .. Len(s) : s[i] = (a \o b)[i]
      BY <1>5
    <2> QED
      BY <1>4, <2>1, SameSeq
  <1>7. T!ToSet(a \o b) = T!ToSet(a) \cup T!ToSet(b)
    BY <1>2, <1>3, Joined
  <1>8. T!ToSet(s) = T!ToSet(a) \cup T!ToSet(b)
    BY <1>6, <1>7
  <1> QED
    BY <1>2, <1>3, <1>6, <1>8 DEF a, b

\* An event that is logged is logged after the cursor.
LEMMA RestJoined ==
  ASSUME NEW Els, NEW s \in Seq(Els), NEW t \in Seq(Els), NEW n \in 0 .. Len(s)
  PROVE  SubSeq(s \o t, n + 1, Len(s \o t)) = SubSeq(s, n + 1, Len(s)) \o t
  <1> DEFINE u == s \o t
             a == SubSeq(s, 1, n)
             b == SubSeq(s, n + 1, Len(s))
             c == SubSeq(u, n + 1, Len(u))
  <1>1. Len(s) \in Nat /\ Len(t) \in Nat /\ n \in Nat /\ n <= Len(s)
    OBVIOUS
  <1>2. u \in Seq(Els) /\ Len(u) = Len(s) + Len(t)
        /\ \A i \in 1 .. Len(s) + Len(t) : u[i] = IF i <= Len(s) THEN s[i] ELSE t[i - Len(s)]
    BY JoinedIs
  <1> HIDE DEF u
  <1>3. b \in Seq(Els) /\ Len(b) = Len(s) - n /\ \A i \in 1 .. Len(s) - n : b[i] = s[i + n]
    BY RestIs
  <1>4. c \in Seq(Els) /\ Len(c) = Len(u) - n /\ \A i \in 1 .. Len(u) - n : c[i] = u[i + n]
    BY <1>1, <1>2, RestIs
  <1> HIDE DEF a, b, c
  <1>5. b \o t \in Seq(Els) /\ Len(b \o t) = Len(b) + Len(t)
        /\ \A i \in 1 .. Len(b) + Len(t) : (b \o t)[i] = IF i <= Len(b) THEN b[i] ELSE t[i - Len(b)]
    BY <1>3, JoinedIs
  <1>6. Len(c) = Len(b \o t)
    <2>1. Len(b) + Len(t) = Len(u) - n
      BY <1>1, <1>2, <1>3
    <2> QED
      BY <2>1, <1>4, <1>5
  <1>7. ASSUME NEW i \in 1 .. Len(c) PROVE c[i] = (b \o t)[i]
    <2>1. i \in Nat /\ i >= 1 /\ i <= Len(u) - n /\ i <= Len(b) + Len(t) /\ c[i] = u[i + n]
      BY <1>1, <1>2, <1>3, <1>4, <1>5, <1>6
    <2>2. i + n \in 1 .. Len(s) + Len(t)
      BY <2>1, <1>1, <1>2
    <2>3. u[i + n] = IF i + n <= Len(s) THEN s[i + n] ELSE t[i + n - Len(s)]
      BY <2>2, <1>2
    <2>4. (b \o t)[i] = IF i <= Len(b) THEN b[i] ELSE t[i - Len(b)]
      <3>1. i \in 1 .. Len(b) + Len(t)
        BY <2>1, <1>1, <1>3
      <3> QED
        BY <3>1, <1>5
    <2>5. CASE i + n <= Len(s)
      <3>1. i \in 1 .. Len(s) - n /\ i <= Len(b)
        BY <2>1, <2>5, <1>1, <1>3
      <3>2. b[i] = s[i + n]
        BY <3>1, <1>3
      <3> QED
        BY <2>1, <2>3, <2>4, <2>5, <3>1, <3>2
    <2>6. CASE ~(i + n <= Len(s))
      <3>1. ~(i <= Len(b)) /\ i - Len(b) = i + n - Len(s)
        BY <2>1, <2>6, <1>1, <1>3
      <3> QED
        BY <2>1, <2>3, <2>4, <2>6, <3>1
    <2> QED
      BY <2>5, <2>6
  <1>8. c = b \o t
    <2>1. \A i \in 1 .. Len(c) : c[i] = (b \o t)[i]
      BY <1>7
    <2> QED
      BY <1>4, <1>5, <1>6, <2>1, SameSeq
  <1> QED
    BY <1>8 DEF b, c, u

\* What a sequence holds is its head and what its tail holds.
LEMMA HeadTail ==
  ASSUME NEW Els, NEW w \in Seq(Els), w # <<>>
  PROVE  /\ Head(w) \in Els /\ Tail(w) \in Seq(Els) /\ Len(w) # 0 /\ Len(Tail(w)) = Len(w) - 1
         /\ T!ToSet(w) = {Head(w)} \cup T!ToSet(Tail(w))
         /\ Head(w) = w[1] /\ \A i \in 1 .. Len(w) - 1 : Tail(w)[i] = w[i + 1]
  <1> DEFINE u == Tail(w)
  <1>1. u \in Seq(Els) /\ Len(u) = Len(w) - 1 /\ DOMAIN u = 1 .. Len(u)
        /\ DOMAIN w = 1 .. Len(w) /\ Len(w) \in Nat /\ Len(w) # 0 /\ \A i \in DOMAIN u : u[i] = w[i + 1]
        /\ Head(w) = w[1]
    OBVIOUS
  <1>2. 1 \in DOMAIN w /\ \A i \in DOMAIN u : i + 1 \in DOMAIN w
    BY <1>1
  <1>3. \A i \in DOMAIN w : i # 1 => i - 1 \in DOMAIN u /\ (i - 1) + 1 = i
    BY <1>1
  <1> HIDE DEF u
  <1>4. T!ToSet(w) = {Head(w)} \cup T!ToSet(u)
    <2>1. ASSUME NEW y \in T!ToSet(w) PROVE y \in {Head(w)} \cup T!ToSet(u)
      <3>1. PICK i \in DOMAIN w : y = w[i]
        BY <2>1 DEF T!ToSet
      <3>2. CASE i = 1
        BY <3>1, <3>2, <1>1
      <3>3. CASE i # 1
        <4>1. i - 1 \in DOMAIN u /\ u[i - 1] = w[i]
          BY <3>3, <1>1, <1>3
        <4> QED
          BY <4>1, <3>1 DEF T!ToSet
      <3> QED
        BY <3>2, <3>3
    <2>2. ASSUME NEW y \in T!ToSet(u) PROVE y \in T!ToSet(w)
      BY <1>1, <1>2 DEF T!ToSet
    <2>3. Head(w) \in T!ToSet(w)
      BY <1>1, <1>2 DEF T!ToSet
    <2> QED
      BY <2>1, <2>2, <2>3
  <1>5. Head(w) \in Els
    BY <1>1, <1>2
  <1> QED
    BY <1>1, <1>4, <1>5 DEF u

\* When the cursor moves on, the head of the rest is behind it.
LEMMA Took ==
  ASSUME NEW Els, NEW s \in Seq(Els), NEW n \in 0 .. Len(s), NEW w, w = SubSeq(s, n + 1, Len(s)), w # <<>>
  PROVE  /\ n + 1 \in 0 .. Len(s) /\ Tail(w) = SubSeq(s, n + 1 + 1, Len(s))
         /\ SubSeq(s, 1, n + 1) = SubSeq(s, 1, n) \o <<Head(w)>>
  <1>1. Len(s) \in Nat /\ n \in Nat /\ n <= Len(s)
    OBVIOUS
  <1>2. w \in Seq(Els) /\ Len(w) = Len(s) - n /\ \A i \in 1 .. Len(s) - n : w[i] = s[i + n]
    BY RestIs
  <1>3. /\ Tail(w) \in Seq(Els) /\ Len(w) # 0 /\ Len(Tail(w)) = Len(w) - 1 /\ Head(w) \in Els
        /\ Head(w) = w[1] /\ \A i \in 1 .. Len(w) - 1 : Tail(w)[i] = w[i + 1]
    BY <1>2, HeadTail
  <1>4. n + 1 \in 0 .. Len(s)
    BY <1>1, <1>2, <1>3
  <1> DEFINE m == n + 1
             b == SubSeq(s, m + 1, Len(s))
             a == SubSeq(s, 1, n)
             c == SubSeq(s, 1, m)
             t == Tail(w)
             h == Head(w)
  <1>5. b \in Seq(Els) /\ Len(b) = Len(s) - m /\ \A i \in 1 .. Len(s) - m : b[i] = s[i + m]
    <2> HIDE DEF m
    <2> QED
      BY <1>4, RestIs DEF m
  <1>6. a \in Seq(Els) /\ Len(a) = n /\ \A i \in 1 .. n : a[i] = s[i]
    <2>1. n + 1 - 1 = n /\ \A i \in 1 .. n : i + 1 - 1 = i
      BY <1>1
    <2>2. 1 \in 1 .. Len(s) + 1 /\ n \in 0 .. Len(s) /\ 1 <= n + 1
      BY <1>1
    <2>3. a \in Seq(Els) /\ Len(a) = n + 1 - 1 /\ \A i \in 1 .. n + 1 - 1 : a[i] = s[i + 1 - 1]
      BY <2>2, SubSeqIs
    <2> HIDE DEF a
    <2> QED
      BY <2>1, <2>3
  <1>7. m \in Nat /\ m = n + 1 /\ m <= Len(s)
    BY <1>1, <1>4
  <1>8. c \in Seq(Els) /\ Len(c) = m /\ \A i \in 1 .. m : c[i] = s[i]
    <2> HIDE DEF m
    <2>1. m + 1 - 1 = m /\ \A i \in 1 .. m : i + 1 - 1 = i
      BY <1>7
    <2>2. 1 \in 1 .. Len(s) + 1 /\ m \in 0 .. Len(s) /\ 1 <= m + 1
      BY <1>7, <1>1
    <2>3. c \in Seq(Els) /\ Len(c) = m + 1 - 1 /\ \A i \in 1 .. m + 1 - 1 : c[i] = s[i + 1 - 1]
      BY <2>2, SubSeqIs
    <2> HIDE DEF c
    <2> QED
      BY <2>1, <2>3
  <1> HIDE DEF a, b, c, m, t, h
  <1>9. t = b
    <2>1. t \in Seq(Els) /\ Len(t) = Len(w) - 1 /\ \A i \in 1 .. Len(w) - 1 : t[i] = w[i + 1]
      BY <1>3 DEF t
    <2>2. Len(t) = Len(b) /\ Len(w) - 1 = Len(s) - m
      BY <2>1, <1>1, <1>2, <1>5, <1>7
    <2>3. ASSUME NEW i \in 1 .. Len(t) PROVE t[i] = b[i]
      <3>1. i \in 1 .. Len(w) - 1 /\ i \in 1 .. Len(s) - m /\ i + 1 \in 1 .. Len(s) - n
            /\ i + 1 + n = i + m
        BY <2>1, <2>2, <1>1, <1>2, <1>7
      <3> QED
        BY <3>1, <2>1, <1>2, <1>5
    <2>4. \A i \in 1 .. Len(t) : t[i] = b[i]
      BY <2>3
    <2> QED
      BY <2>1, <2>2, <2>4, <1>5, SameSeq
  <1>10. c = a \o <<h>>
    <2>5. h \in Els /\ h = w[1]
      BY <1>3 DEF h
    <2>6. 1 \in 1 .. Len(s) - n /\ 1 + n = m
      BY <1>1, <1>7
    <2>7. w[1] = s[m]
      BY <2>6, <1>2
    <2>1. <<h>> \in Seq(Els) /\ Len(<<h>>) = 1 /\ <<h>>[1] = h /\ h = s[m]
      BY <2>5, <2>7
    <2>2. a \o <<h>> \in Seq(Els) /\ Len(a \o <<h>>) = n + 1
          /\ \A i \in 1 .. n + 1 : (a \o <<h>>)[i] = IF i <= n THEN a[i] ELSE <<h>>[i - n]
      BY <2>1, <1>6, JoinedIs
    <2>3. ASSUME NEW i \in 1 .. m PROVE c[i] = (a \o <<h>>)[i]
      <3>1. c[i] = s[i] /\ (a \o <<h>>)[i] = IF i <= n THEN a[i] ELSE <<h>>[i - n]
        BY <2>2, <1>7, <1>8
      <3>2. CASE i <= n
        BY <3>1, <3>2, <1>1, <1>6
      <3>3. CASE ~(i <= n)
        <4>1. i = m /\ i - n = 1
          BY <3>3, <1>1, <1>7
        <4> QED
          BY <4>1, <3>1, <3>3, <2>1
      <3> QED
        BY <3>2, <3>3
    <2>4. Len(c) = Len(a \o <<h>>) /\ \A i \in 1 .. Len(c) : c[i] = (a \o <<h>>)[i]
      BY <2>2, <2>3, <1>7, <1>8
    <2> QED
      BY <2>2, <2>4, <1>8, SameSeq
  <1> QED
    BY <1>4, <1>9, <1>10 DEF a, b, c, m, t, h

\* The events that tell of messages given to the model.
LEMMA MessagesOf ==
  ASSUME T!Assumptions, NEW q \in Seq(Nat)
  PROVE  LET events == [i \in DOMAIN q |-> T!Steered(q[i])]
         IN /\ events \in Seq(T!Events) /\ ~T!TellsTurn(events)
            /\ \A l \in T!ToSet(q) : T!Steered(l) \in T!ToSet(events)
            /\ \A e \in T!ToSet(events) : e.line \in T!ToSet(q)
  <1> DEFINE events == [i \in DOMAIN q |-> T!Steered(q[i])]
  <1>1. DOMAIN q = 1 .. Len(q) /\ Len(q) \in Nat /\ \A i \in DOMAIN q : q[i] \in Nat
    OBVIOUS
  <1>2. \A i \in 1 .. Len(q) : T!Steered(q[i]) \in T!Events
    BY <1>1 DEF T!Steered, T!Events
  <1>3. events \in Seq(T!Events) /\ DOMAIN events = DOMAIN q
    BY <1>1, <1>2
  <1>4. \A i \in DOMAIN q : events[i] = T!Steered(q[i]) /\ events[i].line = q[i]
                            /\ events[i].type = "user_message"
    BY DEF T!Steered
  <1> HIDE DEF events
  <1>5. ~T!TellsTurn(events)
    BY <1>3, <1>4 DEF T!TellsTurn, T!ToSet
  <1>6. \A l \in T!ToSet(q) : T!Steered(l) \in T!ToSet(events)
    BY <1>3, <1>4 DEF T!ToSet
  <1>7. \A e \in T!ToSet(events) : e.line \in T!ToSet(q)
    BY <1>3, <1>4 DEF T!ToSet
  <1> QED
    BY <1>3, <1>5, <1>6, <1>7 DEF events

\* What a model got twice is excused.
OnceBut(p, X) == \A i, j \in DOMAIN p : i # j /\ p[i] = p[j] => p[i] \in X

\* Lines given to a model after those it has got.
LEMMA GivenTogether ==
  ASSUME NEW p \in Seq(Nat), NEW q \in Seq(Nat), NEW X, OnceBut(p, X), T!IsInjective(q),
         \A l \in T!ToSet(p) : l \in T!ToSet(q) => l \in X
  PROVE  OnceBut(p \o q, X)
  <1> DEFINE u == p \o q
  <1>1. u \in Seq(Nat) /\ DOMAIN u = 1 .. Len(p) + Len(q) /\ Len(p) \in Nat /\ Len(q) \in Nat
        /\ DOMAIN p = 1 .. Len(p) /\ DOMAIN q = 1 .. Len(q)
        /\ \A i \in DOMAIN u : u[i] = IF i \in DOMAIN p THEN p[i] ELSE q[i - Len(p)]
    OBVIOUS
  <1> HIDE DEF u
  <1>2. \A i \in DOMAIN u : i \notin DOMAIN p => i - Len(p) \in DOMAIN q /\ u[i] = q[i - Len(p)]
    BY <1>1
  <1>3. \A i \in DOMAIN p : i \in DOMAIN u => u[i] = p[i]
    BY <1>1
  <1>4. ASSUME NEW i \in DOMAIN u, NEW j \in DOMAIN u, i # j, u[i] = u[j] PROVE u[i] \in X
    <2>1. CASE i \in DOMAIN p /\ j \in DOMAIN p
      BY <2>1, <1>3, <1>4 DEF OnceBut
    <2>2. CASE i \in DOMAIN p /\ j \notin DOMAIN p
      <3>1. u[i] \in T!ToSet(p) /\ u[j] \in T!ToSet(q)
        BY <2>2, <1>2, <1>3 DEF T!ToSet
      <3> QED
        BY <3>1, <1>4
    <2>3. CASE i \notin DOMAIN p /\ j \in DOMAIN p
      <3>1. u[j] \in T!ToSet(p) /\ u[i] \in T!ToSet(q)
        BY <2>3, <1>2, <1>3 DEF T!ToSet
      <3> QED
        BY <3>1, <1>4
    <2>4. CASE i \notin DOMAIN p /\ j \notin DOMAIN p
      <3>1. i - Len(p) = j - Len(p)
        BY <2>4, <1>2, <1>4 DEF T!IsInjective
      <3>2. i = j
        BY <3>1, <1>1
      <3> QED
        BY <3>2, <1>4
    <2> QED
      BY <2>1, <2>2, <2>3, <2>4
  <1> QED
    BY <1>4 DEF u, OnceBut

\* NoValue is none of the values it stands beside.
LEMMA Nones ==
  ASSUME T!Assumptions
  PROVE  /\ NoValue \notin Nat /\ NoValue \notin Screens
         /\ NoValue # "own" /\ NoValue # "other" /\ NoValue # "local" /\ NoValue # "remote"
         /\ NoValue # "idle" /\ NoValue # "steered"
  BY DEF T!Assumptions

\* The log of the session on the screen, before and after the cursor.
LEMMA UnseenIs ==
  ASSUME T!TypeOK, T!StreamFits
  PROVE  /\ x7 \in 0 .. Len(x3[x6]) /\ T!Unseen \in Seq(T!Events) /\ x3[x6] \in Seq(T!Events)
         /\ SubSeq(x3[x6], 1, x7) \in Seq(T!Events)
         /\ x3[x6] = SubSeq(x3[x6], 1, x7) \o T!Unseen
         /\ T!ToSet(x3[x6]) = T!ToSet(SubSeq(x3[x6], 1, x7)) \cup T!ToSet(T!Unseen)
  <1>1. x3[x6] \in Seq(T!Events) /\ x7 \in Nat /\ x7 <= Len(x3[x6])
    BY DEF T!TypeOK, T!StreamFits
  <1>2. x7 \in 0 .. Len(x3[x6])
    BY <1>1
  <1> QED
    BY <1>1, <1>2, Split DEF T!Unseen

\* What an event adds to the logs and to what the client has not handled.
LEMMA Emitted ==
  ASSUME T!TypeOK, T!StreamFits, NEW s \in Screens, NEW events \in Seq(T!Events),
         T!Emit(s, events), UNCHANGED <<x6, x7, x8>>
  PROVE  /\ x3' \in [Screens -> Seq(T!Events)] /\ x9' \in Seq(T!Events)
         /\ x3'[s] = x3[s] \o events /\ \A t \in Screens : t # s => x3'[t] = x3[t]
         /\ \A t \in Screens : /\ T!ToSet(x3[t]) \subseteq T!ToSet(x3'[t])
                               /\ T!ToSet(x3'[t]) \subseteq T!ToSet(x3[t]) \cup T!ToSet(events)
                               /\ Len(x3[t]) <= Len(x3'[t])
                               /\ T!TellsTurn(x3[t]) => T!TellsTurn(x3'[t])
         /\ T!ToSet(events) \subseteq T!ToSet(x3'[s])
         /\ T!ToSet(T!Unseen) \subseteq T!ToSet(T!Unseen')
         /\ s = x6 => T!ToSet(events) \subseteq T!ToSet(T!Unseen')
         /\ T!TellsTurn(T!Unseen') <=> T!TellsTurn(T!Unseen) \/ (s = x6 /\ T!TellsTurn(events))
         /\ x7' <= Len(x3'[x6']) /\ x9' = (IF x8' THEN T!Unseen' ELSE <<>>)
  <1>1. /\ x3 \in [Screens -> Seq(T!Events)] /\ x9 \in Seq(T!Events) /\ x6 \in Screens
        /\ x7 \in Nat /\ x7 <= Len(x3[x6]) /\ x9 = (IF x8 THEN T!Unseen ELSE <<>>)
    BY DEF T!TypeOK, T!StreamFits
  <1>2. /\ x3' = [x3 EXCEPT ![s] = @ \o events] /\ x6' = x6 /\ x7' = x7 /\ x8' = x8
        /\ x9' = IF x8 /\ x6 = s THEN x9 \o events ELSE x9
    BY DEF T!Emit
  <1>3. x3[s] \o events \in Seq(T!Events) /\ Len(x3[s] \o events) = Len(x3[s]) + Len(events)
        /\ T!ToSet(x3[s] \o events) = T!ToSet(x3[s]) \cup T!ToSet(events)
    BY <1>1, Joined, JoinedIs
  <1>4. x3' \in [Screens -> Seq(T!Events)] /\ x3'[s] = x3[s] \o events
        /\ \A t \in Screens : t # s => x3'[t] = x3[t]
    BY <1>1, <1>2, <1>3
  <1>5. ASSUME NEW t \in Screens
        PROVE  /\ T!ToSet(x3[t]) \subseteq T!ToSet(x3'[t]) /\ Len(x3[t]) <= Len(x3'[t])
               /\ T!ToSet(x3'[t]) \subseteq T!ToSet(x3[t]) \cup T!ToSet(events)
    <2>1. CASE t = s
      <3>1. Len(x3[s]) \in Nat /\ Len(events) \in Nat
        BY <1>1
      <3> QED
        BY <2>1, <3>1, <1>3, <1>4
    <2>2. CASE t # s
      <3>1. Len(x3[t]) \in Nat /\ x3'[t] = x3[t]
        BY <1>1, <1>4, <2>2
      <3> QED
        BY <3>1
    <2> QED
      BY <2>1, <2>2
  <1>6. \A t \in Screens : T!TellsTurn(x3[t]) => T!TellsTurn(x3'[t])
    BY <1>5 DEF T!TellsTurn
  <1>7. T!Unseen' = IF s = x6 THEN T!Unseen \o events ELSE T!Unseen
    <2>1. CASE s = x6
      <3>1. x7 \in 0 .. Len(x3[s]) /\ x3[s] \in Seq(T!Events)
        BY <1>1, <2>1
      <3>2. T!Unseen' = SubSeq(x3[s] \o events, x7 + 1, Len(x3[s] \o events))
        BY <2>1, <1>2, <1>4 DEF T!Unseen
      <3>3. T!Unseen = SubSeq(x3[s], x7 + 1, Len(x3[s]))
        BY <2>1 DEF T!Unseen
      <3> QED
        BY <2>1, <3>1, <3>2, <3>3, RestJoined
    <2>2. CASE s # x6
      BY <2>2, <1>1, <1>2, <1>4 DEF T!Unseen
    <2> QED
      BY <2>1, <2>2
  <1>8. T!Unseen \in Seq(T!Events)
    BY UnseenIs
  <1>9. T!ToSet(T!Unseen \o events) = T!ToSet(T!Unseen) \cup T!ToSet(events)
    BY <1>8, Joined
  <1>10. /\ T!ToSet(T!Unseen) \subseteq T!ToSet(T!Unseen')
         /\ s = x6 => T!ToSet(events) \subseteq T!ToSet(T!Unseen')
         /\ T!TellsTurn(T!Unseen') <=> T!TellsTurn(T!Unseen) \/ (s = x6 /\ T!TellsTurn(events))
    <2>1. CASE s = x6
      BY <2>1, <1>7, <1>9 DEF T!TellsTurn
    <2>2. CASE s # x6
      BY <2>2, <1>7 DEF T!TellsTurn
    <2> QED
      BY <2>1, <2>2
  <1>11. x9' = (IF x8' THEN T!Unseen' ELSE <<>>)
    BY <1>1, <1>2, <1>7
  <1>12. x9' \in Seq(T!Events)
    <2>1. x9 \o events \in Seq(T!Events)
      BY <1>1, JoinedIs
    <2> QED
      BY <2>1, <1>1, <1>2
  <1>13. x7' <= Len(x3'[x6'])
    <2>1. Len(x3[x6]) <= Len(x3'[x6]) /\ Len(x3[x6]) \in Nat /\ Len(x3'[x6]) \in Nat
      BY <1>1, <1>4, <1>5
    <2> QED
      BY <2>1, <1>1, <1>2
  <1> QED
    BY <1>3, <1>4, <1>5, <1>6, <1>10, <1>11, <1>12, <1>13

\* No line waits twice at the server.
WaitOnce == \A s, t \in Screens : \A i \in DOMAIN x2[s], j \in DOMAIN x2[t] :
                x2[s][i] = x2[t][j] => s = t /\ i = j

\* The same of each session and of two.
LEMMA WaitOnceIs ==
  ASSUME T!ServerHasOne
  PROVE  /\ WaitOnce
         /\ \A s \in Screens : T!IsInjective(x2[s])
         /\ \A s, t \in Screens : \A l \in T!ToSet(x2[s]) : l \in T!ToSet(x2[t]) => s = t
  <1>1. WaitOnce
    BY DEF T!ServerHasOne, WaitOnce
  <1>2. ASSUME NEW s \in Screens PROVE T!IsInjective(x2[s])
    BY <1>1 DEF WaitOnce, T!IsInjective
  <1>3. ASSUME NEW s \in Screens, NEW t \in Screens, NEW l \in T!ToSet(x2[s]), l \in T!ToSet(x2[t])
        PROVE  s = t
    BY <1>1, <1>3 DEF WaitOnce, T!ToSet
  <1> QED
    BY <1>1, <1>2, <1>3

\* A session whose waiting messages were given or dropped.
LEMMA Emptied ==
  ASSUME T!TypeOK, T!ServerHasOne, NEW s \in Screens, x2' = [x2 EXCEPT ![s] = <<>>]
  PROVE  /\ x2' \in [Screens -> Seq(Nat)] /\ WaitOnce'
         /\ T!ToSet(x2[s]) \subseteq T!Waits /\ T!Waits' \subseteq T!Waits
         /\ T!Waits \subseteq T!Waits' \cup T!ToSet(x2[s]) /\ T!Waits' \cap T!ToSet(x2[s]) = {}
         /\ \A t \in Screens : \A l \in T!Waits' : l \in T!ToSet(x2[t]) => l \in T!ToSet(x2'[t])
  <1>1. x2 \in [Screens -> Seq(Nat)]
    BY DEF T!TypeOK
  <1>2. <<>> \in Seq(Nat)
    OBVIOUS
  <1>3. x2' \in [Screens -> Seq(Nat)] /\ x2'[s] = <<>>
        /\ \A t \in Screens : t # s => x2'[t] = x2[t]
    BY <1>1, <1>2
  <1>4. WaitOnce /\ \A t, u \in Screens : \A l \in T!ToSet(x2[t]) : l \in T!ToSet(x2[u]) => t = u
    BY WaitOnceIs
  <1>5. DOMAIN x2'[s] = {} /\ T!ToSet(x2'[s]) = {}
    <2>1. DOMAIN <<>> = {}
      OBVIOUS
    <2> QED
      BY <2>1, <1>3 DEF T!ToSet
  <1>6. WaitOnce'
    BY <1>3, <1>4, <1>5 DEF WaitOnce
  <1>7. ASSUME NEW l \in T!Waits' PROVE \E t \in Screens : t # s /\ l \in T!ToSet(x2'[t]) /\ l \in T!ToSet(x2[t])
    BY <1>3, <1>5 DEF T!Waits
  <1>8. ASSUME NEW l \in T!Waits PROVE l \in T!Waits' \cup T!ToSet(x2[s])
    BY <1>3 DEF T!Waits
  <1>9. T!ToSet(x2[s]) \subseteq T!Waits /\ T!Waits' \subseteq T!Waits
    BY <1>7 DEF T!Waits
  <1>10. T!Waits' \cap T!ToSet(x2[s]) = {}
    BY <1>7, <1>4
  <1>11. \A t \in Screens : \A l \in T!Waits' : l \in T!ToSet(x2[t]) => l \in T!ToSet(x2'[t])
    BY <1>4, <1>7
  <1> QED
    BY <1>3, <1>6, <1>8, <1>9, <1>10, <1>11

\* The bounds stay numbers.
LEMMA Counted ==
  ASSUME T!TypeOK, NEW what \in {"others", "failures", "drops", "pops"}, T!Count(what)
  PROVE  x23' \in [{"others", "failures", "drops", "pops"} -> Nat]
  <1> DEFINE all == {"others", "failures", "drops", "pops"}
  <1>1. x23 \in [all -> Nat] /\ x23' = [x23 EXCEPT ![what] = @ + 1] /\ what \in all
    BY DEF T!TypeOK, T!Count
  <1> HIDE DEF all
  <1>2. x23[what] + 1 \in Nat
    BY <1>1
  <1>3. x23' \in [all -> Nat]
    BY <1>1, <1>2
  <1> QED
    BY <1>3 DEF all

\* Longer logs do not disturb a client that asked for one.
LEMMA HydrateFits ==
  ASSUME T!TypeOK, T!LoopsFit, T!StreamFits, UNCHANGED <<x14, x8>>, x3' \in [Screens -> Seq(T!Events)],
         \A t \in Screens : Len(x3[t]) <= Len(x3'[t]) /\ (T!TellsTurn(x3[t]) => T!TellsTurn(x3'[t]))
  PROVE  x14'.pc = "hydrate" =>
           /\ ~x8'
           /\ x14'.seen # NoValue => x14'.seen <= Len(x3'[x14'.session])
           /\ x14'.status # NoValue /\ x14'.status = TRUE => T!TellsTurn(x3'[x14'.session])
  <1> SUFFICES ASSUME x14.pc = "hydrate"
               PROVE  /\ ~x8
                      /\ x14.seen # NoValue => x14.seen <= Len(x3'[x14.session])
                      /\ x14.status # NoValue /\ x14.status = TRUE => T!TellsTurn(x3'[x14.session])
    OBVIOUS
  <1>1. x14.session \in Screens /\ x14.seen \in Nat \cup {NoValue} /\ x3 \in [Screens -> Seq(T!Events)]
    BY DEF T!LoopsFit, T!TypeOK, T!MainLoops
  <1>2. Len(x3[x14.session]) \in Nat /\ Len(x3'[x14.session]) \in Nat
    BY <1>1
  <1>3. ~x8 /\ (x14.seen # NoValue => x14.seen <= Len(x3[x14.session]))
        /\ (x14.status # NoValue /\ x14.status = TRUE => T!TellsTurn(x3[x14.session]))
    BY DEF T!StreamFits
  <1> QED
    BY <1>1, <1>2, <1>3

\* Each action keeps the invariant: a turn of another client,
LEMMA BeginOtherKeeps ==
  ASSUME T!Assumptions, T!LinesInv, T!BeginOther
  PROVE  T!LinesInv'
  <1>1. /\ T!TypeOK /\ T!LoopsFit /\ T!LinesKnown /\ T!ClientHasOne /\ T!ServerHasOne /\ T!SentOnce
        /\ T!LeftHandsFit /\ T!StreamFits /\ T!TurnFits /\ T!NothingTypedIsLost
    BY DEF T!LinesInv
  <1>2. PICK s \in Screens : /\ x1[s] = NoValue /\ x1' = [x1 EXCEPT ![s] = "other"]
                             /\ T!Emit(s, <<T!Running("other")>>)
    BY DEF T!BeginOther
  <1>3. UNCHANGED <<x2, x4, x14, x21, x22, x5, x6, x7, x8, x10, x11, x12,
                    x13, x15, x16, x17, x18, x19, x20, x24, x25>>
    BY DEF T!BeginOther, T!ClientIdle, T!sessions, T!input, T!localTurn, T!handlers, T!history
  <1>4. NoValue # "own" /\ NoValue # "other"
    BY Nones
  <1>5. T!Running("other") \in T!Events /\ T!Running("other").type = "turn_status" /\ T!Running("other") # T!Ended
    BY <1>4 DEF T!Running, T!Events, T!Ended
  <1> DEFINE events == <<T!Running("other")>>
  <1>6. events \in Seq(T!Events) /\ T!ToSet(events) = {T!Running("other")}
    BY <1>5 DEF T!ToSet
  <1>7. T!TellsTurn(events)
    BY <1>5, <1>6 DEF T!TellsTurn
  <1>8. T!Emit(s, events) /\ UNCHANGED <<x6, x7, x8>>
    BY <1>2, <1>3
  <1>9. /\ x3' \in [Screens -> Seq(T!Events)] /\ x9' \in Seq(T!Events)
        /\ x3'[s] = x3[s] \o events /\ \A t \in Screens : t # s => x3'[t] = x3[t]
    BY <1>1, <1>6, <1>8, Emitted
  <1>10. \A t \in Screens : /\ T!ToSet(x3[t]) \subseteq T!ToSet(x3'[t])
                            /\ T!ToSet(x3'[t]) \subseteq T!ToSet(x3[t]) \cup T!ToSet(events)
                            /\ Len(x3[t]) <= Len(x3'[t])
                            /\ T!TellsTurn(x3[t]) => T!TellsTurn(x3'[t])
    BY <1>1, <1>6, <1>8, Emitted
  <1>11. /\ T!ToSet(T!Unseen) \subseteq T!ToSet(T!Unseen')
         /\ T!TellsTurn(T!Unseen') <=> T!TellsTurn(T!Unseen) \/ (s = x6 /\ T!TellsTurn(events))
         /\ x7' <= Len(x3'[x6']) /\ x9' = (IF x8' THEN T!Unseen' ELSE <<>>)
    BY <1>1, <1>3, <1>6, <1>8, Emitted
  <1>12. T!LastTurn(x3'[s]) = T!Running("other")
    <2>1. x3[s] \in Seq(T!Events)
      BY <1>1 DEF T!TypeOK
    <2> QED
      BY <2>1, <1>5, <1>9, LastTurnNow
  <1> HIDE DEF events
  <1>13. x1' \in [Screens -> {"own", "other", NoValue}] /\ x1'[s] = "other"
         /\ \A t \in Screens : t # s => x1'[t] = x1[t]
    BY <1>1, <1>2 DEF T!TypeOK
  <1>14. T!TypeOK'
    <2>1. x23' \in [{"others", "failures", "drops", "pops"} -> Nat]
      BY <1>1, Counted DEF T!BeginOther
    <2> QED
      BY <1>1, <1>3, <1>9, <1>13, <2>1 DEF T!TypeOK
  <1>15. T!LoopsFit'
    <2>1. \A t \in Screens : x1'[t] = "own" <=> x14.pc = "answer" /\ x14.session = t
      BY <1>1, <1>2, <1>4, <1>13 DEF T!LoopsFit
    <2> QED
      BY <2>1, <1>1, <1>3 DEF T!LoopsFit
  <1>16. T!LinesKnown' /\ T!ClientHasOne' /\ T!NothingTypedIsLost'
    BY <1>1, <1>3 DEF T!LinesKnown, T!ClientHasOne, T!NothingTypedIsLost, T!QueuedLines, T!Waits
  <1>17. T!ServerHasOne'
    <2>1. x13.pc = "steering" => x13.session \in Screens
      BY <1>1 DEF T!LoopsFit
    <2> QED
      BY <2>1, <1>1, <1>3, <1>10 DEF T!ServerHasOne, T!Waits
  <1>18. T!SentOnce'
    BY <1>1, <1>3, <1>11 DEF T!SentOnce, T!GivenOnce, T!ToSend, T!QueuedLines, T!Waits
  <1>19. T!LeftHandsFit'
    <2>1. \A t \in Screens : \A e \in T!ToSet(x3'[t]) : e.type = "user_message" => e.line \in T!ToSet(x4)
      <3> SUFFICES ASSUME NEW t \in Screens, NEW e \in T!ToSet(x3'[t]), e.type = "user_message"
                   PROVE  e.line \in T!ToSet(x4)
        OBVIOUS
      <3>1. e \in T!ToSet(x3[t])
        BY <1>5, <1>6, <1>10
      <3> QED
        BY <3>1, <1>1 DEF T!LeftHandsFit
    <2> QED
      BY <2>1, <1>1, <1>3 DEF T!LeftHandsFit, T!Waits
  <1>20. T!StreamFits'
    <2>1. x14.pc = "hydrate" => /\ ~x8
                                /\ x14.seen # NoValue => x14.seen <= Len(x3'[x14.session])
                                /\ x14.status # NoValue /\ x14.status = TRUE => T!TellsTurn(x3'[x14.session])
      BY <1>1, <1>3, <1>9, <1>10, HydrateFits
    <2>2. ASSUME NEW t \in Screens
          PROVE  T!LastTurn(x3'[t]) = IF x1'[t] = NoValue THEN T!Ended ELSE T!Running(x1'[t])
      BY <1>1, <1>4, <1>9, <1>12, <1>13 DEF T!StreamFits
    <2> QED
      BY <2>1, <2>2, <1>3, <1>11 DEF T!StreamFits
  <1>21. T!TurnFits'
    <2>1. ~T!TellsTurn(T!Unseen') => ~T!TellsTurn(T!Unseen) /\ x1'[x6] = x1[x6]
      <3>1. x6 \in Screens
        BY <1>1 DEF T!TypeOK
      <3> QED
        BY <3>1, <1>7, <1>11, <1>13
    <2> QED
      BY <2>1, <1>1, <1>3 DEF T!TurnFits
  <1> QED
    BY <1>14, <1>15, <1>16, <1>17, <1>18, <1>19, <1>20, <1>21 DEF T!LinesInv

\* (what the types say, as the proofs need it)
LEMMA TurnKnown ==
  ASSUME T!TypeOK
  PROVE  /\ x1 \in [Screens -> {"own", "other", NoValue}] /\ x6 \in Screens
         /\ \A s \in Screens : x3[s] \in Seq(T!Events) /\ x2[s] \in Seq(Nat)
         /\ x14.line \in Nat \cup {NoValue} /\ x14.pc \in {"shift", "hydrate", "rejoined"} \cup T!InTurn
  BY DEF T!TypeOK, T!MainLoops

\* a turn of this client,
LEMMA BeginOwnKeeps ==
  ASSUME T!Assumptions, T!LinesInv, T!BeginOwn
  PROVE  T!LinesInv'
  <1>1. /\ T!TypeOK /\ T!LoopsFit /\ T!LinesKnown /\ T!ClientHasOne /\ T!ServerHasOne /\ T!SentOnce
        /\ T!LeftHandsFit /\ T!StreamFits /\ T!TurnFits /\ T!NothingTypedIsLost
    BY DEF T!LinesInv
  <1> DEFINE s == x14.session
             m == x14.line
             events == <<T!Running("own")>>
  <1>2. /\ x14.pc = "sent" /\ x1[s] = NoValue /\ x1' = [x1 EXCEPT ![s] = "own"]
        /\ x4' = Append(x4, m) /\ T!Emit(s, <<T!Running("own")>>)
        /\ x14' = [x14 EXCEPT !.pc = "answer"]
    BY DEF T!BeginOwn
  <1>3. UNCHANGED <<x2, x21, x22, x5, x6, x7, x8, x10, x11, x12, x23,
                    x13, x15, x16, x17, x18, x19, x20, x24, x25>>
    BY DEF T!BeginOwn, T!ClientIdle, T!sessions, T!input, T!localTurn, T!handlers, T!history
  <1>4. NoValue # "own" /\ NoValue # "other" /\ NoValue \notin Nat
    BY Nones
  <1>5. T!Running("own") \in T!Events /\ T!Running("own").type = "turn_status"
    BY <1>4 DEF T!Running, T!Events
  <1>6. events \in Seq(T!Events) /\ T!ToSet(events) = {T!Running("own")}
    BY <1>5 DEF T!ToSet
  <1>7. T!TellsTurn(events)
    BY <1>5, <1>6 DEF T!TellsTurn
  <1>8. x16 /\ m \in Nat /\ s \in Screens
    BY <1>1, <1>2 DEF T!LoopsFit, T!InTurn
  <1>80. x14' \in T!MainLoops /\ x14'.pc = "answer" /\ x14'.line = m /\ x14'.session = s
    <2>1. x14 \in T!MainLoops
      BY <1>1 DEF T!TypeOK
    <2> QED
      BY <2>1, <1>2 DEF T!MainLoops, T!InTurn
  <1> HIDE DEF s, m
  <1>81. T!Emit(s, events) /\ UNCHANGED <<x6, x7, x8>>
    BY <1>2, <1>3
  <1>9. /\ x3' \in [Screens -> Seq(T!Events)] /\ x9' \in Seq(T!Events)
        /\ x3'[s] = x3[s] \o events /\ \A t \in Screens : t # s => x3'[t] = x3[t]
    BY <1>1, <1>6, <1>8, <1>81, Emitted
  <1>10. \A t \in Screens : /\ T!ToSet(x3[t]) \subseteq T!ToSet(x3'[t])
                            /\ T!ToSet(x3'[t]) \subseteq T!ToSet(x3[t]) \cup T!ToSet(events)
                            /\ Len(x3[t]) <= Len(x3'[t])
                            /\ T!TellsTurn(x3[t]) => T!TellsTurn(x3'[t])
    BY <1>1, <1>6, <1>8, <1>81, Emitted
  <1>11. /\ T!ToSet(T!Unseen) \subseteq T!ToSet(T!Unseen')
         /\ x7' <= Len(x3'[x6']) /\ x9' = (IF x8' THEN T!Unseen' ELSE <<>>)
    BY <1>1, <1>3, <1>6, <1>8, <1>81, Emitted
  <1>12. T!LastTurn(x3'[s]) = T!Running("own")
    <2>1. x3[s] \in Seq(T!Events)
      BY <1>1, <1>8, TurnKnown
    <2> QED
      BY <2>1, <1>5, <1>9, LastTurnNow
  <1> HIDE DEF events
  <1>13. x1' \in [Screens -> {"own", "other", NoValue}] /\ x1'[s] = "own"
         /\ \A t \in Screens : t # s => x1'[t] = x1[t]
    BY <1>1, <1>2, <1>8, TurnKnown
  <1>14. x4 \in Seq(Nat) /\ x4' \in Seq(Nat) /\ T!ToSet(x4') = T!ToSet(x4) \cup {m}
    <2>1. x4 \in Seq(Nat)
      BY <1>1 DEF T!TypeOK
    <2> QED
      BY <2>1, <1>2, <1>8, Appended
  <1>15. T!TypeOK'
    BY <1>1, <1>3, <1>9, <1>13, <1>14, <1>80 DEF T!TypeOK
  <1>16. T!LoopsFit'
    <2>1. \A t \in Screens : x1'[t] = "own" <=> s = t
      BY <1>1, <1>2, <1>13 DEF T!LoopsFit, s
    <2>2. x16 = (x14'.pc \in T!InTurn)
      BY <1>8, <1>80, <1>1 DEF T!InTurn, T!LoopsFit
    <2>3. x14.pc # "rejoined"
      BY <1>2
    <2>4. x5 = x6 /\ x13.turn <= x15
          /\ (x13.pc = "steering" /\ x13.by = "local" /\ x16 /\ x13.turn = x15 =>
                 x13.session = x6)
      BY <2>3, <1>1 DEF T!LoopsFit
    <2> QED
      BY <2>1, <2>2, <2>4, <1>1, <1>3, <1>8, <1>80 DEF T!LoopsFit
  <1>17. m \notin T!QueuedLines \cup T!ToSet(x17) /\ m \in 1 .. x11
         /\ (x13.pc = "steering" => x13.line # m)
    BY <1>1, <1>4, <1>8 DEF T!ClientHasOne, T!LinesKnown, m
  <1>18. m \notin T!Waits \ x24 /\ m \notin T!ToSet(x4) \ x24
    BY <1>1, <1>2 DEF T!SentOnce, T!ToSend, m
  <1>19. T!QueuedLines' = T!QueuedLines /\ T!Waits' = T!Waits /\ x14'.line = x14.line
    BY <1>3, <1>80 DEF T!QueuedLines, T!Waits, m
  <1>20. T!LinesKnown'
    BY <1>1, <1>3, <1>14, <1>17, <1>19 DEF T!LinesKnown
  <1>21. T!ClientHasOne'
    BY <1>1, <1>3, <1>19 DEF T!ClientHasOne, T!QueuedLines
  <1>22. T!NothingTypedIsLost'
    BY <1>1, <1>3, <1>14, <1>19 DEF T!NothingTypedIsLost
  <1>23. T!ServerHasOne'
    <2>1. x13.pc = "steering" => x13.session \in Screens
      BY <1>1 DEF T!LoopsFit
    <2>2. WaitOnce'
      BY <1>1, <1>3, WaitOnceIs DEF WaitOnce
    <2>3. ASSUME x13.pc = "steering"
          PROVE  /\ x13.answer # "steered" => x13.line \notin T!Waits \cup T!ToSet(x4')
                 /\ x13.line \in T!Waits => x13.line \in T!ToSet(x2[x13.session])
                 /\ x13.line \in T!ToSet(x4') => T!Steered(x13.line) \in T!ToSet(x3'[x13.session])
      BY <2>1, <2>3, <1>1, <1>10, <1>14, <1>17 DEF T!ServerHasOne
    <2> QED
      BY <2>2, <2>3, <1>3, <1>19 DEF T!ServerHasOne, WaitOnce
  <1>24. T!SentOnce'
    <2>1. OnceBut(x4, x24)
      BY <1>1 DEF T!SentOnce, T!GivenOnce, OnceBut
    <2>2. OnceBut(x4', x24)
      <3>1. <<m>> \in Seq(Nat) /\ T!ToSet(<<m>>) = {m} /\ T!IsInjective(<<m>>)
        BY <1>8 DEF T!ToSet, T!IsInjective
      <3>2. \A l \in T!ToSet(x4) : l \in T!ToSet(<<m>>) => l \in x24
        BY <3>1, <1>18
      <3>3. OnceBut(x4 \o <<m>>, x24)
        BY <2>1, <3>1, <3>2, <1>14, GivenTogether
      <3>4. x4' = x4 \o <<m>>
        BY <1>2, <1>8, <1>14 DEF m
      <3> QED
        BY <3>3, <3>4
    <2>3. T!GivenOnce'
      BY <2>2, <1>3 DEF T!GivenOnce, OnceBut
    <2>4. T!ToSend' \subseteq T!ToSend \ {m}
      BY <1>17, <1>19, <1>80 DEF T!ToSend
    <2>5. ASSUME NEW l \in T!ToSet(x4') \ x24
          PROVE  l \notin T!ToSend' \cup T!Waits /\ (l \in T!ToSet(x17) => T!Steered(l) \in T!ToSet(T!Unseen'))
      <3>1. CASE l = m
        BY <3>1, <2>4, <2>5, <1>17, <1>18
      <3>2. CASE l # m
        BY <3>2, <2>4, <2>5, <1>1, <1>11, <1>14 DEF T!SentOnce
      <3> QED
        BY <3>1, <3>2
    <2>6. \A l \in T!Waits \ x24 : l \notin T!ToSend' /\ (l \in T!ToSet(x17) => l \in T!ToSet(x2[x6]))
      BY <2>4, <1>1 DEF T!SentOnce
    <2> QED
      BY <2>3, <2>5, <2>6, <1>3, <1>19 DEF T!SentOnce
  <1>25. T!LeftHandsFit'
    <2>1. \A t \in Screens : \A e \in T!ToSet(x3'[t]) : e.type = "user_message" => e.line \in T!ToSet(x4)
      <3> SUFFICES ASSUME NEW t \in Screens, NEW e \in T!ToSet(x3'[t]), e.type = "user_message"
                   PROVE  e.line \in T!ToSet(x4)
        OBVIOUS
      <3>1. e \in T!ToSet(x3[t])
        BY <1>5, <1>6, <1>10
      <3> QED
        BY <3>1, <1>1 DEF T!LeftHandsFit
    <2> QED
      BY <2>1, <1>1, <1>3, <1>14, <1>19, <1>80 DEF T!LeftHandsFit
  <1>26. T!StreamFits'
    <2>1. x14'.pc # "hydrate"
      BY <1>80
    <2>2. ASSUME NEW t \in Screens
          PROVE  T!LastTurn(x3'[t]) = IF x1'[t] = NoValue THEN T!Ended ELSE T!Running(x1'[t])
      BY <1>1, <1>4, <1>9, <1>12, <1>13 DEF T!StreamFits
    <2> QED
      BY <2>1, <2>2, <1>3, <1>11 DEF T!StreamFits
  <1>27. T!TurnFits'
    BY <1>1, <1>3, <1>80 DEF T!TurnFits
  <1> QED
    BY <1>15, <1>16, <1>20, <1>21, <1>22, <1>23, <1>24, <1>25, <1>26, <1>27 DEF T!LinesInv

\* messages given to the model,
LEMMA BoundaryKeeps ==
  ASSUME T!Assumptions, T!LinesInv, NEW s \in Screens, T!Boundary(s)
  PROVE  T!LinesInv'
  <1>1. /\ T!TypeOK /\ T!LoopsFit /\ T!LinesKnown /\ T!ClientHasOne /\ T!ServerHasOne /\ T!SentOnce
        /\ T!LeftHandsFit /\ T!StreamFits /\ T!TurnFits /\ T!NothingTypedIsLost
    BY DEF T!LinesInv
  <1> DEFINE q == x2[s]
             events == [i \in DOMAIN q |-> T!Steered(q[i])]
  <1>2. /\ x4' = x4 \o q /\ T!Emit(s, events) /\ x2' = [x2 EXCEPT ![s] = <<>>]
    BY DEF T!Boundary
  <1>3. UNCHANGED <<x1, x14, x21, x22, x5, x6, x7, x8, x10, x11, x12, x23,
                    x13, x15, x16, x17, x18, x19, x20, x24, x25>>
    BY DEF T!Boundary, T!ClientIdle, T!sessions, T!input, T!localTurn, T!handlers, T!history
  <1>4. q \in Seq(Nat)
    BY <1>1, TurnKnown
  <1>5. /\ events \in Seq(T!Events) /\ ~T!TellsTurn(events)
        /\ \A l \in T!ToSet(q) : T!Steered(l) \in T!ToSet(events)
        /\ \A e \in T!ToSet(events) : e.line \in T!ToSet(q)
    <2> HIDE DEF q
    <2> QED
      BY <1>4, MessagesOf
  <1> HIDE DEF events
  <1>81. T!Emit(s, events) /\ UNCHANGED <<x6, x7, x8>>
    BY <1>2, <1>3
  <1>9. /\ x3' \in [Screens -> Seq(T!Events)] /\ x9' \in Seq(T!Events)
        /\ x3'[s] = x3[s] \o events /\ \A t \in Screens : t # s => x3'[t] = x3[t]
    BY <1>1, <1>5, <1>81, Emitted
  <1>10. \A t \in Screens : /\ T!ToSet(x3[t]) \subseteq T!ToSet(x3'[t])
                            /\ T!ToSet(x3'[t]) \subseteq T!ToSet(x3[t]) \cup T!ToSet(events)
                            /\ Len(x3[t]) <= Len(x3'[t])
                            /\ T!TellsTurn(x3[t]) => T!TellsTurn(x3'[t])
    BY <1>1, <1>5, <1>81, Emitted
  <1>11. /\ T!ToSet(T!Unseen) \subseteq T!ToSet(T!Unseen') /\ T!ToSet(events) \subseteq T!ToSet(x3'[s])
         /\ s = x6 => T!ToSet(events) \subseteq T!ToSet(T!Unseen')
         /\ T!TellsTurn(T!Unseen') <=> T!TellsTurn(T!Unseen)
         /\ x7' <= Len(x3'[x6']) /\ x9' = (IF x8' THEN T!Unseen' ELSE <<>>)
    BY <1>1, <1>5, <1>81, Emitted
  <1>12. T!LastTurn(x3'[s]) = T!LastTurn(x3[s])
    <2>1. x3[s] \in Seq(T!Events)
      BY <1>1, TurnKnown
    <2> QED
      BY <2>1, <1>5, <1>9, LastTurnAfter
  <1>13. /\ x2' \in [Screens -> Seq(Nat)] /\ WaitOnce'
         /\ T!ToSet(q) \subseteq T!Waits /\ T!Waits' \subseteq T!Waits
         /\ T!Waits \subseteq T!Waits' \cup T!ToSet(q) /\ T!Waits' \cap T!ToSet(q) = {}
         /\ \A t \in Screens : \A l \in T!Waits' : l \in T!ToSet(x2[t]) => l \in T!ToSet(x2'[t])
    BY <1>1, <1>2, Emptied
  <1>14. T!IsInjective(q) /\ \A t \in Screens : \A l \in T!ToSet(q) : l \in T!ToSet(x2[t]) => s = t
    BY <1>1, WaitOnceIs
  <1> HIDE DEF q
  <1>15. x4 \in Seq(Nat) /\ x4' \in Seq(Nat) /\ T!ToSet(x4') = T!ToSet(x4) \cup T!ToSet(q)
    <2>1. x4 \in Seq(Nat)
      BY <1>1 DEF T!TypeOK
    <2> QED
      BY <2>1, <1>2, <1>4, Joined
  <1>16. T!TypeOK'
    BY <1>1, <1>3, <1>9, <1>13, <1>15 DEF T!TypeOK
  <1>17. T!LoopsFit' /\ T!ClientHasOne'
    BY <1>1, <1>3 DEF T!LoopsFit, T!ClientHasOne, T!QueuedLines
  <1>18. T!QueuedLines' = T!QueuedLines /\ T!ToSend' = T!ToSend
    BY <1>3 DEF T!QueuedLines, T!ToSend
  <1>19. T!LinesKnown'
    BY <1>1, <1>3, <1>13, <1>15, <1>18 DEF T!LinesKnown
  <1>20. T!NothingTypedIsLost'
    BY <1>1, <1>3, <1>13, <1>15, <1>18 DEF T!NothingTypedIsLost
  <1>21. T!ServerHasOne'
    <2>1. x13.pc = "steering" => x13.session \in Screens
      BY <1>1 DEF T!LoopsFit
    <2>3. ASSUME x13.pc = "steering"
          PROVE  /\ x13.answer # "steered" => x13.line \notin T!Waits' \cup T!ToSet(x4')
                 /\ x13.line \in T!Waits' => x13.line \in T!ToSet(x2'[x13.session])
                 /\ x13.line \in T!ToSet(x4') => T!Steered(x13.line) \in T!ToSet(x3'[x13.session])
      <3>1. /\ x13.answer # "steered" => x13.line \notin T!Waits \cup T!ToSet(x4)
            /\ x13.line \in T!Waits => x13.line \in T!ToSet(x2[x13.session])
            /\ x13.line \in T!ToSet(x4) => T!Steered(x13.line) \in T!ToSet(x3[x13.session])
        BY <2>3, <1>1 DEF T!ServerHasOne
      <3>2. x13.line \in T!ToSet(q) => x13.session = s
        BY <2>1, <2>3, <3>1, <1>13, <1>14
      <3>3. x13.line \in T!ToSet(q) => T!Steered(x13.line) \in T!ToSet(x3'[x13.session])
        BY <3>2, <1>5, <1>11
      <3> QED
        BY <2>1, <2>3, <3>1, <3>3, <1>10, <1>13, <1>15
    <2> QED
      BY <2>3, <1>3, <1>13 DEF T!ServerHasOne, WaitOnce
  <1>22. T!SentOnce'
    <2>1. OnceBut(x4, x24)
      BY <1>1 DEF T!SentOnce, T!GivenOnce, OnceBut
    <2>2. OnceBut(x4', x24)
      <3>1. \A l \in T!ToSet(x4) : l \in T!ToSet(q) => l \in x24
        BY <1>1, <1>13 DEF T!SentOnce
      <3> QED
        BY <2>1, <3>1, <1>2, <1>4, <1>14, <1>15, GivenTogether
    <2>3. T!GivenOnce'
      BY <2>2, <1>3 DEF T!GivenOnce, OnceBut
    <2>4. x6 \in Screens
      BY <1>1, TurnKnown
    <2>5. ASSUME NEW l \in T!ToSet(x4') \ x24
          PROVE  l \notin T!ToSend \cup T!Waits' /\ (l \in T!ToSet(x17) => T!Steered(l) \in T!ToSet(T!Unseen'))
      <3>1. CASE l \in T!ToSet(q)
        <4>1. l \notin T!ToSend /\ (l \in T!ToSet(x17) => l \in T!ToSet(x2[x6]))
          BY <3>1, <2>5, <1>1, <1>13 DEF T!SentOnce
        <4>2. l \in T!ToSet(x17) => s = x6
          BY <4>1, <2>4, <3>1, <1>14
        <4> QED
          BY <4>1, <4>2, <3>1, <1>5, <1>11, <1>13
      <3>2. CASE l \in T!ToSet(x4)
        BY <3>2, <2>5, <1>1, <1>11, <1>13 DEF T!SentOnce
      <3> QED
        BY <3>1, <3>2, <2>5, <1>15
    <2>6. \A l \in T!Waits' \ x24 : l \notin T!ToSend /\ (l \in T!ToSet(x17) => l \in T!ToSet(x2'[x6]))
      BY <2>4, <1>1, <1>13 DEF T!SentOnce
    <2> QED
      BY <2>3, <2>5, <2>6, <1>3, <1>18 DEF T!SentOnce
  <1>23. T!LeftHandsFit'
    <2>1. \A t \in Screens : \A e \in T!ToSet(x3'[t]) : e.type = "user_message" => e.line \in T!ToSet(x4')
      <3> SUFFICES ASSUME NEW t \in Screens, NEW e \in T!ToSet(x3'[t]), e.type = "user_message"
                   PROVE  e.line \in T!ToSet(x4')
        OBVIOUS
      <3>1. CASE e \in T!ToSet(x3[t])
        BY <3>1, <1>1, <1>15 DEF T!LeftHandsFit
      <3>2. CASE e \in T!ToSet(events)
        BY <3>2, <1>5, <1>15
      <3> QED
        BY <3>1, <3>2, <1>10
    <2>2. x14.pc \in {"answer", "ended"} => x14.line \in T!ToSet(x4')
      BY <1>1, <1>15 DEF T!LeftHandsFit
    <2>3. x13.pc = "steering" /\ x13.by # "local" /\ x13.answer = "steered" =>
             x13.line \in T!Waits' \cup T!ToSet(x4') \cup x22 \cup x24
      BY <1>1, <1>13, <1>15 DEF T!LeftHandsFit
    <2> QED
      BY <2>1, <2>2, <2>3, <1>3 DEF T!LeftHandsFit
  <1>24. T!StreamFits'
    <2>1. \A t \in Screens : Len(x3[t]) <= Len(x3'[t]) /\ (T!TellsTurn(x3[t]) => T!TellsTurn(x3'[t]))
      BY <1>10
    <2>2. x14'.pc = "hydrate" =>
           /\ ~x8'
           /\ x14'.seen # NoValue => x14'.seen <= Len(x3'[x14'.session])
           /\ x14'.status # NoValue /\ x14'.status = TRUE => T!TellsTurn(x3'[x14'.session])
      BY <2>1, <1>1, <1>3, <1>9, HydrateFits
    <2>3. ASSUME NEW t \in Screens
          PROVE  T!LastTurn(x3'[t]) = IF x1'[t] = NoValue THEN T!Ended ELSE T!Running(x1'[t])
      BY <1>1, <1>3, <1>9, <1>12 DEF T!StreamFits
    <2> QED
      BY <2>2, <2>3, <1>11 DEF T!StreamFits
  <1>25. T!TurnFits'
    BY <1>1, <1>3, <1>11 DEF T!TurnFits
  <1> QED
    BY <1>16, <1>17, <1>19, <1>20, <1>21, <1>22, <1>23, <1>24, <1>25 DEF T!LinesInv

\* the end of a turn,
LEMMA EndTurnKeeps ==
  ASSUME T!Assumptions, T!LinesInv, NEW s \in Screens, T!EndTurn(s)
  PROVE  T!LinesInv'
  <1>1. /\ T!TypeOK /\ T!LoopsFit /\ T!LinesKnown /\ T!ClientHasOne /\ T!ServerHasOne /\ T!SentOnce
        /\ T!LeftHandsFit /\ T!StreamFits /\ T!TurnFits /\ T!NothingTypedIsLost
    BY DEF T!LinesInv
  <1> DEFINE q == x2[s]
             events == <<T!Ended>>
             left == T!ToSet(q) \ (T!ToSet(x17) \cup T!Remembered(x13))
  <1>2. /\ x1[s] # NoValue /\ x1' = [x1 EXCEPT ![s] = NoValue] /\ T!Emit(s, <<T!Ended>>)
        /\ x2' = [x2 EXCEPT ![s] = <<>>] /\ x24' = x24 \cup left
        /\ x14' = IF x1[s] = "own" THEN [x14 EXCEPT !.pc = "ended"] ELSE x14
    BY DEF T!EndTurn
  <1>3. UNCHANGED <<x4, x21, x22, x5, x6, x7, x8, x10, x11, x12,
                    x13, x15, x16, x17, x18, x19, x20, x25>>
    BY DEF T!EndTurn, T!sessions, T!input, T!localTurn, T!handlers
  <1>4. NoValue # "own" /\ NoValue # "other" /\ NoValue \notin Nat
    BY Nones
  <1>5. T!Ended \in T!Events /\ T!Ended.type = "turn_status"
    BY DEF T!Events, T!Ended
  <1>6. events \in Seq(T!Events) /\ T!ToSet(events) = {T!Ended}
    BY <1>5 DEF T!ToSet
  <1>7. T!TellsTurn(events)
    BY <1>5, <1>6 DEF T!TellsTurn
  <1>81. T!Emit(s, events) /\ UNCHANGED <<x6, x7, x8>>
    BY <1>2, <1>3
  <1>9. /\ x3' \in [Screens -> Seq(T!Events)] /\ x9' \in Seq(T!Events)
        /\ x3'[s] = x3[s] \o events /\ \A t \in Screens : t # s => x3'[t] = x3[t]
    BY <1>1, <1>6, <1>81, Emitted
  <1>10. \A t \in Screens : /\ T!ToSet(x3[t]) \subseteq T!ToSet(x3'[t])
                            /\ T!ToSet(x3'[t]) \subseteq T!ToSet(x3[t]) \cup T!ToSet(events)
                            /\ Len(x3[t]) <= Len(x3'[t])
                            /\ T!TellsTurn(x3[t]) => T!TellsTurn(x3'[t])
    BY <1>1, <1>6, <1>81, Emitted
  <1>11. /\ T!ToSet(T!Unseen) \subseteq T!ToSet(T!Unseen')
         /\ T!TellsTurn(T!Unseen') <=> T!TellsTurn(T!Unseen) \/ (s = x6 /\ T!TellsTurn(events))
         /\ x7' <= Len(x3'[x6']) /\ x9' = (IF x8' THEN T!Unseen' ELSE <<>>)
    BY <1>1, <1>3, <1>6, <1>81, Emitted
  <1>12. T!LastTurn(x3'[s]) = T!Ended
    <2>1. x3[s] \in Seq(T!Events)
      BY <1>1, TurnKnown
    <2> QED
      BY <2>1, <1>5, <1>9, LastTurnNow
  <1> HIDE DEF events
  <1>13. /\ x2' \in [Screens -> Seq(Nat)] /\ WaitOnce'
         /\ T!ToSet(q) \subseteq T!Waits /\ T!Waits' \subseteq T!Waits
         /\ T!Waits \subseteq T!Waits' \cup T!ToSet(q) /\ T!Waits' \cap T!ToSet(q) = {}
         /\ \A t \in Screens : \A l \in T!Waits' : l \in T!ToSet(x2[t]) => l \in T!ToSet(x2'[t])
    BY <1>1, <1>2, Emptied
  <1>14. x1' \in [Screens -> {"own", "other", NoValue}] /\ x1'[s] = NoValue
         /\ \A t \in Screens : t # s => x1'[t] = x1[t]
    BY <1>1, <1>2, TurnKnown
  <1>15. /\ x14' \in T!MainLoops /\ x14'.line = x14.line /\ x14'.session = x14.session
         /\ x14'.status = x14.status /\ x14'.seen = x14.seen
         /\ IF x1[s] = "own" THEN x14'.pc = "ended" /\ x14.pc = "answer" /\ x14.session = s ELSE x14' = x14
    <2>1. x14 \in T!MainLoops
      BY <1>1 DEF T!TypeOK
    <2>2. CASE x1[s] = "own"
      <3>1. x14.pc = "answer" /\ x14.session = s
        BY <2>2, <1>1 DEF T!LoopsFit
      <3> QED
        BY <3>1, <2>1, <2>2, <1>2 DEF T!MainLoops, T!InTurn
    <2>3. CASE x1[s] # "own"
      BY <2>1, <2>3, <1>2
    <2> QED
      BY <2>2, <2>3
  <1>16. left \subseteq T!ToSet(q) /\ T!ToSet(q) \subseteq Nat
    <2>1. q \in Seq(Nat)
      BY <1>1, TurnKnown
    <2> HIDE DEF q
    <2> QED
      BY <2>1 DEF T!ToSet
  <1>17. T!Remembered(x13) \subseteq {x13.line} /\ (x13.by # "local" => T!Remembered(x13) = {})
    BY DEF T!Remembered
  <1>18. T!ToSet(q) \subseteq left \cup T!ToSet(x17) \cup {x13.line}
         /\ (x13.by # "local" => T!ToSet(q) \subseteq left \cup T!ToSet(x17))
    BY <1>17
  <1> HIDE DEF q, left
  <1>19. T!TypeOK'
    <2>1. x23' \in [{"others", "failures", "drops", "pops"} -> Nat]
      <3>1. CASE UNCHANGED x23
        BY <3>1, <1>1 DEF T!TypeOK
      <3>2. CASE T!Count("failures")
        BY <3>2, <1>1, Counted
      <3> QED
        BY <3>1, <3>2 DEF T!EndTurn
    <2>2. x24' \subseteq Nat
      BY <1>1, <1>2, <1>16 DEF T!TypeOK
    <2> QED
      BY <2>1, <2>2, <1>1, <1>3, <1>9, <1>13, <1>14, <1>15 DEF T!TypeOK
  <1>20. x14'.pc \in T!InTurn <=> x14.pc \in T!InTurn
    BY <1>15 DEF T!InTurn
  <1>21. x14'.pc # "ended" => x14' = x14
    BY <1>15
  <1>22. T!LoopsFit'
    <2>1. ASSUME NEW t \in Screens PROVE x1'[t] = "own" <=> x14'.pc = "answer" /\ x14'.session = t
      <3>1. x1[t] = "own" <=> x14.pc = "answer" /\ x14.session = t
        BY <1>1 DEF T!LoopsFit
      <3>2. CASE x1[s] = "own"
        BY <3>1, <3>2, <1>4, <1>14, <1>15
      <3>3. CASE x1[s] # "own"
        BY <3>1, <3>3, <1>4, <1>14, <1>15
      <3> QED
        BY <3>2, <3>3
    <2>2. /\ x14'.pc # "shift" => x14'.session \in Screens
          /\ IF x14'.pc = "rejoined" THEN x6 = x14'.session ELSE x5 = x6
      BY <1>1, <1>15 DEF T!LoopsFit
    <2>3. x16 = (x14'.pc \in T!InTurn)
      BY <1>1, <1>20 DEF T!LoopsFit
    <2> QED
      BY <2>1, <2>2, <2>3, <1>1, <1>3, <1>15 DEF T!LoopsFit
  <1>23. T!QueuedLines' = T!QueuedLines /\ T!ToSend' = T!ToSend
    BY <1>3, <1>15 DEF T!QueuedLines, T!ToSend
  <1>24. T!LinesKnown'
    BY <1>1, <1>3, <1>13, <1>15, <1>23 DEF T!LinesKnown
  <1>25. T!ClientHasOne'
    BY <1>1, <1>3, <1>15 DEF T!ClientHasOne, T!QueuedLines
  <1>26. T!NothingTypedIsLost'
    BY <1>1, <1>2, <1>3, <1>13, <1>15, <1>18, <1>23 DEF T!NothingTypedIsLost
  <1>27. T!ServerHasOne'
    <2>1. x13.pc = "steering" => x13.session \in Screens
      BY <1>1 DEF T!LoopsFit
    <2>2. ASSUME x13.pc = "steering"
          PROVE  /\ x13.answer # "steered" => x13.line \notin T!Waits' \cup T!ToSet(x4)
                 /\ x13.line \in T!Waits' => x13.line \in T!ToSet(x2'[x13.session])
                 /\ x13.line \in T!ToSet(x4) => T!Steered(x13.line) \in T!ToSet(x3'[x13.session])
      <3>1. /\ x13.answer # "steered" => x13.line \notin T!Waits \cup T!ToSet(x4)
            /\ x13.line \in T!Waits => x13.line \in T!ToSet(x2[x13.session])
            /\ x13.line \in T!ToSet(x4) => T!Steered(x13.line) \in T!ToSet(x3[x13.session])
        BY <2>2, <1>1 DEF T!ServerHasOne
      <3> QED
        BY <2>1, <2>2, <3>1, <1>10, <1>13
    <2> QED
      BY <2>2, <1>3, <1>13 DEF T!ServerHasOne, WaitOnce
  <1>28. T!SentOnce'
    <2>1. T!GivenOnce'
      BY <1>1, <1>2, <1>3 DEF T!SentOnce, T!GivenOnce
    <2>2. x6 \in Screens /\ x24 \subseteq x24'
      BY <1>1, <1>2, TurnKnown
    <2>3. \A l \in T!ToSet(x4) \ x24' :
             l \notin T!ToSend \cup T!Waits' /\ (l \in T!ToSet(x17) => T!Steered(l) \in T!ToSet(T!Unseen'))
      BY <2>2, <1>1, <1>11, <1>13 DEF T!SentOnce
    <2>4. \A l \in T!Waits' \ x24' : l \notin T!ToSend /\ (l \in T!ToSet(x17) => l \in T!ToSet(x2'[x6]))
      BY <2>2, <1>1, <1>13 DEF T!SentOnce
    <2> QED
      BY <2>1, <2>3, <2>4, <1>3, <1>23 DEF T!SentOnce
  <1>29. T!LeftHandsFit'
    <2>1. \A t \in Screens : \A e \in T!ToSet(x3'[t]) : e.type = "user_message" => e.line \in T!ToSet(x4)
      <3> SUFFICES ASSUME NEW t \in Screens, NEW e \in T!ToSet(x3'[t]), e.type = "user_message"
                   PROVE  e.line \in T!ToSet(x4)
        OBVIOUS
      <3>1. e \in T!ToSet(x3[t])
        BY <1>5, <1>6, <1>10
      <3> QED
        BY <3>1, <1>1 DEF T!LeftHandsFit
    <2>2. x14'.pc \in {"answer", "ended"} => x14.line \in T!ToSet(x4)
      BY <1>1, <1>15 DEF T!LeftHandsFit
    <2>3. x13.pc = "steering" /\ x13.by # "local" /\ x13.answer = "steered" =>
             x13.line \in T!Waits' \cup T!ToSet(x4) \cup x22 \cup x24'
      <3> SUFFICES ASSUME x13.pc = "steering", x13.by # "local", x13.answer = "steered"
                   PROVE  x13.line \in T!Waits' \cup T!ToSet(x4) \cup x22 \cup x24'
        OBVIOUS
      <3>1. x13.line \in T!Waits \cup T!ToSet(x4) \cup x22 \cup x24
        BY <1>1 DEF T!LeftHandsFit
      <3>2. x13.line \notin T!ToSet(x17)
        BY <1>1 DEF T!ClientHasOne
      <3>3. T!ToSet(q) \subseteq left \cup T!ToSet(x17)
        BY <1>18
      <3> QED
        BY <3>1, <3>2, <3>3, <1>2, <1>13
    <2> QED
      BY <2>1, <2>2, <2>3, <1>3, <1>15 DEF T!LeftHandsFit
  <1>30. T!StreamFits'
    <2>1. \A t \in Screens : Len(x3[t]) <= Len(x3'[t]) /\ (T!TellsTurn(x3[t]) => T!TellsTurn(x3'[t]))
      BY <1>10
    <2>2. x14'.pc = "hydrate" =>
           /\ ~x8'
           /\ x14'.seen # NoValue => x14'.seen <= Len(x3'[x14'.session])
           /\ x14'.status # NoValue /\ x14'.status = TRUE => T!TellsTurn(x3'[x14'.session])
      <3>1. x14'.pc = "hydrate" => UNCHANGED <<x14, x8>>
        BY <1>3, <1>21
      <3> QED
        BY <2>1, <3>1, <1>1, <1>9, HydrateFits
    <2>3. ASSUME NEW t \in Screens
          PROVE  T!LastTurn(x3'[t]) = IF x1'[t] = NoValue THEN T!Ended ELSE T!Running(x1'[t])
      BY <1>1, <1>4, <1>9, <1>12, <1>14 DEF T!StreamFits
    <2> QED
      BY <2>2, <2>3, <1>11 DEF T!StreamFits
  <1>31. T!TurnFits'
    <2>1. ~T!TellsTurn(T!Unseen') => ~T!TellsTurn(T!Unseen) /\ x1'[x6] = x1[x6]
      <3>1. x6 \in Screens
        BY <1>1, TurnKnown
      <3> QED
        BY <3>1, <1>7, <1>11, <1>14
    <2>2. x14'.pc \in {"shift", "rejoined"} => x14'.pc = x14.pc
      BY <1>21
    <2> QED
      BY <2>1, <2>2, <1>1, <1>3 DEF T!TurnFits
  <1> QED
    BY <1>19, <1>22, <1>24, <1>25, <1>26, <1>27, <1>28, <1>29, <1>30, <1>31 DEF T!LinesInv

\* a message accepted or refused,
LEMMA AcceptSteeringKeeps ==
  ASSUME T!Assumptions, T!LinesInv, T!AcceptSteering
  PROVE  T!LinesInv'
  <1>1. /\ T!TypeOK /\ T!LoopsFit /\ T!LinesKnown /\ T!ClientHasOne /\ T!ServerHasOne /\ T!SentOnce
        /\ T!LeftHandsFit /\ T!StreamFits /\ T!TurnFits /\ T!NothingTypedIsLost
    BY DEF T!LinesInv
  <1> DEFINE s == x13.session
             m == x13.line
  <1>2. /\ x13.pc = "steering" /\ x13.answer = NoValue
        /\ \/ x13' = [x13 EXCEPT !.answer = "idle"] /\ x2' = x2
           \/ /\ x13' = [x13 EXCEPT !.answer = "steered"]
              /\ x2' = [x2 EXCEPT ![s] = Append(@, m)]
    BY DEF T!AcceptSteering
  <1>3. UNCHANGED <<x1, x3, x4, x5, x6, x7, x8, x9, x10, x11, x12, x14,
                    x15, x16, x17, x18, x19, x20, x21, x22, x23, x24, x25>>
    BY DEF T!AcceptSteering, T!sessions, T!stream, T!localTurn, T!handlers, T!history
  <1>4. NoValue # "steered" /\ NoValue \notin Nat
    BY Nones
  <1>5. s \in Screens /\ m \in 1 .. x11 /\ m \in Nat
    <2>1. s \in Screens /\ m \in 1 .. x11
      BY <1>1, <1>2 DEF T!LoopsFit
    <2>2. x11 \in Nat
      BY <1>1 DEF T!TypeOK
    <2> QED
      BY <2>1, <2>2
  <1>6. /\ x13' \in T!Readers /\ x13'.pc = x13.pc /\ x13'.line = m /\ x13'.by = x13.by
        /\ x13'.turn = x13.turn /\ x13'.session = s
        /\ x13'.answer = "steered" => x2' = [x2 EXCEPT ![s] = Append(@, m)]
        /\ x13'.answer # "steered" => x2' = x2
    <2>1. x13 \in T!Readers
      BY <1>1 DEF T!TypeOK
    <2> QED
      BY <2>1, <1>2 DEF T!Readers
  <1>7. /\ m \notin T!Waits \cup T!ToSet(x4)
        /\ m \notin T!QueuedLines \cup T!ToSet(x17) \cup {x14.line}
    BY <1>1, <1>2, <1>4 DEF T!ServerHasOne, T!ClientHasOne
  <1> HIDE DEF s, m
  <1>8. x2 \in [Screens -> Seq(Nat)] /\ WaitOnce
    BY <1>1, WaitOnceIs DEF T!TypeOK
  <1>9. x2' \in [Screens -> Seq(Nat)] /\ WaitOnce' /\ T!Waits \subseteq T!Waits'
        /\ (x13'.answer # "steered" => T!Waits' = T!Waits)
        /\ (x13'.answer = "steered" => T!Waits' = T!Waits \cup {m} /\ m \in T!ToSet(x2'[s]))
        /\ \A t \in Screens : T!ToSet(x2[t]) \subseteq T!ToSet(x2'[t])
    <2>1. CASE x13'.answer = "steered"
      <3>1. x2' = [x2 EXCEPT ![s] = Append(@, m)]
        BY <2>1, <1>6
      <3>2. Append(x2[s], m) \in Seq(Nat) /\ T!ToSet(Append(x2[s], m)) = T!ToSet(x2[s]) \cup {m}
        BY <1>5, <1>8, Appended
      <3>3. x2' \in [Screens -> Seq(Nat)] /\ x2'[s] = Append(x2[s], m)
            /\ \A t \in Screens : t # s => x2'[t] = x2[t]
        BY <3>1, <3>2, <1>5, <1>8
      <3>4. T!Waits' = T!Waits \cup {m} /\ m \in T!ToSet(x2'[s])
            /\ \A t \in Screens : T!ToSet(x2[t]) \subseteq T!ToSet(x2'[t])
        <4>1. m \in T!ToSet(x2'[s]) /\ \A t \in Screens : T!ToSet(x2[t]) \subseteq T!ToSet(x2'[t])
          BY <3>2, <3>3
        <4>2. ASSUME NEW l \in T!Waits' PROVE l \in T!Waits \cup {m}
          BY <3>2, <3>3 DEF T!Waits
        <4>3. ASSUME NEW l \in T!Waits \cup {m} PROVE l \in T!Waits'
          BY <4>1, <1>5 DEF T!Waits
        <4> QED
          BY <4>1, <4>2, <4>3
      <3>5. WaitOnce'
        <4> SUFFICES ASSUME NEW t \in Screens, NEW u \in Screens, NEW i \in DOMAIN x2'[t],
                            NEW j \in DOMAIN x2'[u], x2'[t][i] = x2'[u][j]
                     PROVE  t = u /\ i = j
          BY DEF WaitOnce
        <4> DEFINE n == Len(x2[s]) + 1
        <4>1. /\ DOMAIN x2'[s] = 1 .. n /\ DOMAIN x2[s] = 1 .. Len(x2[s]) /\ x2'[s][n] = m
              /\ Len(x2[s]) \in Nat /\ \A k \in DOMAIN x2[s] : x2'[s][k] = x2[s][k]
          <5> DEFINE a == x2[s]
                     b == Append(a, m)
          <5>1. a \in Seq(Nat) /\ x2'[s] = b
            BY <3>3, <1>5, <1>8
          <5> HIDE DEF a
          <5>2. DOMAIN a = 1 .. Len(a) /\ Len(a) \in Nat /\ Len(b) = Len(a) + 1
                /\ DOMAIN b = 1 .. Len(a) + 1 /\ b[Len(a) + 1] = m /\ \A k \in DOMAIN a : b[k] = a[k]
            BY <5>1, <1>5
          <5> QED
            BY <5>1, <5>2 DEF a
        <4>2. \A k \in DOMAIN x2'[s] : k = n \/ k \in DOMAIN x2[s]
          BY <4>1
        <4> HIDE DEF n
        <4>3. \A v \in Screens : \A k \in DOMAIN x2[v] : x2[v][k] # m
          BY <1>7 DEF T!Waits, T!ToSet
        <4>4. /\ x2'[t][i] = m <=> t = s /\ i = n
              /\ x2'[t][i] # m => i \in DOMAIN x2[t] /\ x2'[t][i] = x2[t][i]
          BY <3>3, <4>1, <4>2, <4>3
        <4>5. /\ x2'[u][j] = m <=> u = s /\ j = n
              /\ x2'[u][j] # m => j \in DOMAIN x2[u] /\ x2'[u][j] = x2[u][j]
          BY <3>3, <4>1, <4>2, <4>3
        <4> QED
          BY <4>4, <4>5, <1>8 DEF WaitOnce
      <3> QED
        BY <2>1, <3>3, <3>4, <3>5
    <2>2. CASE x13'.answer # "steered"
      BY <2>2, <1>6, <1>8 DEF WaitOnce, T!Waits
    <2> QED
      BY <2>1, <2>2
  <1>10. T!Waits' \subseteq T!Waits \cup {m}
    BY <1>9
  <1>11. T!TypeOK'
    BY <1>1, <1>3, <1>6, <1>9 DEF T!TypeOK
  <1>12. T!LoopsFit'
    BY <1>1, <1>2, <1>3, <1>5, <1>6 DEF T!LoopsFit, s, m
  <1>13. T!QueuedLines' = T!QueuedLines /\ T!ToSend' = T!ToSend /\ T!Unseen' = T!Unseen
    BY <1>3 DEF T!QueuedLines, T!ToSend, T!Unseen
  <1>14. T!LinesKnown'
    BY <1>1, <1>3, <1>5, <1>9, <1>13 DEF T!LinesKnown
  <1>15. T!ClientHasOne'
    BY <1>1, <1>3, <1>6, <1>13 DEF T!ClientHasOne, T!QueuedLines, m
  <1>16. T!NothingTypedIsLost'
    BY <1>1, <1>3, <1>6, <1>9, <1>13 DEF T!NothingTypedIsLost, m
  <1>17. T!ServerHasOne'
    BY <1>1, <1>2, <1>3, <1>6, <1>7, <1>9 DEF T!ServerHasOne, WaitOnce
  <1>18. T!SentOnce'
    <2>1. m \notin T!ToSend
      BY <1>7 DEF T!ToSend
    <2>2. x6 \in Screens
      BY <1>1, TurnKnown
    <2>3. \A l \in T!ToSet(x4) \ x24 :
             l \notin T!ToSend \cup T!Waits' /\ (l \in T!ToSet(x17) => T!Steered(l) \in T!ToSet(T!Unseen))
      BY <1>1, <1>7, <1>10 DEF T!SentOnce
    <2>4. \A l \in T!Waits' \ x24 : l \notin T!ToSend /\ (l \in T!ToSet(x17) => l \in T!ToSet(x2'[x6]))
      BY <2>1, <2>2, <1>1, <1>7, <1>9, <1>10 DEF T!SentOnce
    <2>5. T!GivenOnce'
      BY <1>1, <1>3 DEF T!SentOnce, T!GivenOnce
    <2> QED
      BY <2>3, <2>4, <2>5, <1>3, <1>13 DEF T!SentOnce
  <1>19. T!LeftHandsFit'
    BY <1>1, <1>3, <1>6, <1>9 DEF T!LeftHandsFit
  <1>20. T!StreamFits'
    BY <1>1, <1>3, <1>13 DEF T!StreamFits
  <1>21. T!TurnFits'
    BY <1>1, <1>3, <1>13 DEF T!TurnFits
  <1> QED
    BY <1>11, <1>12, <1>14, <1>15, <1>16, <1>17, <1>18, <1>19, <1>20, <1>21 DEF T!LinesInv

\* (what the invariant says of the queue)
LEMMA QueueIs ==
  ASSUME T!LoopsFit, T!ClientHasOne, T!TypeOK
  PROVE  x12 \in Seq(T!Queued) /\ T!QueuedLines = LinesOf(x12) /\ EachOnce(x12) /\ Doable(x12)
  BY DEF T!LoopsFit, T!ClientHasOne, T!TypeOK, T!QueuedLines, LinesOf, EachOnce, Doable

\* a message the server takes back,
LEMMA CancelSteeringKeeps ==
  ASSUME T!Assumptions, T!LinesInv, T!CancelSteering
  PROVE  T!LinesInv'
  <1>1. /\ T!TypeOK /\ T!LoopsFit /\ T!LinesKnown /\ T!ClientHasOne /\ T!ServerHasOne /\ T!SentOnce
        /\ T!LeftHandsFit /\ T!StreamFits /\ T!TurnFits /\ T!NothingTypedIsLost
    BY DEF T!LinesInv
  <1>2. PICK s \in Screens :
           /\ x21[s] > 0 /\ x21' = [x21 EXCEPT ![s] = @ - 1]
           /\ \/ x2[s] = <<>> /\ UNCHANGED <<x2, x22>>
              \/ /\ x2[s] # <<>> /\ x2' = [x2 EXCEPT ![s] = T!Front(@)]
                 /\ x22' = x22 \cup {T!Last(x2[s])}
    BY DEF T!CancelSteering
  <1>3. UNCHANGED <<x1, x3, x4, x5, x6, x7, x8, x9, x10, x11, x12, x13, x14,
                    x15, x16, x17, x18, x19, x20, x23, x24, x25>>
    BY DEF T!CancelSteering, T!sessions, T!stream, T!input, T!localTurn, T!handlers, T!history
  <1>4. x21' \in [Screens -> Nat]
    <2>1. x21 \in [Screens -> Nat]
      BY <1>1 DEF T!TypeOK
    <2>2. x21[s] - 1 \in Nat
      BY <2>1, <1>2
    <2> QED
      BY <2>1, <2>2, <1>2
  <1>5. x2 \in [Screens -> Seq(Nat)] /\ x22 \subseteq Nat /\ WaitOnce
        /\ \A t, u \in Screens : \A l \in T!ToSet(x2[t]) : l \in T!ToSet(x2[u]) => t = u
    BY <1>1, WaitOnceIs DEF T!TypeOK
  <1>6. /\ x2' \in [Screens -> Seq(Nat)] /\ x22' \subseteq Nat /\ x22 \subseteq x22'
        /\ WaitOnce' /\ T!Waits' \subseteq T!Waits /\ T!Waits \subseteq T!Waits' \cup x22'
        /\ \A t \in Screens : \A l \in T!Waits' : l \in T!ToSet(x2[t]) => l \in T!ToSet(x2'[t])
    <2>1. CASE UNCHANGED <<x2, x22>>
      <3>1. \A t \in Screens : \A l \in T!Waits' : l \in T!ToSet(x2[t]) => l \in T!ToSet(x2'[t])
        BY <2>1
      <3> QED
        BY <2>1, <3>1, <1>5 DEF T!Waits, WaitOnce
    <2>2. CASE /\ x2[s] # <<>> /\ x2' = [x2 EXCEPT ![s] = T!Front(@)]
               /\ x22' = x22 \cup {T!Last(x2[s])}
      <3> DEFINE q == x2[s]
                 l0 == T!Last(q)
      <3>1. q \in Seq(Nat) /\ q # <<>> /\ T!IsInjective(q)
        BY <2>2, <1>1, <1>5, WaitOnceIs
      <3> HIDE DEF q
      <3>2. /\ T!Front(q) \in Seq(Nat) /\ l0 \in Nat /\ T!ToSet(q) = T!ToSet(T!Front(q)) \cup {l0}
            /\ \A i \in DOMAIN T!Front(q) : i \in DOMAIN q /\ T!Front(q)[i] = q[i]
            /\ l0 \notin T!ToSet(T!Front(q))
        BY <3>1, FrontLast
      <3> HIDE DEF l0
      <3>3. x2' \in [Screens -> Seq(Nat)] /\ x2'[s] = T!Front(q) /\ x22' = x22 \cup {l0}
            /\ \A t \in Screens : t # s => x2'[t] = x2[t]
        BY <2>2, <3>2, <1>5 DEF q, l0
      <3>4. \A t \in Screens : \A i \in DOMAIN x2'[t] : i \in DOMAIN x2[t] /\ x2'[t][i] = x2[t][i]
        BY <3>2, <3>3 DEF q
      <3>5. WaitOnce'
        BY <3>4, <1>5 DEF WaitOnce
      <3>6. ASSUME NEW t \in Screens PROVE T!ToSet(x2'[t]) \subseteq T!ToSet(x2[t])
        BY <3>4 DEF T!ToSet
      <3>7. T!Waits' \subseteq T!Waits
        BY <3>6 DEF T!Waits
      <3>8. ASSUME NEW t \in Screens, NEW l \in T!ToSet(x2[t]), l # l0 PROVE l \in T!ToSet(x2'[t])
        <4>1. CASE t = s
          BY <4>1, <3>2, <3>3, <3>8 DEF q
        <4>2. CASE t # s
          BY <4>2, <3>3
        <4> QED
          BY <4>1, <4>2
      <3>9. T!Waits \subseteq T!Waits' \cup {l0}
        BY <3>8 DEF T!Waits
      <3>10. l0 \notin T!Waits'
        <4>1. \A t \in Screens : l0 \notin T!ToSet(x2'[t])
          <5> SUFFICES ASSUME NEW t \in Screens PROVE l0 \notin T!ToSet(x2'[t])
            OBVIOUS
          <5>1. CASE t = s
            BY <5>1, <3>2, <3>3
          <5>2. CASE t # s
            <6>1. l0 \in T!ToSet(x2[s])
              BY <3>2 DEF q
            <6> QED
              BY <6>1, <5>2, <3>3, <1>5
          <5> QED
            BY <5>1, <5>2
        <4> QED
          BY <4>1 DEF T!Waits
      <3> QED
        BY <3>2, <3>3, <3>5, <3>7, <3>8, <3>9, <3>10, <1>5
    <2> QED
      BY <2>1, <2>2, <1>2
  <1>7. T!TypeOK'
    BY <1>1, <1>3, <1>4, <1>6 DEF T!TypeOK
  <1>8. T!QueuedLines' = T!QueuedLines /\ T!ToSend' = T!ToSend /\ T!Unseen' = T!Unseen
    BY <1>3 DEF T!QueuedLines, T!ToSend, T!Unseen
  <1>9. T!LoopsFit' /\ T!ClientHasOne'
    BY <1>1, <1>3 DEF T!LoopsFit, T!ClientHasOne, T!QueuedLines
  <1>10. T!LinesKnown'
    BY <1>1, <1>3, <1>6, <1>8 DEF T!LinesKnown
  <1>11. T!NothingTypedIsLost'
    BY <1>1, <1>3, <1>6, <1>8 DEF T!NothingTypedIsLost
  <1>12. T!ServerHasOne'
    <2>1. x13.pc = "steering" => x13.session \in Screens
      BY <1>1 DEF T!LoopsFit
    <2>2. x13.pc = "steering" =>
             /\ x13.answer # "steered" => x13.line \notin T!Waits' \cup T!ToSet(x4)
             /\ x13.line \in T!Waits' => x13.line \in T!ToSet(x2'[x13.session])
             /\ x13.line \in T!ToSet(x4) => T!Steered(x13.line) \in T!ToSet(x3[x13.session])
      BY <2>1, <1>1, <1>6 DEF T!ServerHasOne
    <2> QED
      BY <2>2, <1>3, <1>6 DEF T!ServerHasOne, WaitOnce
  <1>13. T!SentOnce'
    <2>1. x6 \in Screens
      BY <1>1, TurnKnown
    <2>2. \A l \in T!ToSet(x4) \ x24 :
             l \notin T!ToSend \cup T!Waits' /\ (l \in T!ToSet(x17) => T!Steered(l) \in T!ToSet(T!Unseen))
      BY <1>1, <1>6 DEF T!SentOnce
    <2>3. \A l \in T!Waits' \ x24 : l \notin T!ToSend /\ (l \in T!ToSet(x17) => l \in T!ToSet(x2'[x6]))
      BY <2>1, <1>1, <1>6 DEF T!SentOnce
    <2>4. T!GivenOnce'
      BY <1>1, <1>3 DEF T!SentOnce, T!GivenOnce
    <2> QED
      BY <2>2, <2>3, <2>4, <1>3, <1>8 DEF T!SentOnce
  <1>14. T!LeftHandsFit'
    BY <1>1, <1>3, <1>6 DEF T!LeftHandsFit
  <1>15. T!StreamFits' /\ T!TurnFits'
    BY <1>1, <1>3, <1>8 DEF T!StreamFits, T!TurnFits
  <1> QED
    BY <1>7, <1>9, <1>10, <1>11, <1>12, <1>13, <1>14, <1>15 DEF T!LinesInv

\* (a line that is typed is new)
LEMMA NewLine ==
  ASSUME T!Assumptions, T!TypeOK, T!LinesKnown
  PROVE  /\ x11 + 1 \in Nat /\ x11 + 1 \in 1 .. x11 + 1 /\ 1 .. x11 \subseteq 1 .. x11 + 1
         /\ 1 .. x11 + 1 = 1 .. x11 \cup {x11 + 1}
         /\ x11 + 1 \notin T!QueuedLines \cup T!ToSet(x17) \cup T!Waits \cup T!ToSet(x4)
         /\ x11 + 1 # x14.line
  <1>1. x11 \in Nat
    BY DEF T!TypeOK
  <1>2. x11 + 1 \in Nat /\ x11 + 1 \notin 1 .. x11 /\ x11 + 1 \in 1 .. x11 + 1
        /\ 1 .. x11 + 1 = 1 .. x11 \cup {x11 + 1}
    BY <1>1
  <1>3. x11 + 1 # NoValue
    BY <1>2, Nones
  <1> QED
    BY <1>2, <1>3 DEF T!LinesKnown

\* a line of text,
LEMMA TypeTextKeeps ==
  ASSUME T!Assumptions, T!LinesInv, T!TypeText
  PROVE  T!LinesInv'
  <1>1. /\ T!TypeOK /\ T!LoopsFit /\ T!LinesKnown /\ T!ClientHasOne /\ T!ServerHasOne /\ T!SentOnce
        /\ T!LeftHandsFit /\ T!StreamFits /\ T!TurnFits /\ T!NothingTypedIsLost
    BY DEF T!LinesInv
  <1> DEFINE n == x11 + 1
             x == [text |-> TRUE, line |-> n, session |-> NoValue]
             r == [pc |-> "steering", line |-> n, by |-> x18, turn |-> x15,
                   session |-> x5, answer |-> NoValue]
  <1>2. /\ x13.pc = "reading" /\ x11' = n
        /\ \/ x18 # NoValue /\ x13' = r /\ x12' = x12
           \/ x12' = Append(x12, x) /\ x13' = x13
    BY DEF T!TypeText, T!Push
  <1>3. UNCHANGED <<x1, x2, x3, x4, x5, x6, x7, x8, x9, x10, x14,
                    x15, x16, x17, x18, x19, x20, x21, x22, x23, x24, x25>>
    BY DEF T!TypeText, T!server, T!sessions, T!stream, T!localTurn, T!handlers, T!history
  <1>4. NoValue # "steered" /\ NoValue \notin Nat /\ NoValue \notin Screens
    BY Nones
  <1>5. /\ n \in Nat /\ n \in 1 .. x11' /\ 1 .. x11 \subseteq 1 .. x11'
        /\ 1 .. x11' = 1 .. x11 \cup {n}
        /\ n \notin T!QueuedLines \cup T!ToSet(x17) \cup T!Waits \cup T!ToSet(x4) /\ n # x14.line
    BY <1>1, <1>2, NewLine
  <1>6. x \in T!Queued /\ x.line = n /\ x.text = TRUE
    BY <1>5 DEF T!Queued
  <1>7. x5 \in Screens /\ x15 \in Nat /\ x18 \in {"local", "remote", NoValue}
    BY <1>1 DEF T!TypeOK
  <1>8. r \in T!Readers /\ r.pc = "steering" /\ r.line = n /\ r.turn = x15 /\ r.session = x5
        /\ r.answer = NoValue
    BY <1>5, <1>7 DEF T!Readers
  <1> HIDE DEF n, x, r
  <1>9. x12 \in Seq(T!Queued) /\ T!QueuedLines = LinesOf(x12) /\ EachOnce(x12) /\ Doable(x12)
    BY <1>1, QueueIs
  <1>10. /\ x12' \in Seq(T!Queued) /\ EachOnce(x12') /\ Doable(x12')
         /\ \/ /\ x13' = r /\ T!QueuedLines' = T!QueuedLines
            \/ /\ x13' = x13 /\ T!QueuedLines' = T!QueuedLines \cup {n}
    <2>1. T!QueuedLines' = LinesOf(x12')
      BY DEF T!QueuedLines, LinesOf
    <2>2. CASE x13' = r /\ x12' = x12
      BY <2>1, <2>2, <1>9
    <2>3. CASE x12' = Append(x12, x) /\ x13' = x13
      BY <2>1, <2>3, <1>5, <1>6, <1>9, LinesAppended
    <2> QED
      BY <2>2, <2>3, <1>2
  <1>11. T!TypeOK'
    <2>1. x13' \in T!Readers /\ x11' \in Nat
      BY <1>1, <1>2, <1>5, <1>8 DEF T!TypeOK
    <2> QED
      BY <2>1, <1>1, <1>3, <1>10 DEF T!TypeOK
  <1>12. T!LoopsFit'
    <2>1. IF x13'.pc = "steering" THEN x13'.line \in 1 .. x11' /\ x13'.session \in Screens
          ELSE x13'.line = NoValue
      BY <1>1, <1>2, <1>5, <1>7, <1>8 DEF T!LoopsFit
    <2>2. x13'.turn <= x15
      BY <1>1, <1>2, <1>7, <1>8 DEF T!LoopsFit
    <2>3. x16 => x5 = x6
      BY <1>1 DEF T!LoopsFit, T!InTurn
    <2>4. x13'.pc = "steering" /\ x16 => x13'.session = x6
      BY <2>3, <1>2, <1>8
    <2>5. \A i \in DOMAIN x12' : x12'[i].text \/ x12'[i].session \in Screens
      BY <1>10 DEF Doable
    <2> QED
      BY <2>1, <2>2, <2>4, <2>5, <1>1, <1>3 DEF T!LoopsFit
  <1>13. T!Waits' = T!Waits /\ T!Unseen' = T!Unseen
    BY <1>3 DEF T!Waits, T!Unseen
  <1>14. T!LinesKnown'
    BY <1>1, <1>3, <1>5, <1>10, <1>13 DEF T!LinesKnown
  <1>15. T!ClientHasOne'
    <2>1. \A i, j \in DOMAIN x12' : x12'[i].line = x12'[j].line => i = j
      BY <1>10 DEF EachOnce
    <2>2. T!QueuedLines' \cap T!ToSet(x17) = {} /\ x14.line \notin T!QueuedLines' \cup T!ToSet(x17)
      BY <1>1, <1>5, <1>10 DEF T!ClientHasOne
    <2>3. x13'.pc = "steering" => x13'.line \notin T!QueuedLines' \cup T!ToSet(x17) \cup {x14.line}
      BY <1>2, <1>5, <1>8, <1>10
    <2> QED
      BY <2>1, <2>2, <2>3, <1>1, <1>3 DEF T!ClientHasOne
  <1>16. T!ServerHasOne'
    <2>1. x13'.pc = "steering" => x13'.line = n
      BY <1>2, <1>8
    <2>2. x13'.line = n => x13'.line \notin T!Waits \cup T!ToSet(x4)
      BY <1>5
    <2> QED
      BY <2>1, <2>2, <1>1, <1>3, <1>13 DEF T!ServerHasOne
  <1>17. T!SentOnce'
    <2>1. T!ToSend' \subseteq T!ToSend \cup {n}
      BY <1>3, <1>10 DEF T!ToSend
    <2> QED
      BY <2>1, <1>1, <1>3, <1>5, <1>13 DEF T!SentOnce, T!GivenOnce
  <1>18. T!LeftHandsFit'
    <2>1. x13'.pc = "steering" => x13'.answer # "steered"
      BY <1>2, <1>4, <1>8
    <2> QED
      BY <2>1, <1>1, <1>3, <1>13 DEF T!LeftHandsFit
  <1>19. T!StreamFits' /\ T!TurnFits'
    BY <1>1, <1>3, <1>13 DEF T!StreamFits, T!TurnFits
  <1>20. T!NothingTypedIsLost'
    <2>1. x13.line = NoValue
      BY <1>1, <1>2 DEF T!LoopsFit
    <2>2. n \in T!QueuedLines' \cup {x13'.line} /\ T!QueuedLines \subseteq T!QueuedLines'
      BY <1>8, <1>10
    <2>3. NoValue \notin 1 .. x11
      BY <1>1, <1>4 DEF T!TypeOK
    <2> QED
      BY <2>1, <2>2, <2>3, <1>1, <1>3, <1>5, <1>13 DEF T!NothingTypedIsLost
  <1> QED
    BY <1>11, <1>12, <1>14, <1>15, <1>16, <1>17, <1>18, <1>19, <1>20 DEF T!LinesInv

\* a command,
LEMMA TypeSwitchKeeps ==
  ASSUME T!Assumptions, T!LinesInv, T!TypeSwitch
  PROVE  T!LinesInv'
  <1>1. /\ T!TypeOK /\ T!LoopsFit /\ T!LinesKnown /\ T!ClientHasOne /\ T!ServerHasOne /\ T!SentOnce
        /\ T!LeftHandsFit /\ T!StreamFits /\ T!TurnFits /\ T!NothingTypedIsLost
    BY DEF T!LinesInv
  <1> DEFINE n == x11 + 1
  <1>2. PICK s \in Screens \cup {NoValue} :
           /\ x13.pc = "reading" /\ x11' = n
           /\ \/ x22' = x22 \cup {n} /\ x12' = x12
              \/ /\ s \in Screens /\ x12' = Append(x12, [text |-> FALSE, line |-> n, session |-> s])
                 /\ x22' = x22
    BY DEF T!TypeSwitch, T!Push
  <1>3. UNCHANGED <<x1, x2, x3, x4, x5, x6, x7, x8, x9, x10, x14, x13,
                    x15, x16, x17, x18, x19, x20, x21, x23, x24, x25>>
    BY DEF T!TypeSwitch, T!server, T!sessions, T!stream, T!localTurn, T!handlers, T!history
  <1>5. /\ n \in Nat /\ n \in 1 .. x11' /\ 1 .. x11 \subseteq 1 .. x11'
        /\ 1 .. x11' = 1 .. x11 \cup {n}
        /\ n \notin T!QueuedLines \cup T!ToSet(x17) \cup T!Waits \cup T!ToSet(x4) /\ n # x14.line
    BY <1>1, <1>2, NewLine
  <1>9. x12 \in Seq(T!Queued) /\ T!QueuedLines = LinesOf(x12) /\ EachOnce(x12) /\ Doable(x12)
    BY <1>1, QueueIs
  <1> HIDE DEF n
  <1>10. /\ x12' \in Seq(T!Queued) /\ EachOnce(x12') /\ Doable(x12')
         /\ T!QueuedLines \subseteq T!QueuedLines' /\ T!QueuedLines' \subseteq T!QueuedLines \cup {n}
         /\ x22 \subseteq x22' /\ x22' \subseteq x22 \cup {n} /\ n \in x22' \cup T!QueuedLines'
    <2>1. T!QueuedLines' = LinesOf(x12')
      BY DEF T!QueuedLines, LinesOf
    <2>2. CASE x22' = x22 \cup {n} /\ x12' = x12
      BY <2>1, <2>2, <1>9
    <2>3. CASE /\ s \in Screens /\ x12' = Append(x12, [text |-> FALSE, line |-> n, session |-> s])
               /\ x22' = x22
      <3> DEFINE x == [text |-> FALSE, line |-> n, session |-> s]
      <3>1. x \in T!Queued /\ x.line = n /\ x.session \in Screens
        BY <2>3, <1>5 DEF T!Queued
      <3>2. x12' = Append(x12, x)
        BY <2>3
      <3> HIDE DEF x
      <3>3. n \notin LinesOf(x12)
        BY <1>5, <1>9
      <3>4. x12' \in Seq(T!Queued) /\ LinesOf(x12') = LinesOf(x12) \cup {n}
            /\ EachOnce(x12') /\ Doable(x12')
        BY <3>1, <3>2, <3>3, <1>9, LinesAppended
      <3> QED
        BY <2>1, <2>3, <3>4, <1>9
    <2> QED
      BY <2>2, <2>3, <1>2
  <1>11. T!TypeOK'
    <2>1. x11' \in Nat /\ x22' \subseteq Nat
      BY <1>1, <1>2, <1>5, <1>10 DEF T!TypeOK
    <2> QED
      BY <2>1, <1>1, <1>3, <1>10 DEF T!TypeOK
  <1>12. T!LoopsFit'
    <2>1. \A i \in DOMAIN x12' : x12'[i].text \/ x12'[i].session \in Screens
      BY <1>10 DEF Doable
    <2>2. x13.pc # "steering" /\ x13.line = NoValue
      BY <1>1, <1>2 DEF T!LoopsFit
    <2> QED
      BY <2>1, <2>2, <1>1, <1>3 DEF T!LoopsFit
  <1>13. T!Waits' = T!Waits /\ T!Unseen' = T!Unseen /\ T!ToSend' \subseteq T!ToSend \cup {n}
    BY <1>3, <1>10 DEF T!Waits, T!Unseen, T!ToSend
  <1>14. T!LinesKnown'
    BY <1>1, <1>3, <1>5, <1>10, <1>13 DEF T!LinesKnown
  <1>15. T!ClientHasOne'
    <2>1. \A i, j \in DOMAIN x12' : x12'[i].line = x12'[j].line => i = j
      BY <1>10 DEF EachOnce
    <2>2. T!QueuedLines' \cap T!ToSet(x17) = {} /\ x14.line \notin T!QueuedLines' \cup T!ToSet(x17)
      BY <1>1, <1>5, <1>10 DEF T!ClientHasOne
    <2>3. x13.pc # "steering"
      BY <1>2
    <2> QED
      BY <2>1, <2>2, <2>3, <1>1, <1>3 DEF T!ClientHasOne
  <1>16. T!ServerHasOne'
    BY <1>1, <1>3, <1>13 DEF T!ServerHasOne
  <1>17. T!SentOnce'
    BY <1>1, <1>3, <1>5, <1>13 DEF T!SentOnce, T!GivenOnce
  <1>18. T!LeftHandsFit'
    BY <1>1, <1>3, <1>10, <1>13 DEF T!LeftHandsFit
  <1>19. T!StreamFits' /\ T!TurnFits'
    BY <1>1, <1>3, <1>13 DEF T!StreamFits, T!TurnFits
  <1>20. T!NothingTypedIsLost'
    BY <1>1, <1>3, <1>5, <1>10, <1>13 DEF T!NothingTypedIsLost
  <1> QED
    BY <1>11, <1>12, <1>14, <1>15, <1>16, <1>17, <1>18, <1>19, <1>20 DEF T!LinesInv

\* the answer to a message,
LEMMA SteerAnsweredKeeps ==
  ASSUME T!Assumptions, T!LinesInv, T!SteerAnswered
  PROVE  T!LinesInv'
  <1>1. /\ T!TypeOK /\ T!LoopsFit /\ T!LinesKnown /\ T!ClientHasOne /\ T!ServerHasOne /\ T!SentOnce
        /\ T!LeftHandsFit /\ T!StreamFits /\ T!TurnFits /\ T!NothingTypedIsLost
    BY DEF T!LinesInv
  <1> DEFINE m == x13.line
             x == [text |-> TRUE, line |-> m, session |-> NoValue]
             steered == x13.answer = "steered"
             remembered == steered /\ x13.by = "local"
             alive == x16 /\ x13.turn = x15
             overtaken == T!Steered(m) \in T!ToSet(SubSeq(x3[x6], 1, x7))
  <1>2. /\ x13.pc = "steering" /\ x13.answer # NoValue /\ x13' = T!Reading
        /\ x17' = IF remembered /\ alive THEN Append(x17, m) ELSE x17
        /\ x24' = IF remembered /\ (~alive \/ overtaken) THEN x24 \cup {m} ELSE x24
        /\ IF steered THEN x12' = x12 ELSE x12' = Append(x12, x)
    BY DEF T!SteerAnswered, T!Push
  <1>3. UNCHANGED <<x1, x2, x3, x4, x5, x6, x7, x8, x9, x10, x14, x11,
                    x15, x16, x18, x19, x20, x21, x22, x23, x25>>
    BY DEF T!SteerAnswered, T!server, T!sessions, T!stream, T!handlers
  <1>4. /\ NoValue \notin Nat /\ T!Reading \in T!Readers /\ T!Reading.pc = "reading"
        /\ T!Reading.line = NoValue /\ T!Reading.turn = 0
    BY Nones DEF T!Reading, T!Readers
  <1>5. m \in Nat /\ m \in 1 .. x11 /\ x13.session \in Screens
    BY <1>1, <1>2 DEF T!LoopsFit
  <1>6. m \notin T!QueuedLines \cup T!ToSet(x17) \cup {x14.line}
    BY <1>1, <1>2 DEF T!ClientHasOne
  <1>7. /\ ~steered => m \notin T!Waits \cup T!ToSet(x4)
        /\ m \in T!Waits => m \in T!ToSet(x2[x13.session])
        /\ m \in T!ToSet(x4) => T!Steered(m) \in T!ToSet(x3[x13.session])
    BY <1>1, <1>2 DEF T!ServerHasOne
  <1>8. remembered /\ alive => x13.session = x6
    BY <1>1, <1>2 DEF T!LoopsFit
  <1>9. steered /\ ~remembered => m \in T!Waits \cup T!ToSet(x4) \cup x22 \cup x24
    BY <1>1, <1>2 DEF T!LeftHandsFit
  <1>10. x \in T!Queued /\ x.line = m /\ x.text = TRUE
    BY <1>5 DEF T!Queued
  <1>11. T!ToSet(x3[x6]) = T!ToSet(SubSeq(x3[x6], 1, x7)) \cup T!ToSet(T!Unseen)
    BY <1>1, UnseenIs
  <1>12. x12 \in Seq(T!Queued) /\ T!QueuedLines = LinesOf(x12) /\ EachOnce(x12) /\ Doable(x12)
    BY <1>1, QueueIs
  <1>13. x17 \in Seq(Nat) /\ T!IsInjective(x17) /\ (~x16 => x17 = <<>>)
    BY <1>1 DEF T!TypeOK, T!ClientHasOne, T!LoopsFit
  <1>14. ~overtaken /\ T!Steered(m) \in T!ToSet(x3[x6]) => T!Steered(m) \in T!ToSet(T!Unseen)
    BY <1>11
  <1> HIDE DEF m, x, steered, alive, overtaken
  <1>15. /\ x12' \in Seq(T!Queued) /\ EachOnce(x12') /\ Doable(x12')
         /\ steered => T!QueuedLines' = T!QueuedLines
         /\ ~steered => T!QueuedLines' = T!QueuedLines \cup {m}
    <2>1. T!QueuedLines' = LinesOf(x12')
      BY DEF T!QueuedLines, LinesOf
    <2>2. CASE steered
      BY <2>1, <2>2, <1>2, <1>12
    <2>3. CASE ~steered
      <3>1. x12' = Append(x12, x) /\ m \notin LinesOf(x12)
        BY <2>3, <1>2, <1>6, <1>12
      <3>2. x12' \in Seq(T!Queued) /\ LinesOf(x12') = LinesOf(x12) \cup {m}
            /\ EachOnce(x12') /\ Doable(x12')
        BY <3>1, <1>10, <1>12, LinesAppended
      <3> QED
        BY <2>1, <2>3, <3>2, <1>12
    <2> QED
      BY <2>2, <2>3
  <1>16. /\ x17' \in Seq(Nat) /\ T!IsInjective(x17') /\ (~x16 => x17' = <<>>)
         /\ remembered /\ alive => T!ToSet(x17') = T!ToSet(x17) \cup {m}
         /\ ~(remembered /\ alive) => T!ToSet(x17') = T!ToSet(x17)
    <2>1. CASE remembered /\ alive
      <3>1. x17' = Append(x17, m) /\ x16
        BY <2>1, <1>2 DEF alive
      <3>2. m \notin T!ToSet(x17)
        BY <1>6
      <3>3. Append(x17, m) \in Seq(Nat) /\ T!ToSet(Append(x17, m)) = T!ToSet(x17) \cup {m}
            /\ T!IsInjective(Append(x17, m))
        BY <3>2, <1>5, <1>13, Appended
      <3> QED
        BY <2>1, <3>1, <3>3
    <2>2. CASE ~(remembered /\ alive)
      BY <2>2, <1>2, <1>13
    <2> QED
      BY <2>1, <2>2
  <1>17. x24 \subseteq x24' /\ x24' \subseteq x24 \cup {m}
         /\ (remembered /\ (~alive \/ overtaken) => m \in x24')
    BY <1>2
  <1>18. remembered => steered
    OBVIOUS
  <1>19. T!TypeOK'
    <2>1. x13' \in T!Readers /\ x24' \subseteq Nat
      BY <1>1, <1>2, <1>4, <1>5, <1>17 DEF T!TypeOK
    <2> QED
      BY <2>1, <1>1, <1>3, <1>15, <1>16 DEF T!TypeOK
  <1>20. x13'.pc = "reading" /\ x13'.line = NoValue /\ x13'.turn = 0
    BY <1>2, <1>4
  <1>21. T!LoopsFit'
    <2>1. \A i \in DOMAIN x12' : x12'[i].text \/ x12'[i].session \in Screens
      BY <1>15 DEF Doable
    <2>2. x15 \in Nat
      BY <1>1 DEF T!TypeOK
    <2>3. 0 <= x15
      BY <2>2
    <2> QED
      BY <2>1, <2>3, <1>1, <1>3, <1>16, <1>20 DEF T!LoopsFit
  <1>22. T!Waits' = T!Waits /\ T!Unseen' = T!Unseen /\ T!ToSend \subseteq T!ToSend'
         /\ T!ToSend' \subseteq T!ToSend \cup {m} /\ (steered => T!ToSend' = T!ToSend)
    BY <1>3, <1>15 DEF T!Waits, T!Unseen, T!ToSend
  <1> HIDE DEF remembered
  <1>23. T!LinesKnown'
    BY <1>1, <1>3, <1>5, <1>15, <1>16, <1>22 DEF T!LinesKnown
  <1>24. T!ClientHasOne'
    <2>1. \A i, j \in DOMAIN x12' : x12'[i].line = x12'[j].line => i = j
      BY <1>15 DEF EachOnce
    <2>2. T!QueuedLines' \cap T!ToSet(x17') = {} /\ x14.line \notin T!QueuedLines' \cup T!ToSet(x17')
      BY <1>1, <1>6, <1>15, <1>16, <1>18 DEF T!ClientHasOne
    <2> QED
      BY <2>1, <2>2, <1>3, <1>16, <1>20 DEF T!ClientHasOne
  <1>25. T!ServerHasOne'
    BY <1>1, <1>3, <1>20, <1>22 DEF T!ServerHasOne
  <1>26. T!SentOnce'
    <2>1. T!GivenOnce'
      BY <1>1, <1>3, <1>17 DEF T!SentOnce, T!GivenOnce
    <2>2. ASSUME NEW l \in T!ToSet(x4) \ x24'
          PROVE  l \notin T!ToSend' \cup T!Waits /\ (l \in T!ToSet(x17') => T!Steered(l) \in T!ToSet(T!Unseen))
      <3>1. l \notin T!ToSend \cup T!Waits /\ (l \in T!ToSet(x17) => T!Steered(l) \in T!ToSet(T!Unseen))
        BY <2>2, <1>1, <1>17 DEF T!SentOnce
      <3>2. l \notin T!ToSend' \cup T!Waits
        BY <3>1, <2>2, <1>7, <1>22
      <3>3. ASSUME l \in T!ToSet(x17'), l \notin T!ToSet(x17) PROVE T!Steered(l) \in T!ToSet(T!Unseen)
        <4>1. l = m /\ remembered /\ alive
          BY <3>3, <1>16
        <4>2. ~overtaken
          BY <4>1, <2>2, <1>17
        <4>3. T!Steered(m) \in T!ToSet(x3[x6])
          BY <4>1, <2>2, <1>7, <1>8
        <4> QED
          BY <4>1, <4>2, <4>3, <1>14
      <3> QED
        BY <3>1, <3>2, <3>3
    <2>3. ASSUME NEW l \in T!Waits \ x24'
          PROVE  l \notin T!ToSend' /\ (l \in T!ToSet(x17') => l \in T!ToSet(x2[x6]))
      <3>1. l \notin T!ToSend /\ (l \in T!ToSet(x17) => l \in T!ToSet(x2[x6]))
        BY <2>3, <1>1, <1>17 DEF T!SentOnce
      <3>2. l \notin T!ToSend'
        BY <3>1, <2>3, <1>7, <1>22
      <3>3. ASSUME l \in T!ToSet(x17'), l \notin T!ToSet(x17) PROVE l \in T!ToSet(x2[x6])
        <4>1. l = m /\ remembered /\ alive
          BY <3>3, <1>16
        <4> QED
          BY <4>1, <2>3, <1>7, <1>8
      <3> QED
        BY <3>1, <3>2, <3>3
    <2> QED
      BY <2>1, <2>2, <2>3, <1>3, <1>22 DEF T!SentOnce
  <1>27. T!LeftHandsFit'
    BY <1>1, <1>3, <1>17, <1>20, <1>22 DEF T!LeftHandsFit
  <1>28. T!StreamFits' /\ T!TurnFits'
    BY <1>1, <1>3, <1>22 DEF T!StreamFits, T!TurnFits
  <1>29. T!NothingTypedIsLost'
    <2>1. m \in T!QueuedLines' \cup T!ToSet(x17') \cup T!Waits \cup T!ToSet(x4) \cup x22 \cup x24'
      BY <1>9, <1>15, <1>16, <1>17
    <2>2. T!QueuedLines \subseteq T!QueuedLines' /\ T!ToSet(x17) \subseteq T!ToSet(x17')
      BY <1>15, <1>16
    <2>3. 1 .. x11 \subseteq T!QueuedLines \cup {m, x14.line} \cup T!ToSet(x17) \cup T!Waits
                             \cup T!ToSet(x4) \cup x22 \cup x24
      BY <1>1 DEF T!NothingTypedIsLost, m
    <2> QED
      BY <2>1, <2>2, <2>3, <1>3, <1>17, <1>22 DEF T!NothingTypedIsLost
  <1> QED
    BY <1>19, <1>21, <1>23, <1>24, <1>25, <1>26, <1>27, <1>28, <1>29 DEF T!LinesInv

\* a line taken back,
LEMMA TakeBackKeeps ==
  ASSUME T!Assumptions, T!LinesInv, T!TakeBack
  PROVE  T!LinesInv'
  <1>1. /\ T!TypeOK /\ T!LoopsFit /\ T!LinesKnown /\ T!ClientHasOne /\ T!ServerHasOne /\ T!SentOnce
        /\ T!LeftHandsFit /\ T!StreamFits /\ T!TurnFits /\ T!NothingTypedIsLost
    BY DEF T!LinesInv
  <1>2. /\ \/ /\ x12 # <<>> /\ x22' = x22 \cup {T!Last(x12).line} /\ x12' = T!Front(x12)
              /\ UNCHANGED <<x17, x21>>
           \/ /\ x17 # <<>> /\ x22' = x22 \cup {T!Last(x17)} /\ x17' = T!Front(x17)
              /\ x21' = [x21 EXCEPT ![x5] = @ + 1]
              /\ UNCHANGED x12
           \/ /\ x21' = [x21 EXCEPT ![x5] = @ + 1]
              /\ UNCHANGED <<x22, x12, x17>>
    BY DEF T!TakeBack
  <1>3. UNCHANGED <<x1, x2, x3, x4, x5, x6, x7, x8, x9, x10, x14, x11, x13,
                    x15, x16, x18, x19, x20, x24, x25>>
    BY DEF T!TakeBack, T!server, T!sessions, T!stream, T!handlers, T!history
  <1>4. x23' \in [{"others", "failures", "drops", "pops"} -> Nat]
    BY <1>1, Counted DEF T!TakeBack
  <1>5. x12 \in Seq(T!Queued) /\ T!QueuedLines = LinesOf(x12) /\ EachOnce(x12) /\ Doable(x12)
    BY <1>1, QueueIs
  <1>6. x17 \in Seq(Nat) /\ T!IsInjective(x17) /\ x22 \subseteq Nat
        /\ x5 \in Screens /\ x21 \in [Screens -> Nat]
    BY <1>1 DEF T!TypeOK, T!ClientHasOne
  <1>7. x21' \in [Screens -> Nat]
    <2>1. x21[x5] + 1 \in Nat
      BY <1>6
    <2> QED
      BY <2>1, <1>2, <1>6
  <1>8. T!QueuedLines' = LinesOf(x12')
    BY DEF T!QueuedLines, LinesOf
  <1>9. /\ x12' \in Seq(T!Queued) /\ EachOnce(x12') /\ Doable(x12')
        /\ x17' \in Seq(Nat) /\ T!IsInjective(x17') /\ (x17 = <<>> => x17' = <<>>)
        /\ T!QueuedLines' \subseteq T!QueuedLines /\ T!ToSet(x17') \subseteq T!ToSet(x17)
        /\ x22 \subseteq x22' /\ x22' \subseteq Nat
        /\ T!QueuedLines \cup T!ToSet(x17) \subseteq T!QueuedLines' \cup T!ToSet(x17') \cup x22'
    <2>1. CASE /\ x12 # <<>> /\ x22' = x22 \cup {T!Last(x12).line} /\ x12' = T!Front(x12)
               /\ UNCHANGED <<x17, x21>>
      <3>1. /\ x12' \in Seq(T!Queued) /\ T!Last(x12) \in T!Queued
            /\ LinesOf(x12) = LinesOf(x12') \cup {T!Last(x12).line}
            /\ EachOnce(x12') /\ Doable(x12')
        BY <2>1, <1>5, LinesFront
      <3>2. T!Last(x12).line \in Nat
        BY <3>1 DEF T!Queued
      <3> QED
        BY <2>1, <3>1, <3>2, <1>5, <1>6, <1>8
    <2>2. CASE /\ x17 # <<>> /\ x22' = x22 \cup {T!Last(x17)} /\ x17' = T!Front(x17)
               /\ UNCHANGED x12
      <3>1. /\ x17' \in Seq(Nat) /\ T!Last(x17) \in Nat
            /\ T!ToSet(x17) = T!ToSet(x17') \cup {T!Last(x17)} /\ T!IsInjective(x17')
        BY <2>2, <1>6, FrontLast
      <3> QED
        BY <2>2, <3>1, <1>5, <1>6, <1>8
    <2>3. CASE UNCHANGED <<x22, x12, x17>>
      BY <2>3, <1>5, <1>6, <1>8
    <2> QED
      BY <2>1, <2>2, <2>3, <1>2
  <1>10. T!TypeOK'
    BY <1>1, <1>3, <1>4, <1>7, <1>9 DEF T!TypeOK
  <1>11. T!LoopsFit'
    <2>1. \A i \in DOMAIN x12' : x12'[i].text \/ x12'[i].session \in Screens
      BY <1>9 DEF Doable
    <2>2. ~x16 => x17' = <<>>
      BY <1>1, <1>9 DEF T!LoopsFit
    <2> QED
      BY <2>1, <2>2, <1>1, <1>3 DEF T!LoopsFit
  <1>12. T!Waits' = T!Waits /\ T!Unseen' = T!Unseen /\ T!ToSend' \subseteq T!ToSend
    BY <1>3, <1>9 DEF T!Waits, T!Unseen, T!ToSend
  <1>13. T!LinesKnown'
    BY <1>1, <1>3, <1>9, <1>12 DEF T!LinesKnown
  <1>14. T!ClientHasOne'
    <2>1. \A i, j \in DOMAIN x12' : x12'[i].line = x12'[j].line => i = j
      BY <1>9 DEF EachOnce
    <2>2. T!QueuedLines' \cap T!ToSet(x17') = {} /\ x14.line \notin T!QueuedLines' \cup T!ToSet(x17')
      BY <1>1, <1>9 DEF T!ClientHasOne
    <2>3. x13.pc = "steering" => x13.line \notin T!QueuedLines' \cup T!ToSet(x17') \cup {x14.line}
      BY <1>1, <1>9 DEF T!ClientHasOne
    <2> QED
      BY <2>1, <2>2, <2>3, <1>3, <1>9 DEF T!ClientHasOne
  <1>15. T!ServerHasOne'
    BY <1>1, <1>3, <1>12 DEF T!ServerHasOne
  <1>16. T!SentOnce'
    BY <1>1, <1>3, <1>9, <1>12 DEF T!SentOnce, T!GivenOnce
  <1>17. T!LeftHandsFit'
    BY <1>1, <1>3, <1>9, <1>12 DEF T!LeftHandsFit
  <1>18. T!StreamFits' /\ T!TurnFits'
    BY <1>1, <1>3, <1>12 DEF T!StreamFits, T!TurnFits
  <1>19. T!NothingTypedIsLost'
    BY <1>1, <1>3, <1>9, <1>12 DEF T!NothingTypedIsLost
  <1> QED
    BY <1>10, <1>11, <1>13, <1>14, <1>15, <1>16, <1>17, <1>18, <1>19 DEF T!LinesInv

\* a line sent as a turn,
LEMMA StartTurnKeeps ==
  ASSUME T!Assumptions, T!LinesInv, T!StartTurn
  PROVE  T!LinesInv'
  <1>1. /\ T!TypeOK /\ T!LoopsFit /\ T!LinesKnown /\ T!ClientHasOne /\ T!ServerHasOne /\ T!SentOnce
        /\ T!LeftHandsFit /\ T!StreamFits /\ T!TurnFits /\ T!NothingTypedIsLost
    BY DEF T!LinesInv
  <1> DEFINE h == Head(x12)
             m == h.line
  <1>2. /\ x14.pc = "shift" /\ x12 # <<>> /\ x12' = Tail(x12)
        /\ x14' = [T!Waiting EXCEPT !.pc = "sent", !.line = m, !.session = x5]
        /\ x16' = TRUE /\ x15' = x15 + 1 /\ x17' = <<>> /\ x18' = "local" /\ x19' = "local"
    BY DEF T!StartTurn
  <1>3. UNCHANGED <<x1, x2, x3, x4, x5, x6, x7, x8, x9, x10, x11, x13,
                    x20, x21, x22, x23, x24, x25>>
    BY DEF T!StartTurn, T!server, T!sessions, T!stream, T!history
  <1>4. x12 \in Seq(T!Queued) /\ T!QueuedLines = LinesOf(x12) /\ EachOnce(x12) /\ Doable(x12)
    BY <1>1, QueueIs
  <1>5. h \in T!Queued
    BY <1>2, <1>4, LinesTail
  <1>6. m \in Nat /\ x5 \in Screens /\ NoValue \notin Nat
    BY <1>1, <1>5, Nones DEF T!TypeOK, T!Queued
  <1>7. x14' \in T!MainLoops /\ x14'.pc = "sent" /\ x14'.line = m /\ x14'.session = x5
    BY <1>2, <1>6 DEF T!Waiting, T!MainLoops, T!InTurn
  <1>8. /\ x12' \in Seq(T!Queued) /\ EachOnce(x12') /\ Doable(x12')
        /\ T!QueuedLines = T!QueuedLines' \cup {m} /\ m \notin T!QueuedLines'
    <2>1. T!QueuedLines' = LinesOf(x12')
      BY DEF T!QueuedLines, LinesOf
    <2> QED
      BY <2>1, <1>2, <1>4, LinesTail
  <1> HIDE DEF m, h
  <1>9. ~x16 /\ x17 = <<>> /\ x14.line = NoValue /\ x5 = x6 /\ \A t \in Screens : x1[t] # "own"
    BY <1>1, <1>2 DEF T!LoopsFit, T!InTurn
  <1>10. <<>> \in Seq(Nat) /\ T!ToSet(<<>>) = {} /\ T!IsInjective(<<>>)
    BY DEF T!ToSet, T!IsInjective
  <1>11. T!ToSet(x17) = {} /\ T!ToSet(x17') = {} /\ x17' \in Seq(Nat) /\ T!IsInjective(x17')
    BY <1>2, <1>9, <1>10
  <1>12. x15 \in Nat /\ x13.turn \in Nat /\ x13.turn <= x15
    BY <1>1 DEF T!TypeOK, T!LoopsFit, T!Readers
  <1>13. x15' \in Nat /\ x13.turn <= x15' /\ x13.turn # x15'
    BY <1>12, <1>2
  <1>14. T!TypeOK'
    BY <1>1, <1>2, <1>3, <1>7, <1>8, <1>11, <1>13 DEF T!TypeOK
  <1>15. T!LoopsFit'
    <2>1. \A i \in DOMAIN x12' : x12'[i].text \/ x12'[i].session \in Screens
      BY <1>8 DEF Doable
    <2>2. x16' = (x14'.pc \in T!InTurn)
      BY <1>2, <1>7 DEF T!InTurn
    <2> QED
      BY <2>1, <2>2, <1>1, <1>2, <1>3, <1>6, <1>7, <1>9, <1>13 DEF T!LoopsFit
  <1>16. T!Waits' = T!Waits /\ T!Unseen' = T!Unseen /\ T!ToSend' \subseteq T!ToSend
    BY <1>3, <1>7, <1>8 DEF T!Waits, T!Unseen, T!ToSend
  <1>17. T!LinesKnown'
    BY <1>1, <1>3, <1>7, <1>8, <1>11, <1>16 DEF T!LinesKnown
  <1>18. T!ClientHasOne'
    <2>1. \A i, j \in DOMAIN x12' : x12'[i].line = x12'[j].line => i = j
      BY <1>8 DEF EachOnce
    <2>2. x13.pc = "steering" => x13.line \notin T!QueuedLines' \cup {m}
      BY <1>1, <1>8 DEF T!ClientHasOne
    <2> QED
      BY <2>1, <2>2, <1>3, <1>7, <1>8, <1>11 DEF T!ClientHasOne
  <1>19. T!ServerHasOne'
    BY <1>1, <1>3, <1>16 DEF T!ServerHasOne
  <1>20. T!SentOnce'
    BY <1>1, <1>3, <1>11, <1>16 DEF T!SentOnce, T!GivenOnce
  <1>21. T!LeftHandsFit'
    BY <1>1, <1>3, <1>7, <1>16 DEF T!LeftHandsFit
  <1>22. T!StreamFits'
    BY <1>1, <1>3, <1>7, <1>16 DEF T!StreamFits
  <1>23. T!TurnFits'
    BY <1>2, <1>7 DEF T!TurnFits
  <1>24. T!NothingTypedIsLost'
    <2>1. NoValue \notin 1 .. x11
      BY <1>1, <1>6 DEF T!TypeOK
    <2> QED
      BY <2>1, <1>1, <1>3, <1>7, <1>8, <1>9, <1>11, <1>16 DEF T!NothingTypedIsLost
  <1> QED
    BY <1>14, <1>15, <1>17, <1>18, <1>19, <1>20, <1>21, <1>22, <1>23, <1>24 DEF T!LinesInv

\* a turn that is over for the client,
LEMMA TurnSettledKeeps ==
  ASSUME T!Assumptions, T!LinesInv, T!TurnSettled
  PROVE  T!LinesInv'
  <1>1. /\ T!TypeOK /\ T!LoopsFit /\ T!LinesKnown /\ T!ClientHasOne /\ T!ServerHasOne /\ T!SentOnce
        /\ T!LeftHandsFit /\ T!StreamFits /\ T!TurnFits /\ T!NothingTypedIsLost
    BY DEF T!LinesInv
  <1> DEFINE again == {l \in T!ToSet(x17) : T!Steered(l) \in T!ToSet(T!Unseen) \/ l \in T!ToSet(x2[x6])}
             before == SubSeq(x3[x6], 1, x7)
  <1>2. /\ x14.pc = "ended" /\ x16' = FALSE /\ x17' = <<>> /\ x20' = FALSE /\ x18' = NoValue
        /\ x19' = "queue" /\ x12' = T!Texts(x17) \o x12 /\ x14' = T!Waiting
        /\ x24' = x24 \cup again /\ x25' = (T!LastTurn(before) = T!Running("other"))
    BY DEF T!TurnSettled
  <1>3. UNCHANGED <<x1, x2, x3, x4, x5, x6, x7, x8, x9, x10, x11, x13,
                    x15, x21, x22, x23>>
    BY DEF T!TurnSettled, T!server, T!sessions, T!stream
  <1>4. x12 \in Seq(T!Queued) /\ T!QueuedLines = LinesOf(x12) /\ EachOnce(x12) /\ Doable(x12)
    BY <1>1, QueueIs
  <1>5. x17 \in Seq(Nat) /\ T!IsInjective(x17) /\ T!ToSet(x17) \subseteq Nat
    <2>1. x17 \in Seq(Nat) /\ T!IsInjective(x17)
      BY <1>1 DEF T!TypeOK, T!ClientHasOne
    <2> QED
      BY <2>1 DEF T!ToSet
  <1>6. NoValue \notin Nat /\ NoValue # "own" /\ NoValue # "other"
    BY Nones
  <1>7. x14' \in T!MainLoops /\ x14'.pc = "shift" /\ x14'.line = NoValue
    BY <1>2 DEF T!Waiting, T!MainLoops
  <1>8. /\ x12' \in Seq(T!Queued) /\ EachOnce(x12') /\ Doable(x12')
        /\ T!QueuedLines' = T!ToSet(x17) \cup T!QueuedLines
    <2>1. T!QueuedLines' = LinesOf(x12')
      BY DEF T!QueuedLines, LinesOf
    <2>2. T!ToSet(x17) \cap LinesOf(x12) = {}
      BY <1>1, <1>4 DEF T!ClientHasOne
    <2> QED
      BY <2>1, <2>2, <1>2, <1>4, <1>5, LinesBack
  <1>9. x16 /\ x5 = x6 /\ \A t \in Screens : x1[t] # "own"
    BY <1>1, <1>2 DEF T!LoopsFit, T!InTurn
  <1>10. <<>> \in Seq(Nat) /\ T!ToSet(<<>>) = {} /\ T!IsInjective(<<>>)
    BY DEF T!ToSet, T!IsInjective
  <1>11. T!ToSet(x17') = {} /\ x17' \in Seq(Nat) /\ T!IsInjective(x17')
    BY <1>2, <1>10
  <1>12. x14.line \in T!ToSet(x4)
    BY <1>1, <1>2 DEF T!LeftHandsFit
  <1>13. /\ \A l \in T!ToSet(x17) \ x24' : T!Steered(l) \notin T!ToSet(T!Unseen) /\ l \notin T!ToSet(x2[x6])
         /\ x24 \subseteq x24' /\ x24' \subseteq Nat
    BY <1>1, <1>2, <1>5 DEF T!TypeOK
  <1> HIDE DEF again, before
  <1>14. T!TypeOK'
    <2>1. x25' \in BOOLEAN
      BY <1>2
    <2>2. x19' \in {"local", "remote", "queue"} /\ x18' \in {"local", "remote", NoValue}
          /\ x16' \in BOOLEAN /\ x20' \in BOOLEAN
      BY <1>2
    <2> QED
      BY <2>1, <2>2, <1>1, <1>3, <1>7, <1>8, <1>11, <1>13 DEF T!TypeOK
  <1>15. T!LoopsFit'
    <2>1. \A i \in DOMAIN x12' : x12'[i].text \/ x12'[i].session \in Screens
      BY <1>8 DEF Doable
    <2>2. x16' = (x14'.pc \in T!InTurn)
      <3>1. x14'.pc \notin T!InTurn
        BY <1>7 DEF T!InTurn
      <3>2. x16' \in BOOLEAN /\ ~x16'
        BY <1>2
      <3> QED
        BY <3>1, <3>2
    <2> QED
      BY <2>1, <2>2, <1>1, <1>2, <1>3, <1>7, <1>9 DEF T!LoopsFit
  <1>16. T!Waits' = T!Waits /\ T!Unseen' = T!Unseen /\ T!ToSend' \subseteq T!ToSend \cup T!ToSet(x17)
    BY <1>3, <1>7, <1>8 DEF T!Waits, T!Unseen, T!ToSend
  <1>17. T!LinesKnown'
    BY <1>1, <1>3, <1>7, <1>8, <1>11, <1>16 DEF T!LinesKnown
  <1>18. T!ClientHasOne'
    <2>1. \A i, j \in DOMAIN x12' : x12'[i].line = x12'[j].line => i = j
      BY <1>8 DEF EachOnce
    <2>2. x13.pc = "steering" => x13.line \notin T!QueuedLines' /\ x13.line \in Nat
      BY <1>1, <1>8 DEF T!ClientHasOne, T!LoopsFit
    <2>3. NoValue \notin T!QueuedLines'
      <3>1. T!QueuedLines' = LinesOf(x12')
        BY DEF T!QueuedLines, LinesOf
      <3>2. \A i \in DOMAIN x12' : x12'[i].line \in Nat
        <4>1. ASSUME NEW q \in Seq(T!Queued) PROVE \A i \in DOMAIN q : q[i].line \in Nat
          <5>1. \A i \in DOMAIN q : q[i] \in T!Queued
            OBVIOUS
          <5> QED
            BY <5>1 DEF T!Queued
        <4> QED
          BY <4>1, <1>8
      <3> QED
        BY <3>1, <3>2, <1>6 DEF LinesOf
    <2> QED
      BY <2>1, <2>2, <2>3, <1>3, <1>6, <1>7, <1>11 DEF T!ClientHasOne
  <1>19. T!ServerHasOne'
    BY <1>1, <1>3, <1>16 DEF T!ServerHasOne
  <1>20. T!SentOnce'
    <2>1. T!GivenOnce'
      BY <1>1, <1>3, <1>13 DEF T!SentOnce, T!GivenOnce
    <2>2. \A l \in T!ToSet(x4) \ x24' : l \notin T!ToSend' \cup T!Waits
      BY <1>1, <1>13, <1>16 DEF T!SentOnce
    <2>3. \A l \in T!Waits \ x24' : l \notin T!ToSend'
      BY <1>1, <1>13, <1>16 DEF T!SentOnce
    <2> QED
      BY <2>1, <2>2, <2>3, <1>3, <1>11, <1>16 DEF T!SentOnce
  <1>21. T!LeftHandsFit'
    BY <1>1, <1>3, <1>7, <1>13, <1>16 DEF T!LeftHandsFit
  <1>22. T!StreamFits'
    BY <1>1, <1>3, <1>7, <1>16 DEF T!StreamFits
  <1>23. T!TurnFits'
    <2>1. ASSUME ~x25', ~T!TellsTurn(T!Unseen) PROVE x1[x6] = NoValue
      <3>1. T!LastTurn(x3[x6]) = T!LastTurn(before)
        <4>1. /\ T!Unseen \in Seq(T!Events) /\ before \in Seq(T!Events) /\ x3[x6] = before \o T!Unseen
          BY <1>1, UnseenIs DEF before
        <4> QED
          BY <4>1, <2>1, LastTurnAfter
      <3>2. x6 \in Screens /\ x1[x6] \in {"own", "other", NoValue}
        BY <1>1, TurnKnown
      <3>3. T!LastTurn(x3[x6]) = IF x1[x6] = NoValue THEN T!Ended ELSE T!Running(x1[x6])
        BY <3>2, <1>1 DEF T!StreamFits
      <3>4. x1[x6] # "other"
        BY <3>1, <3>3, <2>1, <1>2, <1>6
      <3> QED
        BY <3>2, <3>4, <1>9
    <2> QED
      BY <2>1, <1>2, <1>3, <1>16 DEF T!TurnFits
  <1>24. T!NothingTypedIsLost'
    BY <1>1, <1>3, <1>8, <1>12, <1>13, <1>16 DEF T!NothingTypedIsLost
  <1> QED
    BY <1>14, <1>15, <1>17, <1>18, <1>19, <1>20, <1>21, <1>22, <1>23, <1>24 DEF T!LinesInv

\* a switch that begins,
LEMMA StartSwitchKeeps ==
  ASSUME T!Assumptions, T!LinesInv, T!StartSwitch
  PROVE  T!LinesInv'
  <1>1. /\ T!TypeOK /\ T!LoopsFit /\ T!LinesKnown /\ T!ClientHasOne /\ T!ServerHasOne /\ T!SentOnce
        /\ T!LeftHandsFit /\ T!StreamFits /\ T!TurnFits /\ T!NothingTypedIsLost
    BY DEF T!LinesInv
  <1> DEFINE h == Head(x12)
             m == h.line
  <1>2. /\ x14.pc = "shift" /\ x12 # <<>> /\ ~h.text /\ x12' = Tail(x12) /\ x22' = x22 \cup {m}
        /\ x20' = FALSE /\ x18' = NoValue /\ x19' = "queue"
        /\ x14' = [T!Waiting EXCEPT !.pc = "hydrate", !.session = h.session]
        /\ x10' = x9 /\ x9' = <<>> /\ x8' = FALSE /\ x25' = FALSE
    BY DEF T!StartSwitch
  <1>3. UNCHANGED <<x1, x2, x3, x4, x5, x6, x7, x11, x13,
                    x15, x16, x17, x21, x23, x24>>
    BY DEF T!StartSwitch, T!server, T!sessions, T!localTurn
  <1>4. x12 \in Seq(T!Queued) /\ T!QueuedLines = LinesOf(x12) /\ EachOnce(x12) /\ Doable(x12)
    BY <1>1, QueueIs
  <1>5. h \in T!Queued /\ h.session \in Screens
    BY <1>2, <1>4, LinesTail
  <1>6. m \in Nat /\ NoValue \notin Nat
    BY <1>5, Nones DEF T!Queued
  <1>7. x14' \in T!MainLoops /\ x14'.pc = "hydrate" /\ x14'.line = NoValue /\ x14'.session \in Screens
        /\ x14'.status = NoValue /\ x14'.seen = NoValue
    BY <1>2, <1>5 DEF T!Waiting, T!MainLoops
  <1>8. /\ x12' \in Seq(T!Queued) /\ EachOnce(x12') /\ Doable(x12')
        /\ T!QueuedLines = T!QueuedLines' \cup {m}
    <2>1. T!QueuedLines' = LinesOf(x12')
      BY DEF T!QueuedLines, LinesOf
    <2> QED
      BY <2>1, <1>2, <1>4, LinesTail
  <1> HIDE DEF m, h
  <1>9. ~x16 /\ x17 = <<>> /\ x14.line = NoValue /\ x5 = x6 /\ \A t \in Screens : x1[t] # "own"
    BY <1>1, <1>2 DEF T!LoopsFit, T!InTurn
  <1>10. <<>> \in Seq(T!Events)
    OBVIOUS
  <1>14. T!TypeOK'
    <2>1. x22' \subseteq Nat /\ x9' \in Seq(T!Events) /\ x10' \in Seq(T!Events)
      BY <1>1, <1>2, <1>6, <1>10 DEF T!TypeOK
    <2>2. x19' \in {"local", "remote", "queue"} /\ x18' \in {"local", "remote", NoValue}
          /\ x8' \in BOOLEAN /\ x20' \in BOOLEAN /\ x25' \in BOOLEAN
      BY <1>2
    <2> QED
      BY <2>1, <2>2, <1>1, <1>3, <1>7, <1>8 DEF T!TypeOK
  <1>15. T!LoopsFit'
    <2>1. \A i \in DOMAIN x12' : x12'[i].text \/ x12'[i].session \in Screens
      BY <1>8 DEF Doable
    <2>2. x16' = (x14'.pc \in T!InTurn)
      <3>1. x14'.pc \notin T!InTurn /\ x16 \in BOOLEAN
        BY <1>1, <1>7 DEF T!InTurn, T!TypeOK
      <3> QED
        BY <3>1, <1>3, <1>9
    <2> QED
      BY <2>1, <2>2, <1>1, <1>3, <1>7, <1>9 DEF T!LoopsFit
  <1>16. T!Waits' = T!Waits /\ T!Unseen' = T!Unseen /\ T!ToSend' \subseteq T!ToSend
    BY <1>3, <1>7, <1>8 DEF T!Waits, T!Unseen, T!ToSend
  <1>17. T!LinesKnown'
    BY <1>1, <1>3, <1>7, <1>8, <1>16 DEF T!LinesKnown
  <1>18. T!ClientHasOne'
    <2>1. \A i, j \in DOMAIN x12' : x12'[i].line = x12'[j].line => i = j
      BY <1>8 DEF EachOnce
    <2> QED
      BY <2>1, <1>1, <1>3, <1>7, <1>8, <1>9 DEF T!ClientHasOne
  <1>19. T!ServerHasOne'
    BY <1>1, <1>3, <1>16 DEF T!ServerHasOne
  <1>20. T!SentOnce'
    BY <1>1, <1>3, <1>16 DEF T!SentOnce, T!GivenOnce
  <1>21. T!LeftHandsFit'
    BY <1>1, <1>2, <1>3, <1>7, <1>16 DEF T!LeftHandsFit
  <1>22. T!StreamFits'
    BY <1>1, <1>2, <1>3, <1>7, <1>16 DEF T!StreamFits
  <1>23. T!TurnFits'
    BY <1>2, <1>3, <1>7, <1>9 DEF T!TurnFits
  <1>24. T!NothingTypedIsLost'
    BY <1>1, <1>2, <1>3, <1>7, <1>8, <1>9, <1>16 DEF T!NothingTypedIsLost
  <1> QED
    BY <1>14, <1>15, <1>17, <1>18, <1>19, <1>20, <1>21, <1>22, <1>23, <1>24 DEF T!LinesInv

\* (the parts of the invariant about lines,
LinesKept ==
    /\ T!LinesKnown /\ T!ClientHasOne /\ T!ServerHasOne /\ T!SentOnce
    /\ T!LeftHandsFit /\ T!NothingTypedIsLost

\* and that they hold while no line moves)
LEMMA LinesStay ==
  ASSUME T!LinesInv, UNCHANGED <<x2, x3, x4, x11, x12, x17, x22, x24>>,
         x14'.line = x14.line, x14'.pc \in T!InTurn => x14'.pc = x14.pc,
         x13' = x13 \/ (/\ x13.pc # "steering" /\ x13'.pc # "steering"
                        /\ x13'.line = x13.line),
         UNCHANGED <<x7, x6>> \/ x17 = <<>>
  PROVE  LinesKept'
  <1>1. /\ T!LinesKnown /\ T!ClientHasOne /\ T!ServerHasOne /\ T!SentOnce
        /\ T!LeftHandsFit /\ T!NothingTypedIsLost
    BY DEF T!LinesInv
  <1>2. UNCHANGED <<x2, x3, x4, x11, x12, x17, x22, x24>> /\ x14'.line = x14.line
    OBVIOUS
  <1>3. T!Waits' = T!Waits /\ T!QueuedLines' = T!QueuedLines
    BY <1>2 DEF T!Waits, T!QueuedLines
  <1>4. T!ToSend' \subseteq T!ToSend
    BY <1>2, <1>3 DEF T!ToSend, T!InTurn
  <1>5. x13'.pc = "steering" => x13' = x13
    OBVIOUS
  <1>6. T!LinesKnown'
    BY <1>1, <1>2, <1>3 DEF T!LinesKnown
  <1>7. T!ClientHasOne'
    BY <1>1, <1>2, <1>3, <1>5 DEF T!ClientHasOne
  <1>8. T!ServerHasOne'
    BY <1>1, <1>2, <1>3, <1>5 DEF T!ServerHasOne
  <1>9. T!SentOnce'
    <2>1. T!GivenOnce'
      BY <1>1, <1>2 DEF T!SentOnce, T!GivenOnce
    <2>2. \A l \in T!ToSet(x4) \ x24 : l \notin T!ToSend' \cup T!Waits
      BY <1>1, <1>4 DEF T!SentOnce
    <2>3. \A l \in T!Waits \ x24 : l \notin T!ToSend'
      BY <1>1, <1>4 DEF T!SentOnce
    <2>4. CASE UNCHANGED <<x7, x6>>
      <3>1. T!Unseen' = T!Unseen
        BY <2>4, <1>2 DEF T!Unseen
      <3> QED
        BY <2>1, <2>2, <2>3, <2>4, <3>1, <1>1, <1>2, <1>3 DEF T!SentOnce
    <2>5. CASE x17 = <<>>
      <3>1. T!ToSet(x17) = {}
        <4>1. T!ToSet(<<>>) = {}
          BY DEF T!ToSet
        <4> QED
          BY <4>1, <2>5
      <3> QED
        BY <2>1, <2>2, <2>3, <3>1, <1>2, <1>3 DEF T!SentOnce
    <2> QED
      BY <2>4, <2>5
  <1>10. T!LeftHandsFit'
    <2>1. x14'.pc \in {"answer", "ended"} => x14.pc \in {"answer", "ended"}
      BY DEF T!InTurn
    <2> QED
      BY <2>1, <1>1, <1>2, <1>3, <1>5 DEF T!LeftHandsFit
  <1>11. T!NothingTypedIsLost'
    <2>1. x13'.line = x13.line
      OBVIOUS
    <2> QED
      BY <2>1, <1>1, <1>2, <1>3 DEF T!NothingTypedIsLost
  <1> QED
    BY <1>6, <1>7, <1>8, <1>9, <1>10, <1>11 DEF LinesKept

\* (the two kinds of turn_status differ)
LEMMA RunningIs ==
  /\ T!Ended.running = FALSE /\ \A who : T!Running(who).running = TRUE
  /\ \A who : T!Running(who) # T!Ended
  <1>1. T!Ended.running = FALSE /\ \A who : T!Running(who).running = TRUE
    BY DEF T!Ended, T!Running
  <1> QED
    BY <1>1

\* the answers to the requests of a switch,
LEMMA AnswerStatusKeeps ==
  ASSUME T!Assumptions, T!LinesInv, T!AnswerStatus
  PROVE  T!LinesInv'
  <1>1. T!TypeOK /\ T!LoopsFit /\ T!StreamFits /\ T!TurnFits
    BY DEF T!LinesInv
  <1>2. /\ x14.pc = "hydrate" /\ x14' = [x14 EXCEPT !.status = x1[x14.session] # NoValue]
    BY DEF T!AnswerStatus
  <1>3. UNCHANGED <<x1, x2, x3, x4, x5, x6, x7, x8, x9, x10, x11, x12, x13,
                    x15, x16, x17, x18, x19, x20, x21, x22, x23, x24, x25>>
    BY DEF T!AnswerStatus, T!server, T!sessions, T!stream, T!input, T!localTurn, T!handlers, T!history
  <1>4. x14 \in T!MainLoops /\ x14.session \in Screens
    BY <1>1, <1>2 DEF T!TypeOK, T!LoopsFit
  <1>5. (x1[x14.session] # NoValue) \in BOOLEAN
    OBVIOUS
  <1>6. /\ x14' \in T!MainLoops /\ x14'.pc = x14.pc /\ x14'.line = x14.line /\ x14'.session = x14.session
        /\ x14'.seen = x14.seen /\ x14'.status = (x1[x14.session] # NoValue)
    BY <1>2, <1>4, <1>5 DEF T!MainLoops
  <1>7. T!TypeOK'
    BY <1>1, <1>3, <1>6 DEF T!TypeOK
  <1>8. T!LoopsFit'
    BY <1>1, <1>3, <1>6 DEF T!LoopsFit
  <1>9. LinesKept'
    BY <1>3, <1>6, LinesStay
  <1>10. x1[x14.session] # NoValue => T!TellsTurn(x3[x14.session])
    <2>3. \A who : T!Running(who) # T!Ended
      BY RunningIs
    <2>1. x1[x14.session] # NoValue => T!LastTurn(x3[x14.session]) # T!Ended
      BY <2>3, <1>1, <1>4 DEF T!StreamFits
    <2>2. x3[x14.session] \in Seq(T!Events)
      BY <1>1, <1>4, TurnKnown
    <2> QED
      BY <2>1, <2>2, LastTurnOf
  <1>11. T!Unseen' = T!Unseen
    BY <1>3 DEF T!Unseen
  <1>12. T!StreamFits'
    <2>1. x14'.status = TRUE => T!TellsTurn(x3[x14.session])
      BY <1>6, <1>10
    <2>2. ~x8 /\ (x14.seen # NoValue => x14.seen <= Len(x3[x14.session]))
      BY <1>1, <1>2 DEF T!StreamFits
    <2>3. /\ x7 <= Len(x3[x6]) /\ x9 = (IF x8 THEN T!Unseen ELSE <<>>)
          /\ \A s \in Screens : T!LastTurn(x3[s]) = IF x1[s] = NoValue THEN T!Ended ELSE T!Running(x1[s])
      BY <1>1 DEF T!StreamFits
    <2> QED
      BY <2>1, <2>2, <2>3, <1>3, <1>6, <1>11 DEF T!StreamFits
  <1>13. T!TurnFits'
    BY <1>1, <1>3, <1>6, <1>11 DEF T!TurnFits
  <1> QED
    BY <1>7, <1>8, <1>9, <1>12, <1>13 DEF T!LinesInv, LinesKept

\* of both,
LEMMA AnswerEventLogKeeps ==
  ASSUME T!Assumptions, T!LinesInv, T!AnswerEventLog
  PROVE  T!LinesInv'
  <1>1. T!TypeOK /\ T!LoopsFit /\ T!StreamFits /\ T!TurnFits
    BY DEF T!LinesInv
  <1>2. /\ x14.pc = "hydrate" /\ x14' = [x14 EXCEPT !.seen = Len(x3[x14.session])]
    BY DEF T!AnswerEventLog
  <1>3. UNCHANGED <<x1, x2, x3, x4, x5, x6, x7, x8, x9, x10, x11, x12, x13,
                    x15, x16, x17, x18, x19, x20, x21, x22, x23, x24, x25>>
    BY DEF T!AnswerEventLog, T!server, T!sessions, T!stream, T!input, T!localTurn, T!handlers, T!history
  <1>4. x14 \in T!MainLoops /\ x14.session \in Screens
    BY <1>1, <1>2 DEF T!TypeOK, T!LoopsFit
  <1>5. Len(x3[x14.session]) \in Nat
    BY <1>1, <1>4 DEF T!TypeOK
  <1>6. /\ x14' \in T!MainLoops /\ x14'.pc = x14.pc /\ x14'.line = x14.line /\ x14'.session = x14.session
        /\ x14'.seen = Len(x3[x14.session]) /\ x14'.status = x14.status
    BY <1>2, <1>4, <1>5 DEF T!MainLoops
  <1>7. T!TypeOK'
    BY <1>1, <1>3, <1>6 DEF T!TypeOK
  <1>8. T!LoopsFit'
    BY <1>1, <1>3, <1>6 DEF T!LoopsFit
  <1>9. LinesKept'
    BY <1>3, <1>6, LinesStay
  <1>11. T!Unseen' = T!Unseen
    BY <1>3 DEF T!Unseen
  <1>12. T!StreamFits'
    BY <1>1, <1>2, <1>3, <1>5, <1>6, <1>11 DEF T!StreamFits
  <1>13. T!TurnFits'
    BY <1>1, <1>3, <1>6, <1>11 DEF T!TurnFits
  <1> QED
    BY <1>7, <1>8, <1>9, <1>12, <1>13 DEF T!LinesInv, LinesKept

\* the switch to the other session's stream,
LEMMA RejoinKeeps ==
  ASSUME T!Assumptions, T!LinesInv, T!Rejoin
  PROVE  T!LinesInv'
  <1>1. T!TypeOK /\ T!LoopsFit /\ T!StreamFits /\ T!TurnFits
    BY DEF T!LinesInv
  <1> DEFINE s == x14.session
             n == x14.seen
             before == SubSeq(x3[s], 1, n)
             after == SubSeq(x3[s], n + 1, Len(x3[s]))
             running == T!Hydrated(x14.status, before)
  <1>2. /\ x14.pc = "hydrate" /\ x14.status # NoValue /\ n # NoValue /\ T!ApplyTurnStatus(running)
        /\ x6' = s /\ x7' = n /\ x8' = FALSE /\ x9' = <<>>
        /\ x14' = [x14 EXCEPT !.pc = "rejoined"]
    BY DEF T!Rejoin
  <1>3. UNCHANGED <<x1, x2, x3, x4, x5, x10, x11, x12, x13,
                    x15, x16, x17, x21, x22, x23, x24, x25>>
    BY DEF T!Rejoin, T!server, T!input, T!localTurn, T!history
  <1>4. /\ x14 \in T!MainLoops /\ s \in Screens /\ ~x16 /\ x17 = <<>>
        /\ \A t \in Screens : x1[t] # "own"
    BY <1>1, <1>2 DEF T!TypeOK, T!LoopsFit, T!InTurn
  <1>5. n \in Nat /\ x14.status \in BOOLEAN /\ n <= Len(x3[s]) /\ x3[s] \in Seq(T!Events)
        /\ (x14.status = TRUE => T!TellsTurn(x3[s]))
    BY <1>1, <1>2, <1>4 DEF T!MainLoops, T!StreamFits, T!TypeOK
  <1>6. n \in 0 .. Len(x3[s])
    BY <1>5
  <1>7. before \in Seq(T!Events) /\ after \in Seq(T!Events) /\ x3[s] = before \o after
    BY <1>5, <1>6, Split
  <1>8. x14' \in T!MainLoops /\ x14'.pc = "rejoined" /\ x14'.line = x14.line /\ x14'.session = s
    BY <1>2, <1>4 DEF T!MainLoops
  <1>9. T!Unseen' = after
    BY <1>2, <1>3 DEF T!Unseen
  <1>10. /\ x1[s] \in {"own", "other", NoValue}
         /\ T!LastTurn(x3[s]) = IF x1[s] = NoValue THEN T!Ended ELSE T!Running(x1[s])
    BY <1>1, <1>4 DEF T!StreamFits, T!TypeOK
  <1>11. running = IF T!TellsTurn(before) THEN T!LastTurn(before).running ELSE x14.status
    BY DEF T!Hydrated, T!TellsTurn
  <1> HIDE DEF s, n, before, after, running
  <1>12. running \in BOOLEAN
    <2>1. T!TellsTurn(before) => T!LastTurn(before) \in T!Events
      BY <1>7, LastTurnOf
    <2>2. T!TellsTurn(before) => T!LastTurn(before).running \in BOOLEAN
      BY <2>1 DEF T!Events
    <2> QED
      BY <2>2, <1>5, <1>11
  <1>13. /\ x20' = running
         /\ x18' = IF running THEN (IF x18 = NoValue THEN "remote" ELSE x18) ELSE NoValue
         /\ x19' = IF running THEN "remote" ELSE "queue"
    BY <1>2, <1>4 DEF T!ApplyTurnStatus
  <1>14. x18 = IF x20 THEN "remote" ELSE NoValue
    BY <1>1, <1>4 DEF T!TurnFits
  <1>15. x18' = IF x20' THEN "remote" ELSE NoValue
    BY <1>13, <1>14
  <1>16. T!TypeOK'
    <2>1. x9' \in Seq(T!Events)
      <3>1. <<>> \in Seq(T!Events)
        OBVIOUS
      <3> QED
        BY <3>1, <1>2
    <2>2. x6' \in Screens /\ x7' \in Nat /\ x8' \in BOOLEAN
      BY <1>2, <1>4, <1>5
    <2>3. x20' \in BOOLEAN /\ x18' \in {"local", "remote", NoValue} /\ x19' \in {"local", "remote", "queue"}
      BY <1>12, <1>13, <1>15
    <2> QED
      BY <2>1, <2>2, <2>3, <1>1, <1>3, <1>8 DEF T!TypeOK
  <1>17. T!LoopsFit'
    <2>1. x14'.pc \notin T!InTurn /\ x16 \in BOOLEAN
      BY <1>1, <1>8 DEF T!InTurn, T!TypeOK
    <2>2. x16' = (x14'.pc \in T!InTurn)
      BY <2>1, <1>3, <1>4
    <2> QED
      BY <2>2, <1>1, <1>2, <1>3, <1>4, <1>8 DEF T!LoopsFit
  <1>18. LinesKept'
    <2>1. x14'.pc \notin T!InTurn
      BY <1>8 DEF T!InTurn
    <2> QED
      BY <2>1, <1>3, <1>4, <1>8, LinesStay
  <1>19. T!StreamFits'
    <2>1. x14'.pc # "hydrate" /\ ~x8' /\ x9' = <<>> /\ x7' <= Len(x3[x6'])
      BY <1>2, <1>5, <1>8
    <2> QED
      BY <2>1, <1>1, <1>3 DEF T!StreamFits
  <1>20. T!TurnFits'
    <2>1. ASSUME ~T!TellsTurn(after) PROVE running = (x1[s] # NoValue)
      <3>1. T!LastTurn(x3[s]) = T!LastTurn(before) /\ (T!TellsTurn(x3[s]) <=> T!TellsTurn(before))
        BY <2>1, <1>7, LastTurnAfter
      <3>2. CASE T!TellsTurn(before)
        <4>1. running = T!LastTurn(x3[s]).running
          BY <3>1, <3>2, <1>11
        <4>2. CASE x1[s] = NoValue
          <5>1. running = FALSE
            BY <4>1, <4>2, <1>10, RunningIs
          <5> QED
            BY <4>2, <5>1
        <4>3. CASE x1[s] # NoValue
          <5>1. running = TRUE
            BY <4>1, <4>3, <1>10, RunningIs
          <5> QED
            BY <4>3, <5>1
        <4> QED
          BY <4>2, <4>3
      <3>3. CASE ~T!TellsTurn(before)
        <4>1. running = FALSE
          BY <3>1, <3>3, <1>5, <1>11
        <4>2. T!LastTurn(x3[s]) = T!Ended
          BY <3>1, <3>3, <1>7, LastTurnOf
        <4>3. x1[s] = NoValue
          BY <4>2, <1>10, RunningIs
        <4> QED
          BY <4>1, <4>3
      <3> QED
        BY <3>2, <3>3
    <2>2. ~T!TellsTurn(T!Unseen') => x20' = (x1'[x6'] # NoValue)
      BY <2>1, <1>2, <1>3, <1>9, <1>13
    <2> QED
      BY <2>2, <1>3, <1>4, <1>15 DEF T!TurnFits
  <1> QED
    BY <1>16, <1>17, <1>18, <1>19, <1>20 DEF T!LinesInv, LinesKept

\* the end of a switch,
LEMMA SwitchedKeeps ==
  ASSUME T!Assumptions, T!LinesInv, T!Switched
  PROVE  T!LinesInv'
  <1>1. T!TypeOK /\ T!LoopsFit /\ T!StreamFits /\ T!TurnFits
    BY DEF T!LinesInv
  <1>2. /\ x14.pc = "rejoined" /\ x5' = x14.session /\ x14' = T!Waiting
        /\ x13' = IF x13.pc = "off" THEN T!Reading ELSE x13
    BY DEF T!Switched
  <1>3. UNCHANGED <<x1, x2, x3, x4, x6, x7, x8, x9, x10, x11, x12,
                    x15, x16, x17, x18, x19, x20, x21, x22, x23, x24, x25>>
    BY DEF T!Switched, T!server, T!stream, T!localTurn, T!handlers, T!history
  <1>4. /\ ~x16 /\ x14.session \in Screens /\ x6 = x14.session /\ x14.line = NoValue
        /\ \A t \in Screens : x1[t] # "own"
    BY <1>1, <1>2 DEF T!LoopsFit, T!InTurn
  <1>5. x14' \in T!MainLoops /\ x14'.pc = "shift" /\ x14'.line = NoValue
    BY <1>2 DEF T!Waiting, T!MainLoops
  <1>6. x13 \in T!Readers /\ x15 \in Nat /\ x16 \in BOOLEAN
    BY <1>1 DEF T!TypeOK
  <1>7. /\ x13' \in T!Readers /\ x13'.turn <= x15
        /\ x13' = x13 \/ (/\ x13.pc # "steering" /\ x13'.pc # "steering"
                          /\ x13'.line = x13.line)
        /\ x13'.pc # "steering" => x13'.line = NoValue
    <2>1. CASE x13.pc = "off"
      <3>1. x13' = T!Reading /\ x13.line = NoValue
        BY <2>1, <1>1, <1>2 DEF T!LoopsFit
      <3>2. T!Reading \in T!Readers /\ T!Reading.pc = "reading" /\ T!Reading.line = NoValue /\ T!Reading.turn = 0
        BY DEF T!Reading, T!Readers
      <3> QED
        BY <2>1, <3>1, <3>2, <1>6
    <2>2. CASE x13.pc # "off"
      BY <2>2, <1>1, <1>2, <1>6 DEF T!LoopsFit
    <2> QED
      BY <2>1, <2>2
  <1>8. T!TypeOK'
    BY <1>1, <1>2, <1>3, <1>4, <1>5, <1>7 DEF T!TypeOK
  <1>9. T!LoopsFit'
    <2>1. x14'.pc \notin T!InTurn
      BY <1>5 DEF T!InTurn
    <2>2. x16' = (x14'.pc \in T!InTurn)
      BY <2>1, <1>3, <1>4, <1>6
    <2> QED
      BY <2>2, <1>1, <1>2, <1>3, <1>4, <1>5, <1>7 DEF T!LoopsFit
  <1>10. LinesKept'
    <2>1. x14'.pc \notin T!InTurn /\ x14'.line = x14.line
      BY <1>4, <1>5 DEF T!InTurn
    <2> QED
      BY <2>1, <1>3, <1>7, LinesStay
  <1>11. T!Unseen' = T!Unseen
    BY <1>3 DEF T!Unseen
  <1>12. T!StreamFits' /\ T!TurnFits'
    BY <1>1, <1>2, <1>3, <1>5, <1>11 DEF T!StreamFits, T!TurnFits
  <1> QED
    BY <1>8, <1>9, <1>10, <1>12 DEF T!LinesInv, LinesKept

\* connections gained and lost,
LEMMA StreamStepKeeps ==
  ASSUME T!Assumptions, T!LinesInv, T!Connect \/ T!Drop \/ T!ReceiveLate
  PROVE  T!LinesInv'
  <1>1. T!TypeOK /\ T!LoopsFit /\ T!StreamFits /\ T!TurnFits
    BY DEF T!LinesInv
  <1>2. UNCHANGED <<x1, x2, x3, x4, x5, x6, x7, x11, x12, x13, x14,
                    x15, x16, x17, x18, x19, x20, x21, x22, x24, x25>>
    BY DEF T!Connect, T!Drop, T!ReceiveLate, T!server, T!sessions, T!input, T!localTurn, T!handlers, T!history
  <1>3. T!Unseen' = T!Unseen /\ T!Unseen \in Seq(T!Events)
    BY <1>1, <1>2, UnseenIs DEF T!Unseen
  <1>4. /\ x8' \in BOOLEAN /\ x9' = (IF x8' THEN T!Unseen ELSE <<>>) /\ (x14.pc = "hydrate" => ~x8')
        /\ x23' \in [{"others", "failures", "drops", "pops"} -> Nat] /\ x10' \in Seq(T!Events)
    <2>1. CASE T!Connect
      BY <2>1, <1>1 DEF T!Connect, T!TypeOK
    <2>2. CASE T!Drop
      <3>1. x23' \in [{"others", "failures", "drops", "pops"} -> Nat]
        BY <2>2, <1>1, Counted DEF T!Drop
      <3> QED
        BY <2>2, <3>1, <1>1 DEF T!Drop, T!TypeOK
    <2>3. CASE T!ReceiveLate
      <3>1. x10' \in Seq(T!Events)
        BY <2>3, <1>1, HeadTail DEF T!ReceiveLate, T!TypeOK
      <3> QED
        BY <2>3, <3>1, <1>1 DEF T!ReceiveLate, T!TypeOK, T!StreamFits
    <2> QED
      BY <2>1, <2>2, <2>3
  <1>5. x9' \in Seq(T!Events)
    <2>1. <<>> \in Seq(T!Events)
      OBVIOUS
    <2> QED
      BY <2>1, <1>3, <1>4
  <1>6. T!TypeOK'
    BY <1>1, <1>2, <1>4, <1>5 DEF T!TypeOK
  <1>7. T!LoopsFit' /\ LinesKept'
    <2>1. T!LoopsFit'
      BY <1>1, <1>2 DEF T!LoopsFit
    <2> QED
      BY <2>1, <1>2, LinesStay
  <1>8. T!StreamFits' /\ T!TurnFits'
    BY <1>1, <1>2, <1>3, <1>4 DEF T!StreamFits, T!TurnFits
  <1> QED
    BY <1>6, <1>7, <1>8 DEF T!LinesInv, LinesKept

\* and an event that is handled.
LEMMA ReceiveKeeps ==
  ASSUME T!Assumptions, T!LinesInv, T!Receive
  PROVE  T!LinesInv'
  <1>1. /\ T!TypeOK /\ T!LoopsFit /\ T!LinesKnown /\ T!ClientHasOne /\ T!ServerHasOne /\ T!SentOnce
        /\ T!LeftHandsFit /\ T!StreamFits /\ T!TurnFits /\ T!NothingTypedIsLost
    BY DEF T!LinesInv
  <1> DEFINE e == Head(x9)
             before == SubSeq(x3[x6], 1, x7)
             now == SubSeq(x3[x6], 1, x7 + 1)
  <1>2. x8 /\ x9 # <<>> /\ x9' = Tail(x9) /\ x7' = x7 + 1 /\ T!Handle(e)
    BY DEF T!Receive, T!TakeEvent
  <1>3. UNCHANGED <<x1, x2, x3, x4, x5, x6, x8, x10, x11, x12, x13, x14,
                    x15, x16, x21, x22, x23, x24>>
    BY DEF T!Receive, T!server, T!sessions, T!input
  <1>4. /\ x7 \in 0 .. Len(x3[x6]) /\ T!Unseen \in Seq(T!Events) /\ x3[x6] \in Seq(T!Events)
        /\ x6 \in Screens /\ x9 = T!Unseen
        /\ T!ToSet(x3[x6]) = T!ToSet(before) \cup T!ToSet(T!Unseen)
    BY <1>1, <1>2, UnseenIs DEF T!StreamFits, T!TypeOK
  <1>5. /\ e \in T!Events /\ Tail(x9) \in Seq(T!Events) /\ T!ToSet(x9) = {e} \cup T!ToSet(Tail(x9))
    BY <1>2, <1>4, HeadTail
  <1>6. /\ x7 + 1 \in 0 .. Len(x3[x6]) /\ Tail(x9) = SubSeq(x3[x6], x7 + 1 + 1, Len(x3[x6]))
        /\ now = before \o <<e>>
    BY <1>2, <1>4, Took DEF T!Unseen
  <1>7. /\ T!Unseen' = Tail(x9) /\ x9' = T!Unseen' /\ x9' \in Seq(T!Events)
        /\ T!ToSet(T!Unseen) = {e} \cup T!ToSet(T!Unseen')
    BY <1>2, <1>3, <1>4, <1>5, <1>6 DEF T!Unseen
  <1>8. x7' \in Nat /\ x7' <= Len(x3[x6])
    BY <1>2, <1>6
  <1>9. e \in T!ToSet(x3[x6])
    BY <1>4, <1>5
  <1>10. e.type = "user_message" => e.line \in T!ToSet(x4)
    BY <1>1, <1>4, <1>9 DEF T!LeftHandsFit
  <1>11. /\ now \in Seq(T!Events) /\ before \in Seq(T!Events) /\ x3[x6] = now \o T!Unseen'
    <2>1. now \in Seq(T!Events) /\ x3[x6] = now \o SubSeq(x3[x6], x7 + 1 + 1, Len(x3[x6]))
      BY <1>4, <1>6, Split, ZenonT(40)
    <2>2. before \in Seq(T!Events)
      BY <1>4, Split
    <2> QED
      BY <2>1, <2>2, <1>6, <1>7
  <1> HIDE DEF e, before, now
  <1>12. \/ e.type = "turn_status" /\ T!ApplyTurnStatus(e.running) /\ x25' = FALSE /\ x17' = x17
         \/ e.type = "user_message" /\ T!SteeringAccepted(e.line)
            /\ UNCHANGED <<x18, x19, x20, x25>>
    BY <1>2 DEF T!Handle, T!handlers
  <1>13. x17 \in Seq(Nat) /\ T!IsInjective(x17) /\ (~x16 => x17 = <<>>)
    BY <1>1 DEF T!TypeOK, T!ClientHasOne, T!LoopsFit
  <1>14. T!ToSet(<<>>) = {}
    BY DEF T!ToSet
  <1>15. /\ x17' \in Seq(Nat) /\ T!IsInjective(x17') /\ (~x16 => x17' = <<>>)
         /\ T!ToSet(x17') \subseteq T!ToSet(x17)
         /\ \A l \in T!ToSet(x17) : l \in T!ToSet(x17') \/ (e.type = "user_message" /\ l = e.line)
         /\ e.type = "user_message" => e.line \notin T!ToSet(x17')
    <2>1. CASE e.type = "turn_status" /\ x17' = x17
      BY <2>1, <1>13
    <2>2. CASE e.type = "user_message" /\ T!SteeringAccepted(e.line)
      <3>1. CASE x16
        <4>1. x17' = T!RemoveFirst(x17, e.line)
          BY <2>2, <3>1 DEF T!SteeringAccepted
        <4> DEFINE p == T!RemoveFirst(x17, e.line)
        <4>2. /\ p \in Seq(Nat) /\ T!ToSet(x17) \subseteq T!ToSet(p) \cup {e.line}
              /\ T!ToSet(p) \subseteq T!ToSet(x17) /\ T!IsInjective(p) /\ e.line \notin T!ToSet(p)
          BY <1>13, Removed
        <4> HIDE DEF p
        <4>3. x17' = p
          BY <4>1 DEF p
        <4> QED
          BY <2>2, <3>1, <4>2, <4>3
      <3>2. CASE ~x16
        <4>1. x17' = x17 /\ x17 = <<>>
          BY <2>2, <3>2, <1>13 DEF T!SteeringAccepted
        <4> QED
          BY <4>1, <1>13, <1>14
      <3> QED
        BY <3>1, <3>2
    <2> QED
      BY <2>1, <2>2, <1>12
  <1>16. x18 \in {"local", "remote", NoValue} /\ x19 \in {"local", "remote", "queue"} /\ x20 \in BOOLEAN
         /\ x25 \in BOOLEAN /\ e.running \in BOOLEAN
    BY <1>1, <1>5 DEF T!TypeOK, T!Events
  <1>17. x18 = IF x16 THEN "local" ELSE IF x20 THEN "remote" ELSE NoValue
    BY <1>1 DEF T!TurnFits
  <1>18. /\ x18' = (IF x16 THEN "local" ELSE IF x20' THEN "remote" ELSE NoValue)
         /\ x19' \in {"local", "remote", "queue"} /\ x20' \in BOOLEAN /\ x25' \in BOOLEAN
    <2>1. CASE e.type = "turn_status" /\ T!ApplyTurnStatus(e.running) /\ x25' = FALSE
      <3>1. CASE x16
        BY <2>1, <3>1, <1>16, <1>17 DEF T!ApplyTurnStatus
      <3>2. CASE ~x16
        BY <2>1, <3>2, <1>16, <1>17 DEF T!ApplyTurnStatus
      <3> QED
        BY <3>1, <3>2
    <2>2. CASE UNCHANGED <<x18, x19, x20, x25>>
      BY <2>2, <1>16, <1>17
    <2> QED
      BY <2>1, <2>2, <1>12
  <1>19. T!TypeOK'
    <2>1. x18' \in {"local", "remote", NoValue}
      BY <1>18
    <2> QED
      BY <2>1, <1>1, <1>3, <1>7, <1>8, <1>15, <1>18 DEF T!TypeOK
  <1>20. T!LoopsFit'
    BY <1>1, <1>3, <1>15 DEF T!LoopsFit
  <1>21. T!Waits' = T!Waits /\ T!QueuedLines' = T!QueuedLines /\ T!ToSend' = T!ToSend
    BY <1>3 DEF T!Waits, T!QueuedLines, T!ToSend
  <1>22. T!LinesKnown'
    BY <1>1, <1>3, <1>15, <1>21 DEF T!LinesKnown
  <1>23. T!ClientHasOne'
    BY <1>1, <1>3, <1>15, <1>21 DEF T!ClientHasOne
  <1>24. T!ServerHasOne'
    BY <1>1, <1>3, <1>21 DEF T!ServerHasOne
  <1>25. T!SentOnce'
    <2>1. T!GivenOnce'
      BY <1>1, <1>3 DEF T!SentOnce, T!GivenOnce
    <2>2. ASSUME NEW l \in T!ToSet(x4) \ x24, l \in T!ToSet(x17')
          PROVE  T!Steered(l) \in T!ToSet(T!Unseen')
      <3>1. T!Steered(l) \in T!ToSet(T!Unseen)
        BY <2>2, <1>1, <1>15 DEF T!SentOnce
      <3>2. T!Steered(l) # e
        <4>1. T!Steered(l).type = "user_message" /\ T!Steered(l).line = l
          BY DEF T!Steered
        <4> QED
          BY <4>1, <2>2, <1>15
      <3> QED
        BY <3>1, <3>2, <1>7
    <2>3. \A l \in T!ToSet(x4) \ x24 : l \notin T!ToSend \cup T!Waits
      BY <1>1 DEF T!SentOnce
    <2>4. \A l \in T!Waits \ x24 : l \notin T!ToSend /\ (l \in T!ToSet(x17') => l \in T!ToSet(x2[x6]))
      BY <1>1, <1>15 DEF T!SentOnce
    <2> QED
      BY <2>1, <2>2, <2>3, <2>4, <1>3, <1>21 DEF T!SentOnce
  <1>26. T!LeftHandsFit'
    BY <1>1, <1>3, <1>21 DEF T!LeftHandsFit
  <1>27. T!StreamFits'
    <2>1. x14.pc # "hydrate"
      BY <1>1, <1>2 DEF T!StreamFits
    <2> QED
      BY <2>1, <1>1, <1>2, <1>3, <1>7, <1>8 DEF T!StreamFits
  <1>28. T!TurnFits'
    <2>1. ASSUME x14.pc \in {"shift", "rejoined"}, ~x25', ~T!TellsTurn(T!Unseen')
          PROVE  x20' = (x1[x6] # NoValue)
      <3>1. ~x16
        BY <2>1, <1>1 DEF T!LoopsFit, T!InTurn
      <3>2. CASE e.type = "turn_status" /\ T!ApplyTurnStatus(e.running)
        <4>1. x20' = e.running
          BY <3>2 DEF T!ApplyTurnStatus
        <4>2. T!LastTurn(now) = e
          BY <3>2, <1>5, <1>6, <1>11, LastTurnNow
        <4>3. T!LastTurn(x3[x6]) = e
          BY <2>1, <4>2, <1>7, <1>11, LastTurnAfter
        <4>4. e = IF x1[x6] = NoValue THEN T!Ended ELSE T!Running(x1[x6])
          BY <4>3, <1>1, <1>4 DEF T!StreamFits
        <4>5. CASE x1[x6] = NoValue
          <5>1. e.running = FALSE
            BY <4>4, <4>5, RunningIs
          <5> QED
            BY <4>1, <4>5, <5>1
        <4>6. CASE x1[x6] # NoValue
          <5>1. e.running = TRUE
            BY <4>4, <4>6, RunningIs
          <5> QED
            BY <4>1, <4>6, <5>1
        <4> QED
          BY <4>5, <4>6
      <3>3. CASE e.type = "user_message" /\ UNCHANGED <<x18, x19, x20, x25>>
        <4>1. ~T!TellsTurn(T!Unseen)
          BY <2>1, <3>3, <1>7 DEF T!TellsTurn
        <4> QED
          BY <4>1, <2>1, <3>3, <1>1 DEF T!TurnFits
      <3> QED
        BY <3>2, <3>3, <1>12
    <2> QED
      BY <2>1, <1>3, <1>18 DEF T!TurnFits
  <1>29. T!NothingTypedIsLost'
    BY <1>1, <1>3, <1>10, <1>15, <1>21 DEF T!NothingTypedIsLost
  <1> QED
    BY <1>19, <1>20, <1>22, <1>23, <1>24, <1>25, <1>26, <1>27, <1>28, <1>29 DEF T!LinesInv

\* It holds at first,
LEMMA LinesAtFirst ==
  ASSUME T!Assumptions, T!Init
  PROVE  T!LinesInv
  <1>1. /\ x1 = [s \in Screens |-> NoValue] /\ x2 = [s \in Screens |-> <<>>]
        /\ x3 = [s \in Screens |-> <<>>] /\ x4 = <<>>
        /\ x6 \in Screens /\ x5 = x6 /\ x7 = 0 /\ x8 = FALSE /\ x9 = <<>> /\ x10 = <<>>
        /\ x11 = 0 /\ x12 = <<>> /\ x17 = <<>>
        /\ x15 = 0 /\ x16 = FALSE /\ x18 = NoValue /\ x19 = "queue" /\ x20 = FALSE
        /\ x21 = [s \in Screens |-> 0] /\ x22 = {}
        /\ x23 = [others |-> 0, failures |-> 0, drops |-> 0, pops |-> 0]
        /\ x24 = {} /\ x25 = FALSE
    BY DEF T!Init
  <1>2. x13 \in T!Readers /\ x13.pc = "off" /\ x13.line = NoValue /\ x13.turn = 0
    BY DEF T!Init, T!Reading, T!Readers
  <1>3. /\ x14 \in T!MainLoops /\ x14.pc = "hydrate" /\ x14.session = x6 /\ x14.line = NoValue
        /\ x14.status = NoValue /\ x14.seen = NoValue
    BY <1>1 DEF T!Init, T!Waiting, T!MainLoops
  <1>4. <<>> \in Seq(Nat) /\ <<>> \in Seq(T!Events) /\ <<>> \in Seq(T!Queued) /\ Len(<<>>) = 0 /\ DOMAIN <<>> = {}
    OBVIOUS
  <1>5. T!ToSet(<<>>) = {} /\ T!IsInjective(<<>>)
    BY <1>4 DEF T!ToSet, T!IsInjective
  <1>6. T!TypeOK
    <2>1. x1 \in [Screens -> {"own", "other", NoValue}] /\ x2 \in [Screens -> Seq(Nat)]
          /\ x3 \in [Screens -> Seq(T!Events)] /\ x21 \in [Screens -> Nat]
      BY <1>1, <1>4
    <2>2. x23 \in [{"others", "failures", "drops", "pops"} -> Nat]
      BY <1>1
    <2> QED
      BY <2>1, <2>2, <1>1, <1>2, <1>3, <1>4 DEF T!TypeOK
  <1>7. T!QueuedLines = {} /\ T!Waits = {} /\ T!ToSet(x17) = {} /\ T!ToSet(x4) = {}
    <2>1. T!QueuedLines = {}
      BY <1>1, <1>4 DEF T!QueuedLines
    <2>2. T!Waits = {}
      BY <1>1, <1>5 DEF T!Waits
    <2> QED
      BY <2>1, <2>2, <1>1, <1>5
  <1>8. T!LoopsFit
    <2>1. x14.pc \notin T!InTurn
      BY <1>3 DEF T!InTurn
    <2>4. x16 \in BOOLEAN /\ ~x16
      BY <1>1
    <2>2. x16 = (x14.pc \in T!InTurn)
      BY <2>1, <2>4
    <2>3. \A s \in Screens : x1[s] # "own"
      BY <1>1, Nones
    <2> QED
      BY <2>2, <2>3, <1>1, <1>2, <1>3, <1>4 DEF T!LoopsFit
  <1>9. T!LinesKnown
    BY <1>3, <1>7 DEF T!LinesKnown
  <1>10. T!ClientHasOne
    BY <1>1, <1>2, <1>4, <1>5, <1>7 DEF T!ClientHasOne
  <1>11. T!ServerHasOne
    BY <1>1, <1>2, <1>4 DEF T!ServerHasOne
  <1>12. T!SentOnce
    BY <1>1, <1>4, <1>7 DEF T!SentOnce, T!GivenOnce
  <1>13. T!LeftHandsFit
    BY <1>1, <1>2, <1>3, <1>5 DEF T!LeftHandsFit
  <1>14. T!StreamFits
    <2>1. T!LastTurn(<<>>) = T!Ended
      <3>1. ~T!TellsTurn(<<>>)
        BY <1>5 DEF T!TellsTurn
      <3> QED
        BY <3>1, <1>4, LastTurnOf
    <2> QED
      BY <2>1, <1>1, <1>3, <1>4 DEF T!StreamFits
  <1>15. T!TurnFits
    BY <1>1, <1>3 DEF T!TurnFits
  <1>16. T!NothingTypedIsLost
    BY <1>1 DEF T!NothingTypedIsLost
  <1> QED
    BY <1>6, <1>8, <1>9, <1>10, <1>11, <1>12, <1>13, <1>14, <1>15, <1>16 DEF T!LinesInv

\* when nothing happens,
LEMMA LinesUnchanged ==
  ASSUME T!LinesInv, UNCHANGED T!vars
  PROVE  T!LinesInv'
  <1>1. T!TypeOK /\ T!LoopsFit /\ T!StreamFits /\ T!TurnFits
    BY DEF T!LinesInv
  <1>2. UNCHANGED <<x1, x2, x3, x4, x5, x6, x7, x8, x9, x10, x11, x12, x13,
                    x14, x15, x16, x17, x18, x19, x20, x21, x22, x23, x24, x25>>
    BY DEF T!vars, T!server, T!sessions, T!stream, T!input, T!localTurn, T!handlers, T!history
  <1>3. T!Unseen' = T!Unseen
    BY <1>2 DEF T!Unseen
  <1>4. LinesKept'
    BY <1>2, LinesStay
  <1>5. T!TypeOK' /\ T!LoopsFit'
    BY <1>1, <1>2, ZenonT(40) DEF T!TypeOK, T!LoopsFit
  <1>6. T!StreamFits' /\ T!TurnFits'
    BY <1>1, <1>2, <1>3 DEF T!StreamFits, T!TurnFits
  <1> QED
    BY <1>4, <1>5, <1>6 DEF T!LinesInv, LinesKept

\* and after every step,
LEMMA LinesStep ==
  ASSUME T!Assumptions, T!LinesInv, T!Next
  PROVE  T!LinesInv'
  <1>2. CASE T!BeginOther \/ T!BeginOwn \/ T!AcceptSteering \/ T!CancelSteering
    BY <1>2, BeginOtherKeeps, BeginOwnKeeps, AcceptSteeringKeeps, CancelSteeringKeeps
  <1>3. CASE \E s \in Screens : T!Boundary(s) \/ T!EndTurn(s)
    BY <1>3, BoundaryKeeps, EndTurnKeeps
  <1>4. CASE T!TypeText \/ T!TypeSwitch \/ T!SteerAnswered \/ T!TakeBack
    BY <1>4, TypeTextKeeps, TypeSwitchKeeps, SteerAnsweredKeeps, TakeBackKeeps
  <1>5. CASE T!StartTurn \/ T!TurnSettled \/ T!StartSwitch \/ T!AnswerStatus \/ T!AnswerEventLog
    BY <1>5, StartTurnKeeps, TurnSettledKeeps, StartSwitchKeeps, AnswerStatusKeeps, AnswerEventLogKeeps
  <1>6. CASE T!Rejoin \/ T!Switched \/ T!Connect \/ T!Drop \/ T!Receive \/ T!ReceiveLate
    BY <1>6, RejoinKeeps, SwitchedKeeps, StreamStepKeeps, ReceiveKeeps
  <1> QED
    BY <1>2, <1>3, <1>4, <1>5, <1>6 DEF T!Next, T!ServerNext, T!ClientNext

\* and says what the property does.
LEMMA LinesTell ==
  ASSUME T!LinesInv
  PROVE  T!NothingTypedIsLost /\ T!GivenOnce /\ T!KnowsTheTurn
  <1>1. T!NothingTypedIsLost /\ T!GivenOnce /\ T!StreamFits /\ T!TurnFits /\ T!LoopsFit
    BY DEF T!LinesInv, T!SentOnce
  <1>2. T!KnowsTheTurn
    <2> SUFFICES ASSUME x14.pc = "shift", x8, x9 = <<>>, ~x25
                 PROVE  x20 = (x1[x6] # NoValue) /\ x18 = (IF x20 THEN "remote" ELSE NoValue)
      BY DEF T!KnowsTheTurn
    <2>1. T!Unseen = <<>>
      BY <1>1 DEF T!StreamFits
    <2>2. ~T!TellsTurn(T!Unseen)
      BY <2>1 DEF T!TellsTurn, T!ToSet
    <2>3. ~x16
      BY <1>1 DEF T!LoopsFit, T!InTurn
    <2> QED
      BY <2>2, <2>3, <1>1 DEF T!TurnFits
  <1> QED
    BY <1>1, <1>2


(* A line the user typed waits to be sent, is with the server, was given   *)
(* to a model, or was taken back or refused before the user's eyes; no     *)
(* model gets a line twice; and when everything has arrived the client     *)
(* knows whether a turn runs (app.ts, readInputLoop and runChatTurn).      *)
THEOREM LinesStayAccounted == Spec => []LinesAreAccounted
  <1> DEFINE Inv == part = "terminal" => T!LinesInv
  <1>0. T!Assumptions
    BY ConstantsAssumption
  <1>1. Init => Inv
    <2> SUFFICES ASSUME Init, part = "terminal" PROVE T!LinesInv
      OBVIOUS
    <2>1. T!Init
      BY DEF Init, InitPrompt, InitPicker, InitCredentials, InitInstallation, InitModels,
         InitTerminal
    <2> QED
      BY <1>0, <2>1, LinesAtFirst
  <1>2. Inv /\ [Next]_vars => Inv'
    <2> SUFFICES ASSUME Inv, [Next]_vars, part' = "terminal" PROVE T!LinesInv'
      OBVIOUS
    <2>1. CASE UNCHANGED vars
      <3>1. T!LinesInv /\ UNCHANGED T!vars
        BY <2>1 DEF vars, T!vars, T!server, T!sessions, T!stream, T!input, T!localTurn, T!handlers,
           T!history
      <3> QED
        BY <3>1, LinesUnchanged
    <2>2. CASE Next
      <3>1. part = "terminal" /\ T!Next
        BY <2>2 DEF Next, OfPrompt, OfPicker, OfCredentials, OfInstallation, OfModels,
           OfTerminal
      <3> QED
        BY <1>0, <3>1, LinesStep
    <2> QED
      BY <2>1, <2>2
  <1>3. Inv => LinesAreAccounted
    BY LinesTell DEF LinesAreAccounted
  <1> QED
    BY <1>1, <1>2, <1>3, PTL DEF Spec

-----------------------------------------------------------------------------
(* The prompt, its images and its extensions.                              *)

\* Sets are finite, and counted, as in the module.
LEMMA PromptCounts ==
  ASSUME NEW T1
  PROVE  P!Cardinality(T1) = Cardinality(T1) /\ P!IsFiniteSet(T1) = IsFiniteSet(T1)
  BY DEF P!Cardinality, Cardinality, P!IsFiniteSet, IsFiniteSet

LEMMA FiniteNone == P!IsFiniteSet({}) /\ P!Cardinality({}) = 0
  BY PromptCounts, FS_EmptySet

LEMMA FinitePart ==
  ASSUME NEW T1, P!IsFiniteSet(T1), NEW T2 \in SUBSET T1 PROVE P!IsFiniteSet(T2)
  BY PromptCounts, FS_Subset

LEMMA FiniteMore == ASSUME NEW T1, NEW e, P!IsFiniteSet(T1) PROVE P!IsFiniteSet(T1 \cup {e})
  BY PromptCounts, FS_AddElement

\* As many as there are, when each is from one.
LEMMA FiniteOnto ==
  ASSUME NEW T1, NEW T2, NEW f \in Surjection(T1, T2), P!IsFiniteSet(T1)
  PROVE  /\ P!IsFiniteSet(T2)
         /\ f \in Injection(T1, T2) => P!Cardinality(T2) = P!Cardinality(T1)
  BY PromptCounts, FS_Surjection

\* The submissions, in the order they were made.
Submitted == x7 \o x5

\* A sequence without one of its elements.
LEMMA WithoutIs ==
  ASSUME NEW Els, NEW t \in Seq(Els), NEW i \in 1..Len(t)
  PROVE  /\ P!RemoveAt(t, i) \in Seq(Els)
         /\ \A j \in DOMAIN P!RemoveAt(t, i) : \E k \in DOMAIN t : P!RemoveAt(t, i)[j] = t[k]
  <1> DEFINE a == SubSeq(t, 1, i - 1)
             b == SubSeq(t, i + 1, Len(t))
  <1>1. /\ a \in Seq(Els) /\ Len(a) = i - 1
        /\ \A j \in 1..(i - 1) : a[j] = t[j]
    OBVIOUS
  <1>2. /\ b \in Seq(Els) /\ Len(b) = Len(t) - i
        /\ \A j \in 1..(Len(t) - i) : b[j] = t[j + i]
    OBVIOUS
  <1>3. P!RemoveAt(t, i) = a \o b
    BY DEF P!RemoveAt
  <1> HIDE DEF a, b
  <1>0. Len(t) \in Nat /\ i \in Nat /\ 1 <= i /\ i <= Len(t)
    OBVIOUS
  <1>4. a \o b \in Seq(Els) /\ Len(a \o b) = Len(t) - 1
    <2>1. a \in Seq(Els) /\ b \in Seq(Els)
      BY <1>1, <1>2
    <2>2. a \o b \in Seq(Els)
      BY <2>1
    <2>3. Len(a \o b) = Len(a) + Len(b)
      BY <2>1
    <2> QED
      BY <1>0, <1>1, <1>2, <2>2, <2>3
  <1>5. ASSUME NEW j \in 1..(Len(t) - 1)
        PROVE  \E k \in DOMAIN t : (a \o b)[j] = t[k]
    <2>1. CASE j < i
      <3>1. (a \o b)[j] = a[j] /\ a[j] = t[j]
        BY <1>0, <1>1, <1>2, <2>1
      <3>2. j \in DOMAIN t
        BY <1>0
      <3> QED
        BY <3>1, <3>2
    <2>2. CASE ~(j < i)
      <3>1. (a \o b)[j] = b[j - Len(a)]
        BY <1>1, <1>2, <2>2
      <3>2. b[j - Len(a)] = t[j + 1]
        BY <1>1, <1>2, <2>2
      <3>3. j + 1 \in DOMAIN t
        OBVIOUS
      <3> QED
        BY <3>1, <3>2, <3>3
    <2> QED
      BY <2>1, <2>2
  <1>6. DOMAIN (a \o b) = 1..(Len(t) - 1)
    BY <1>4
  <1> QED
    BY <1>3, <1>4, <1>5, <1>6

\* A sequence with one element more.
LEMMA OneMore ==
  ASSUME NEW Els, NEW t \in Seq(Els), NEW e \in Els
  PROVE  /\ Append(t, e) \in Seq(Els) /\ Len(Append(t, e)) = Len(t) + 1
         /\ DOMAIN Append(t, e) = 1..(Len(t) + 1) /\ Append(t, e)[Len(t) + 1] = e
         /\ \A j \in DOMAIN t : j \in DOMAIN Append(t, e) /\ Append(t, e)[j] = t[j]
         /\ \A j \in DOMAIN Append(t, e) :
              Append(t, e)[j] = e \/ (j \in DOMAIN t /\ Append(t, e)[j] = t[j])
  <1>1. Append(t, e) \in Seq(Els) /\ Len(Append(t, e)) = Len(t) + 1
    OBVIOUS
  <1>2. /\ DOMAIN Append(t, e) = 1..(Len(t) + 1) /\ DOMAIN t = 1..Len(t)
        /\ Len(t) \in Nat
    BY <1>1
  <1>3. Append(t, e)[Len(t) + 1] = e /\ \A j \in DOMAIN t : Append(t, e)[j] = t[j]
    OBVIOUS
  <1>4. \A j \in DOMAIN Append(t, e) : j \in DOMAIN t \/ j = Len(t) + 1
    BY <1>2
  <1>5. \A j \in DOMAIN t : j \in DOMAIN Append(t, e)
    BY <1>2
  <1>6. \A j \in DOMAIN Append(t, e) :
           Append(t, e)[j] = e \/ (j \in DOMAIN t /\ Append(t, e)[j] = t[j])
    <2> DEFINE u == Append(t, e)
    <2>1. u[Len(t) + 1] = e /\ \A j \in DOMAIN t : u[j] = t[j]
      BY <1>3
    <2>2. \A j \in DOMAIN u : j \in DOMAIN t \/ j = Len(t) + 1
      BY <1>4
    <2> HIDE DEF u
    <2>3. ASSUME NEW j \in DOMAIN u PROVE u[j] = e \/ (j \in DOMAIN t /\ u[j] = t[j])
      <3>1. CASE j \in DOMAIN t
        BY <2>1, <3>1
      <3>2. CASE j = Len(t) + 1
        BY <2>1, <3>2
      <3> QED
        BY <2>2, <3>1, <3>2
    <2> QED
      BY <2>3 DEF u
  <1> QED
    BY <1>1, <1>2, <1>3, <1>5, <1>6

\* A text with a label, or a word, more.
LEMMA OneTyped ==
  ASSUME NEW t \in Seq(Nat), NEW n \in Nat
  PROVE  Append(t, n) \in Seq(Nat) /\ P!Range(Append(t, n)) = P!Range(t) \cup {n}
  <1>1. /\ Len(Append(t, n)) = Len(t) + 1 /\ Append(t, n)[Len(t) + 1] = n
        /\ \A i \in 1..Len(t) : Append(t, n)[i] = t[i]
    OBVIOUS
  <1> QED
    BY <1>1 DEF P!Range

\* The attachments that a text keeps.
LEMMA DraftOf ==
  ASSUME NEW t, NEW as, P!IsFiniteSet(as)
  PROVE  P!ForDraft(t, as) \subseteq as /\ P!IsFiniteSet(P!ForDraft(t, as))
         /\ P!ImagesOf(P!ForDraft(t, as)) \subseteq P!ImagesOf(as)
  <1>1. P!ForDraft(t, as) \in SUBSET as
    BY DEF P!ForDraft
  <1>2. P!ImagesOf(P!ForDraft(t, as)) \subseteq P!ImagesOf(as)
    BY <1>1 DEF P!ImagesOf
  <1> QED
    BY <1>1, <1>2, FinitePart

\* A part of the text shows the attachments that are left.
LEMMA ShowsPart ==
  ASSUME NEW t, NEW u, NEW as, P!Shows(t, as), P!Labels(u) \subseteq P!Labels(t),
         \A a \in as : a.label # P!Word
  PROVE  P!Shows(u, P!ForDraft(u, as))
  <1> DEFINE less == P!ForDraft(u, as)
  <1>1. less \subseteq as /\ \A a \in as : a \in less <=> a.label \in P!Range(u)
    BY DEF P!ForDraft
  <1>2. P!Labels(u) = {a.label : a \in less}
    <2>1. ASSUME NEW l \in P!Labels(u)
          PROVE  l \in {a.label : a \in less}
      <3>1. l \in P!Labels(t) /\ l \in P!Range(u)
        BY DEF P!Labels
      <3>2. PICK a \in as : a.label = l
        BY <3>1 DEF P!Shows
      <3> QED
        BY <1>1, <3>1, <3>2
    <2>2. \A a \in less : a.label \in P!Labels(u)
      BY <1>1 DEF P!Shows, P!Labels
    <2> QED
      BY <2>1, <2>2
  <1>3. /\ \A a \in less : a.type = "image"
        /\ \A a, b \in less : a.label = b.label \/ a.image = b.image => a = b
    BY <1>1 DEF P!Shows
  <1> QED
    BY <1>2, <1>3 DEF P!Shows

\* The submissions, those read before those kept.
LEMMA SentAre ==
  ASSUME P!SentFits
  PROVE  /\ Submitted \in Seq(P!Submissions) /\ Len(Submitted) = Len(x7) + Len(x5)
         /\ DOMAIN Submitted = 1..(Len(x7) + Len(x5))
         /\ \A i \in DOMAIN x7 : i \in DOMAIN Submitted /\ Submitted[i] = x7[i]
  BY DEF P!SentFits, Submitted

\* The submissions stay, and the draft has none of their images.
LEMMA SentKept ==
  ASSUME P!SentFits, x7' = x7, x5' = x5, x6' \in BOOLEAN,
         x6' => x5 = <<>>, P!Placed \subseteq P!Placed',
         \A i \in DOMAIN Submitted :
            P!ImagesOf(Submitted[i].attachments) \intersect P!ImagesOf(x2') = {}
  PROVE  P!SentFits'
  BY DEF P!SentFits, Submitted, P!ImageInOnePlace

\* The shell and its extensions stay.
LEMMA ShellKept ==
  ASSUME P!ShellFits, x9' = x9, x10' = x10, x6' => x6 \/ P!Tried,
         x7' = x7
  PROVE  P!ShellFits'
  BY DEF P!ShellFits, P!Tried, P!ExtensionsAreDisposed

\* The text is changed.
LEMMA TextChanged ==
  ASSUME P!DraftFits, NEW t \in Seq(Nat), P!Labels(t) \subseteq P!Labels(x1), P!Change(t, x2),
         x3' = x3, x11' = x11,
         x4' \subseteq x4
  PROVE  P!DraftFits' /\ P!ImagesOf(x2') \subseteq P!ImagesOf(x2)
  <1>1. /\ x1' = t /\ x2' = P!ForDraft(t, x2)
        /\ x13' = (x13 /\ t # <<>>)
    BY DEF P!Change
  <1>2. /\ x2' \subseteq x2 /\ P!IsFiniteSet(x2')
        /\ P!ImagesOf(x2') \subseteq P!ImagesOf(x2)
    BY <1>1, DraftOf DEF P!DraftFits
  <1>3. P!Placed \subseteq P!Placed'
    BY DEF P!Placed
  <1>4. ~x13 => P!Shows(t, x2') /\ \A a \in x2' : a.label < x3
    <2> HAVE ~x13
    <2>1. P!Shows(x1, x2) /\ \A a \in x2 : a.label < x3
      BY DEF P!DraftFits
    <2>2. P!Shows(t, x2')
      <3>1. \A a \in x2 : a.label # P!Word
        BY <2>1 DEF P!DraftFits, P!Attachments, P!Word
      <3> QED
        BY <1>1, <2>1, <3>1, ShowsPart
    <2> QED
      BY <1>2, <2>1, <2>2
  <1>5. t = <<>> => P!Shows(t, x2') /\ x2' = {}
    BY <1>1 DEF P!ForDraft, P!Shows, P!Labels, P!Range
  <1> QED
    BY <1>1, <1>2, <1>3, <1>4, <1>5 DEF P!DraftFits

\* A text without one of its labels or words.
LEMMA RangeRemoved ==
  ASSUME NEW t \in Seq(Nat), NEW i \in 1..Len(t)
  PROVE  P!RemoveAt(t, i) \in Seq(Nat) /\ P!Labels(P!RemoveAt(t, i)) \subseteq P!Labels(t)
  BY WithoutIs DEF P!Labels, P!Range

\* The parts of the invariant.
LEMMA PromptParts ==
  ASSUME P!PromptInv
  PROVE  /\ P!DraftFits /\ P!SentFits /\ P!ShownFits /\ P!ShellFits /\ x1 \in Seq(Nat)
         /\ \A i \in DOMAIN Submitted :
               /\ P!ImagesOf(Submitted[i].attachments) \subseteq P!Placed
               /\ P!ImagesOf(Submitted[i].attachments) \intersect P!ImagesOf(x2) = {}
         /\ x6 \in BOOLEAN /\ (x6 => x5 = <<>>)
  BY DEF P!PromptInv, P!DraftFits, P!SentFits, P!ImageInOnePlace, Submitted

\* Fewer images are in the draft, or more are placed.
LEMMA SentRest ==
  ASSUME P!PromptInv, x7' = x7, x5' = x5, x6' \in BOOLEAN,
         x6' => x5 = <<>>, P!Placed \subseteq P!Placed',
         P!ImagesOf(x2') \subseteq P!ImagesOf(x2)
  PROVE  P!SentFits'
  BY PromptParts, SentKept

\* The user types or deletes.
LEMMA EditKeeps ==
  ASSUME P!PromptInv, P!Type \/ \E i \in 1..MaxText : P!Delete(i)
  PROVE  P!PromptInv'
  <1>1. /\ x7' = x7 /\ x5' = x5 /\ x6' = x6 /\ x8' = x8
        /\ x9' = x9 /\ x10' = x10 /\ x3' = x3
        /\ x11' = x11 /\ x4' = x4
    BY DEF P!Type, P!Delete, P!reader, P!queue
  <1>2. PICK t \in Seq(Nat) : P!Labels(t) \subseteq P!Labels(x1) /\ P!Change(t, x2)
    <2>1. CASE P!Type
      BY <2>1, PromptParts, OneTyped DEF P!Type, P!Labels, P!Word
    <2>2. CASE \E i \in 1..MaxText : P!Delete(i)
      BY <2>2, PromptParts, RangeRemoved DEF P!Delete
    <2> QED
      BY <2>1, <2>2
  <1>3. P!DraftFits' /\ P!ImagesOf(x2') \subseteq P!ImagesOf(x2)
    BY <1>1, <1>2, PromptParts, TextChanged
  <1>4. P!SentFits'
    BY <1>1, <1>3, PromptParts, SentRest DEF P!Placed
  <1>5. P!ShownFits' /\ P!ShellFits'
    BY <1>1, PromptParts, ShellKept DEF P!ShownFits
  <1> QED
    BY <1>3, <1>4, <1>5 DEF P!PromptInv

\* A paste was read, and is text or nothing.
LEMMA InsertTextKeeps ==
  ASSUME P!PromptInv, NEW image \in Images, P!InsertText(image)
  PROVE  P!PromptInv'
  <1>1. /\ x7' = x7 /\ x5' = x5 /\ x6' = x6 /\ x8' = x8
        /\ x9' = x9 /\ x10' = x10 /\ x3' = x3
        /\ x11' = x11 /\ x4' = x4 \ {image}
    BY DEF P!InsertText, P!reader, P!queue, P!draft
  <1>2. P!DraftFits' /\ P!ImagesOf(x2') \subseteq P!ImagesOf(x2)
    <2>1. CASE UNCHANGED P!draft
      BY <1>1, <2>1, PromptParts DEF P!draft, P!DraftFits, P!Placed
    <2>2. CASE P!Change(Append(x1, P!Word), x2)
      <3>1. Append(x1, P!Word) \in Seq(Nat) /\ P!Labels(Append(x1, P!Word)) \subseteq P!Labels(x1)
        BY PromptParts, OneTyped DEF P!Labels, P!Word
      <3> QED
        BY <1>1, <2>2, <3>1, PromptParts, TextChanged
    <2> QED
      BY <2>1, <2>2 DEF P!InsertText
  <1>3. P!SentFits'
    BY <1>1, <1>2, PromptParts, SentRest DEF P!Placed
  <1>4. P!ShownFits' /\ P!ShellFits'
    BY <1>1, PromptParts, ShellKept DEF P!ShownFits
  <1> QED
    BY <1>2, <1>3, <1>4 DEF P!PromptInv

\* A paste is begun.
LEMMA PasteKeeps ==
  ASSUME P!PromptInv, NEW image \in Images, P!Paste(image)
  PROVE  P!PromptInv'
  <1>1. /\ x7' = x7 /\ x5' = x5 /\ x6' = x6 /\ x8' = x8
        /\ x9' = x9 /\ x10' = x10 /\ UNCHANGED P!draft
        /\ x11' = x11 \union {image} /\ x4' = x4 \union {image}
        /\ image \notin x11
    BY DEF P!Paste, P!reader, P!queue
  <1>2. P!Placed' = P!Placed
    BY <1>1, PromptParts DEF P!Placed, P!DraftFits
  <1>3. P!DraftFits'
    BY <1>1, <1>2, PromptParts DEF P!draft, P!DraftFits
  <1>4. P!SentFits'
    BY <1>1, <1>2, PromptParts, SentRest DEF P!draft
  <1>5. P!ShownFits' /\ P!ShellFits'
    BY <1>1, PromptParts, ShellKept DEF P!ShownFits
  <1> QED
    BY <1>3, <1>4, <1>5 DEF P!PromptInv

\* A submission of the history, or of the queue, becomes the draft.
LEMMA DraftRecalled ==
  ASSUME P!PromptInv, NEW t \in Seq(Nat), NEW as \in SUBSET P!Attachments, P!IsFiniteSet(as),
         x1' = t, x2' = P!ForDraft(t, as), x13', x3' \in Nat \ {0},
         P!ImagesOf(as) \subseteq P!ImagesOf(x2),
         x7' = x7, x5' = x5, x6' = x6, x11' = x11,
         x4' = x4
  PROVE  P!DraftFits' /\ P!SentFits'
  <1>1. /\ x2' \subseteq as /\ P!IsFiniteSet(x2')
        /\ P!ImagesOf(x2') \subseteq P!ImagesOf(x2)
    BY DraftOf
  <1>2. P!DraftFits'
    BY <1>1, PromptParts DEF P!DraftFits, P!Placed
  <1> QED
    BY <1>1, <1>2, PromptParts, SentRest DEF P!Placed

\* A submission of the history comes back.
LEMMA RecallKeeps ==
  ASSUME P!PromptInv, NEW i \in 1..MaxEnter, P!Recall(i)
  PROVE  P!PromptInv'
  <1>1. /\ x7' = x7 /\ x5' = x5 /\ x6' = x6 /\ x8' = x8
        /\ x9' = x9 /\ x10' = x10 /\ x3' = x3
        /\ x11' = x11 /\ x4' = x4 /\ i \in DOMAIN x7
        /\ x1' = x7[i].text /\ x2' = P!ForDraft(x7[i].text, x2)
        /\ x13'
    BY DEF P!Recall, P!reader, P!queue
  <1>2. x7[i].text \in Seq(Nat)
    <2>1. x7[i] \in P!Submissions
      BY <1>1, PromptParts DEF P!SentFits
    <2> QED
      BY <2>1 DEF P!Submissions
  <1>3. P!DraftFits' /\ P!SentFits'
    BY <1>1, <1>2, PromptParts, DraftRecalled DEF P!DraftFits
  <1>4. P!ShownFits' /\ P!ShellFits'
    BY <1>1, PromptParts, ShellKept DEF P!ShownFits
  <1> QED
    BY <1>3, <1>4 DEF P!PromptInv

\* The last message of the queue comes back.
LEMMA PopKeeps ==
  ASSUME P!PromptInv, P!PopQueued
  PROVE  P!PromptInv'
  <1>1. /\ x7' = x7 /\ x5' = x5 /\ x6' = x6 /\ x8 # <<>>
        /\ x8' = P!Front(x8) /\ P!Restore(P!Last(x8))
        /\ x9' = x9 /\ x10' = x10
        /\ x11' = x11 /\ x4' = x4
    BY DEF P!PopQueued, P!reader
  <1>2. /\ x8 \in Seq(P!Submissions) /\ P!Last(x8) \in P!Submissions
        /\ P!ImagesOf(P!Last(x8).attachments) = {}
    <2>1. x8 \in Seq(P!Submissions) /\ Len(x8) \in DOMAIN x8
      BY <1>1, PromptParts DEF P!ShownFits
    <2>2. P!Last(x8) = x8[Len(x8)]
      BY DEF P!Last
    <2>3. x8[Len(x8)] \in P!Submissions
      BY <2>1
    <2>4. P!ImagesOf(x8[Len(x8)].attachments) = {}
      BY <2>1, PromptParts DEF P!ShownFits
    <2> QED
      BY <2>1, <2>2, <2>3, <2>4
  <1>3. PICK s \in P!Submissions : s = P!Last(x8)
    BY <1>2
  <1>4. /\ s.text \in Seq(Nat) /\ s.attachments \in SUBSET P!Attachments
        /\ P!IsFiniteSet(s.attachments)
    BY DEF P!Submissions
  <1>5. x3' = 1
    BY <1>1, <1>2, <1>3, FiniteNone DEF P!Restore
  <1>6. x1' = s.text /\ x2' = P!ForDraft(s.text, s.attachments) /\ x13'
    BY <1>1, <1>3 DEF P!Restore
  <1>7. P!DraftFits' /\ P!SentFits'
    BY <1>1, <1>2, <1>3, <1>4, <1>5, <1>6, DraftRecalled
  <1>8. P!ShownFits'
    <2>1. x8' = SubSeq(x8, 1, Len(x8) - 1)
      BY <1>1 DEF P!Front
    <2>2. /\ x8' \in Seq(P!Submissions)
          /\ \A i \in DOMAIN x8' : i \in DOMAIN x8 /\ x8'[i] = x8[i]
      BY <1>1, <1>2, <2>1
    <2>3. \A i \in DOMAIN x8 : P!ImagesOf(x8[i].attachments) = {}
      BY PromptParts DEF P!ShownFits
    <2>4. \A i \in DOMAIN x8' : P!ImagesOf(x8'[i].attachments) = {}
      BY <2>2, <2>3
    <2> QED
      BY <2>2, <2>4 DEF P!ShownFits
  <1>9. P!ShellFits'
    BY <1>1, PromptParts, ShellKept
  <1> QED
    BY <1>7, <1>8, <1>9 DEF P!PromptInv

\* The input ends.
LEMMA ExitKeeps ==
  ASSUME P!PromptInv, P!Exit
  PROVE  P!PromptInv'
  <1>1. /\ x7' = x7 /\ x5' = x5 /\ x8' = x8
        /\ UNCHANGED P!draft /\ x10' = x10 /\ ~x6'
        /\ x6' = FALSE /\ x11' = x11 /\ x4' = x4 /\ ~x9.closed
        /\ x9' = [x9 EXCEPT !.ended = TRUE, !.done = @ \/ x6]
    BY DEF P!Exit, P!Open, P!queue
  <1>2. P!DraftFits' /\ P!ShownFits'
    BY <1>1, PromptParts DEF P!DraftFits, P!ShownFits, P!draft, P!Placed
  <1>3. P!SentFits'
    BY <1>1, PromptParts, SentRest DEF P!draft, P!Placed
  <1>4. P!ShellFits'
    <2>1. x9 \in [ended : BOOLEAN, done : BOOLEAN, closed : BOOLEAN] /\ x6 \in BOOLEAN
      BY PromptParts DEF P!ShellFits
    <2>2. /\ x9' \in [ended : BOOLEAN, done : BOOLEAN, closed : BOOLEAN]
          /\ x9'.done = (x9.done \/ x6) /\ ~x9'.closed
      BY <1>1, <2>1
    <2> QED
      BY <1>1, <2>2, PromptParts DEF P!ShellFits, P!Tried, P!ExtensionsAreDisposed
  <1> QED
    BY <1>2, <1>3, <1>4 DEF P!PromptInv

\* The shell is closed.
LEMMA CloseKeeps ==
  ASSUME P!PromptInv, P!Close
  PROVE  P!PromptInv'
  <1>1. /\ x7' = x7 /\ x5' = x5 /\ x8' = x8
        /\ UNCHANGED P!draft /\ ~x6' /\ x6' = FALSE
        /\ x11' = x11 /\ x4' = x4 /\ (x9.done \/ x7 # <<>>)
        /\ x9' = [x9 EXCEPT !.closed = TRUE, !.done = TRUE]
        /\ x10' = [x10 EXCEPT !.disposed = P!Range(x10.kept)]
    BY DEF P!Close, P!queue
  <1>2. P!DraftFits' /\ P!ShownFits'
    BY <1>1, PromptParts DEF P!DraftFits, P!ShownFits, P!draft, P!Placed
  <1>3. P!SentFits'
    BY <1>1, PromptParts, SentRest DEF P!draft, P!Placed
  <1>4. P!ShellFits'
    <2>1. x9 \in [ended : BOOLEAN, done : BOOLEAN, closed : BOOLEAN]
          /\ DOMAIN x10 = {"tried", "kept", "disposed"}
      BY PromptParts DEF P!ShellFits
    <2>2. x9' \in [ended : BOOLEAN, done : BOOLEAN, closed : BOOLEAN]
      BY <1>1, <2>1
    <2>3. /\ DOMAIN x10' = {"tried", "kept", "disposed"}
          /\ x10'.tried = x10.tried /\ x10'.kept = x10.kept
          /\ x10'.disposed = P!Range(x10'.kept)
      BY <1>1, <2>1
    <2>4. P!Tried
      BY <1>1, PromptParts DEF P!ShellFits
    <2> QED
      BY <2>2, <2>3, <2>4 DEF P!ShellFits, P!Tried, P!ExtensionsAreDisposed
  <1> QED
    BY <1>2, <1>3, <1>4 DEF P!PromptInv

\* An extension is tried.
LEMMA ExtendKeeps ==
  ASSUME P!PromptInv, NEW works \in BOOLEAN, P!Extend(works)
  PROVE  P!PromptInv'
  <1>1. /\ x7' = x7 /\ x5' = x5 /\ x8' = x8 /\ x9' = x9
        /\ UNCHANGED P!draft /\ x6' = x6 /\ ~P!Tried
        /\ x11' = x11 /\ x4' = x4
        /\ x10' = [x10 EXCEPT !.tried = @ + 1,
             !.kept = IF works THEN Append(@, Extensions[x10.tried + 1]) ELSE @]
    BY DEF P!Extend, P!reader, P!queue
  <1>2. P!DraftFits' /\ P!ShownFits'
    BY <1>1, PromptParts DEF P!DraftFits, P!ShownFits, P!draft, P!Placed
  <1>3. P!SentFits'
    BY <1>1, PromptParts, SentRest DEF P!draft, P!Placed
  <1>4. P!ShellFits'
    <2>1. ~x6 /\ ~x9.done /\ x7 = <<>> /\ ~x9.closed
      BY <1>1, PromptParts DEF P!ShellFits, P!ExtensionsAreDisposed
    <2>2. DOMAIN x10' = {"tried", "kept", "disposed"}
      BY <1>1, PromptParts DEF P!ShellFits
    <2> QED
      BY <1>1, <2>1, <2>2, PromptParts DEF P!ShellFits, P!ExtensionsAreDisposed
  <1> QED
    BY <1>2, <1>3, <1>4 DEF P!PromptInv

\* A message of the queue was delivered.
LEMMA DeliveredKeeps ==
  ASSUME P!PromptInv, NEW i \in 1..MaxQueued, P!Delivered(i)
  PROVE  P!PromptInv'
  <1>1. /\ x7' = x7 /\ x5' = x5 /\ x9' = x9
        /\ UNCHANGED P!draft /\ x6' = x6 /\ x10' = x10
        /\ x11' = x11 /\ x4' = x4
        /\ x8' = P!RemoveAt(x8, i) /\ i \in DOMAIN x8
    BY DEF P!Delivered, P!reader
  <1>2. P!DraftFits'
    BY <1>1, PromptParts DEF P!DraftFits, P!draft, P!Placed
  <1>3. P!SentFits'
    BY <1>1, PromptParts, SentRest DEF P!draft, P!Placed
  <1>4. P!ShownFits'
    <2>1. x8 \in Seq(P!Submissions) /\ i \in 1..Len(x8)
      BY <1>1, PromptParts DEF P!ShownFits
    <2>2. /\ x8' \in Seq(P!Submissions)
          /\ \A j \in DOMAIN x8' : \E k \in DOMAIN x8 : x8'[j] = x8[k]
      BY <1>1, <2>1, WithoutIs
    <2> QED
      BY <2>2, PromptParts DEF P!ShownFits
  <1>5. P!ShellFits'
    BY <1>1, PromptParts, ShellKept
  <1> QED
    BY <1>2, <1>3, <1>4, <1>5 DEF P!PromptInv

\* What comes back of a submission has no images.
LEMMA QueuedIsText ==
  ASSUME NEW s \in P!Submissions
  PROVE  P!AsQueued(s) \in P!Submissions /\ P!ImagesOf(P!AsQueued(s).attachments) = {}
  <1> DEFINE as == s.attachments
             f == [a \in as |-> [a EXCEPT !.type = "text"]]
             bs == {[a EXCEPT !.type = "text"] : a \in as}
  <1>1. /\ s.text \in Seq(Nat) /\ as \in SUBSET P!Attachments
        /\ P!IsFiniteSet(as) /\ s.typed \in BOOLEAN
        /\ P!AsQueued(s) = [s EXCEPT !.attachments = bs]
    BY DEF P!Submissions, P!AsQueued
  <1>2. \A a \in as : f[a] \in P!Attachments /\ f[a].type = "text"
    BY <1>1 DEF P!Attachments
  <1>3. \A b \in bs : \E a \in as : f[a] = b
    OBVIOUS
  <1>4. f \in [as -> bs]
    OBVIOUS
  <1> HIDE DEF f, bs
  <1>7. P!IsFiniteSet(bs)
    <2>1. f \in Surjection(as, bs)
      BY <1>3, <1>4 DEF Surjection
    <2> QED
      BY <1>1, <2>1, FiniteOnto
  <1>8. bs \in SUBSET P!Attachments /\ \A b \in bs : b.type = "text"
    BY <1>2, <1>3
  <1>5. P!AsQueued(s) = [text |-> s.text, attachments |-> bs, typed |-> s.typed]
    BY <1>1 DEF P!Submissions
  <1>6. P!ImagesOf(bs) = {}
    BY <1>8 DEF P!ImagesOf
  <1> QED
    BY <1>1, <1>5, <1>6, <1>7, <1>8 DEF P!Submissions

\* The server has queued a submission.
LEMMA ShowQueuedKeeps ==
  ASSUME P!PromptInv, NEW i \in 1..MaxEnter, P!ShowQueued(i)
  PROVE  P!PromptInv'
  <1>1. /\ x7' = x7 /\ x5' = x5 /\ x9' = x9
        /\ UNCHANGED P!draft /\ x6' = x6 /\ x10' = x10
        /\ x11' = x11 /\ x4' = x4
        /\ x8' = Append(x8, P!AsQueued(x7[i])) /\ i \in DOMAIN x7
    BY DEF P!ShowQueued, P!reader
  <1>2. P!DraftFits'
    BY <1>1, PromptParts DEF P!DraftFits, P!draft, P!Placed
  <1>3. P!SentFits'
    BY <1>1, PromptParts, SentRest DEF P!draft, P!Placed
  <1>4. P!ShownFits'
    <2>1. x7[i] \in P!Submissions
      BY <1>1, PromptParts DEF P!SentFits
    <2>2. PICK q \in P!Submissions : q = P!AsQueued(x7[i]) /\ P!ImagesOf(q.attachments) = {}
      BY <2>1, QueuedIsText
    <2>3. x8 \in Seq(P!Submissions) /\ x8' = Append(x8, q)
      BY <1>1, <2>2, PromptParts DEF P!ShownFits
    <2>4. /\ x8' \in Seq(P!Submissions)
          /\ \A j \in DOMAIN x8' : x8'[j] = q \/ (j \in DOMAIN x8 /\ x8'[j] = x8[j])
      BY <2>3, OneMore
    <2>5. \A j \in DOMAIN x8 : P!ImagesOf(x8[j].attachments) = {}
      BY PromptParts DEF P!ShownFits
    <2>6. \A j \in DOMAIN x8' : P!ImagesOf(x8'[j].attachments) = {}
      BY <2>2, <2>4, <2>5
    <2> QED
      BY <2>4, <2>6 DEF P!ShownFits
  <1>5. P!ShellFits'
    BY <1>1, PromptParts, ShellKept
  <1> QED
    BY <1>2, <1>3, <1>4, <1>5 DEF P!PromptInv

\* A paste was read, and is an image: a new label, and its attachment.
LEMMA InsertKeeps ==
  ASSUME P!PromptInv, NEW image \in Images, P!Insert(image)
  PROVE  P!PromptInv'
  <1> DEFINE a == [type |-> "image", image |-> image, label |-> x3]
             all == x2 \union {a}
             t == Append(x1, x3)
  <1>1. /\ x7' = x7 /\ x5' = x5 /\ x6' = x6 /\ x8' = x8
        /\ x9' = x9 /\ x10' = x10
        /\ x3' = x3 + 1
        /\ x11' = x11 /\ x4' = x4 \ {image} /\ image \in x4
        /\ x1' = t /\ x2' = P!ForDraft(t, all) /\ x13' = (x13 /\ t # <<>>)
    BY DEF P!Insert, P!Attach, P!Change, P!reader, P!queue
  <1>2. /\ x1 \in Seq(Nat) /\ x3 \in Nat \ {0} /\ x2 \in SUBSET P!Attachments
        /\ P!IsFiniteSet(x2) /\ P!ImagesOf(x2) \subseteq P!Placed
        /\ x4 \subseteq x11 /\ x11 \subseteq Images /\ x13 \in BOOLEAN
    BY PromptParts DEF P!DraftFits
  <1>3. t \in Seq(Nat) /\ P!Range(t) = P!Range(x1) \union {x3} /\ t # <<>>
    BY <1>2, OneTyped
  <1>4. a \in P!Attachments /\ a.type = "image" /\ a.image = image /\ a.label = x3
    BY <1>2 DEF P!Attachments
  <1> HIDE DEF a, t
  <1>5. all \in SUBSET P!Attachments /\ P!IsFiniteSet(all)
    BY <1>2, <1>4, FiniteMore
  <1>6. P!ImagesOf(all) = P!ImagesOf(x2) \union {image}
    BY <1>4 DEF P!ImagesOf
  <1> HIDE DEF all
  <1>7. /\ x2' \subseteq all /\ P!IsFiniteSet(x2')
        /\ P!ImagesOf(x2') \subseteq P!ImagesOf(x2) \union {image}
    BY <1>1, <1>5, <1>6, DraftOf
  <1>8. P!Placed' = P!Placed \union {image} /\ image \notin P!Placed
    BY <1>1, <1>2 DEF P!Placed
  <1>9. ASSUME ~x13 PROVE P!Shows(t, x2') /\ \A b \in x2' : b.label < x3'
    <2>1. P!Shows(x1, x2) /\ \A b \in x2 : b.label < x3
      BY <1>9, PromptParts DEF P!DraftFits
    <2>2. \A b \in x2 : /\ b.type = "image" /\ b.label \in Nat \ {0}
                        /\ b.image # image /\ b.label # x3
      <3>1. \A b \in x2 : b.type = "image" /\ b.label \in Nat \ {0} /\ b.label # x3
        BY <1>2, <2>1 DEF P!Shows, P!Attachments
      <3>2. \A b \in x2 : b.image \in P!ImagesOf(x2)
        BY <3>1 DEF P!ImagesOf
      <3> QED
        BY <1>2, <1>8, <3>1, <3>2
    <2>3. P!Shows(t, all)
      <3>1. P!Labels(t) = P!Labels(x1) \union {x3}
        BY <1>2, <1>3 DEF P!Labels, P!Word
      <3>2. P!Labels(t) = {b.label : b \in all}
        BY <1>4, <2>1, <3>1 DEF all, P!Shows
      <3>3. /\ \A b \in all : b.type = "image"
            /\ \A b, c \in all : b.label = c.label \/ b.image = c.image => b = c
        BY <1>4, <2>1, <2>2 DEF all, P!Shows
      <3> QED
        BY <3>2, <3>3 DEF P!Shows
    <2>4. \A b \in all : b.label # P!Word /\ b.label \in Nat /\ b.label < x3'
      BY <1>1, <1>2, <1>4, <2>1, <2>2 DEF all, P!Word
    <2>5. P!Shows(t, x2')
      BY <1>1, <2>3, <2>4, ShowsPart
    <2> QED
      BY <1>7, <2>4, <2>5
  <1>10. P!DraftFits'
    <2>1. /\ x1' \in Seq(Nat) /\ x2' \in SUBSET P!Attachments
          /\ x3' \in Nat \ {0} /\ x13' = x13 /\ x4' \subseteq x11'
      BY <1>1, <1>2, <1>3, <1>5, <1>7
    <2>2. P!ImagesOf(x2') \subseteq P!Placed'
      BY <1>2, <1>7, <1>8
    <2> QED
      BY <1>1, <1>2, <1>7, <1>9, <2>1, <2>2 DEF P!DraftFits
  <1>11. P!SentFits'
    <2>1. \A i \in DOMAIN Submitted : P!ImagesOf(Submitted[i].attachments) \intersect P!ImagesOf(x2') = {}
      BY <1>7, <1>8, PromptParts
    <2> QED
      BY <1>1, <1>8, <2>1, PromptParts, SentKept
  <1>12. P!ShownFits' /\ P!ShellFits'
    BY <1>1, PromptParts, ShellKept DEF P!ShownFits
  <1> QED
    BY <1>10, <1>11, <1>12 DEF P!PromptInv

\* What was sent, with one more.
LEMMA SentMore ==
  ASSUME P!SentFits, NEW s \in P!Submissions,
         \/ x7' = Append(x7, s) /\ x5' = x5 /\ x5 = <<>>
         \/ x7' = x7 /\ x5' = Append(x5, s)
  PROVE  /\ x7' \in Seq(P!Submissions) /\ x5' \in Seq(P!Submissions)
         /\ Submitted' = Append(Submitted, s)
  <1>1. x7 \in Seq(P!Submissions) /\ x5 \in Seq(P!Submissions)
    BY DEF P!SentFits
  <1>2. x7' \in Seq(P!Submissions) /\ x5' \in Seq(P!Submissions)
    <2>1. Append(x7, s) \in Seq(P!Submissions) /\ Append(x5, s) \in Seq(P!Submissions)
      BY <1>1
    <2> QED
      BY <1>1, <2>1
  <1>3. CASE x7' = Append(x7, s) /\ x5' = x5 /\ x5 = <<>>
    <2>1. x7 \o <<>> = x7 /\ Append(x7, s) \o <<>> = Append(x7, s)
      BY <1>1, <1>2, <1>3
    <2> QED
      BY <1>2, <1>3, <2>1 DEF Submitted
  <1>4. CASE x7' = x7 /\ x5' = Append(x5, s)
    <2>1. x7 \o Append(x5, s) = Append(x7 \o x5, s)
      BY <1>1
    <2> QED
      BY <1>2, <1>4, <2>1 DEF Submitted
  <1> QED
    BY <1>2, <1>3, <1>4

\* The first one that is kept is read.
LEMMA SentTaken ==
  ASSUME P!SentFits, x5 # <<>>, x7' = Append(x7, Head(x5)), x5' = Tail(x5)
  PROVE  /\ x7' \in Seq(P!Submissions) /\ x5' \in Seq(P!Submissions) /\ Submitted' = Submitted
  <1>1. x7 \in Seq(P!Submissions) /\ x5 \in Seq(P!Submissions)
    BY DEF P!SentFits
  <1>2. Head(x5) \in P!Submissions /\ Tail(x5) \in Seq(P!Submissions)
    BY <1>1
  <1>3. x7' \in Seq(P!Submissions) /\ x5' \in Seq(P!Submissions)
    BY <1>1, <1>2, OneMore
  <1>4. Append(x7, Head(x5)) \o Tail(x5) = x7 \o x5
    <2>1. Len(x5) \in Nat /\ Len(x5) >= 1 /\ Len(x7) \in Nat
      BY <1>1
    <2>2. Len(Tail(x5)) = Len(x5) - 1 /\ Head(x5) = x5[1]
          /\ \A j \in 1..(Len(x5) - 1) : Tail(x5)[j] = x5[j + 1]
      BY <1>1, <2>1
    <2> QED
      BY <1>1, <1>2, <2>1, <2>2
  <1> QED
    BY <1>3, <1>4 DEF Submitted

\* What is said of the submissions, when they are what they were.
LEMMA SentSame ==
  ASSUME P!SentFits, Submitted' = Submitted, x7' \in Seq(P!Submissions), x5' \in Seq(P!Submissions),
         x6' \in BOOLEAN, x6' => x5' = <<>>, P!Placed' = P!Placed,
         x2' = x2
  PROVE  P!SentFits'
  BY DEF P!SentFits, Submitted, P!ImageInOnePlace

\* A reader comes: it gets the first submission that is kept, or waits.
LEMMA ReadKeeps ==
  ASSUME P!PromptInv, P!Read
  PROVE  P!PromptInv'
  <1>1. /\ x8' = x8 /\ UNCHANGED P!draft /\ x10' = x10
        /\ x11' = x11 /\ x4' = x4 /\ P!Tried /\ ~x9.closed
    BY DEF P!Read, P!Answer, P!queue, P!Open
  <1>2. P!DraftFits' /\ P!ShownFits'
    BY <1>1, PromptParts DEF P!DraftFits, P!ShownFits, P!draft, P!Placed
  <1>3. x9' = x9 \/ x9' = [x9 EXCEPT !.done = TRUE]
    BY DEF P!Read, P!Answer
  <1>4. P!SentFits'
    <2>1. CASE x9.ended
      BY <1>1, <2>1, PromptParts, SentRest DEF P!Read, P!Answer, P!reader, P!draft, P!Placed
    <2>2. CASE ~x9.ended /\ x5 # <<>>
      <3>1. /\ x7' = Append(x7, Head(x5)) /\ x5' = Tail(x5)
            /\ x6' = x6 /\ ~x6
        BY <2>2 DEF P!Read, P!Answer
      <3>2. /\ x7' \in Seq(P!Submissions) /\ x5' \in Seq(P!Submissions) /\ Submitted' = Submitted
        BY <2>2, <3>1, PromptParts, SentTaken
      <3> QED
        BY <1>1, <3>1, <3>2, PromptParts, SentSame DEF P!draft, P!Placed
    <2>3. CASE ~x9.ended /\ x5 = <<>>
      BY <1>1, <2>3, PromptParts, SentRest DEF P!Read, P!Answer, P!draft, P!Placed
    <2> QED
      BY <2>1, <2>2, <2>3
  <1>5. P!ShellFits'
    <2>1. x9 \in [ended : BOOLEAN, done : BOOLEAN, closed : BOOLEAN]
      BY PromptParts DEF P!ShellFits
    <2>2. x9' \in [ended : BOOLEAN, done : BOOLEAN, closed : BOOLEAN] /\ ~x9'.closed
      BY <1>1, <1>3, <2>1
    <2> QED
      BY <1>1, <2>2, PromptParts DEF P!ShellFits, P!Tried, P!ExtensionsAreDisposed
  <1> QED
    BY <1>2, <1>4, <1>5 DEF P!PromptInv

\* The draft is submitted: all its images go along, and none stays.
LEMMA EnterKeeps ==
  ASSUME P!PromptInv, P!Enter
  PROVE  P!PromptInv'
  <1> DEFINE s == P!Submission(x2)
  <1>1. /\ x1' = <<>> /\ x13' = FALSE /\ x2' = {} /\ x3' = 1
        /\ x11' = x11 /\ x4' = x4 /\ x8' = x8 /\ x9' = x9
        /\ x10' = x10
    BY DEF P!Enter, P!TakeSubmitted, P!queue
  <1>2. UNCHANGED P!reader \/ P!Submit(s)
    BY DEF P!Enter, P!Carried
  <1>3. /\ x1 \in Seq(Nat) /\ x2 \in SUBSET P!Attachments /\ P!IsFiniteSet(x2)
        /\ x13 \in BOOLEAN /\ P!ImagesOf(x2) \subseteq P!Placed
        /\ x6 \in BOOLEAN /\ (x6 => x5 = <<>>)
    BY PromptParts DEF P!DraftFits
  <1>4. /\ s \in P!Submissions /\ s.attachments = x2
        /\ s.text = x1 /\ s.typed = ~x13
    BY <1>3 DEF P!Submission, P!Submissions
  <1> HIDE DEF s
  <1>5. P!ImagesOf(x2') = {} /\ P!Placed' = P!Placed
    BY <1>1 DEF P!ImagesOf, P!Placed
  <1>6. P!DraftFits'
    <2>1. P!Shows(<<>>, {})
      BY DEF P!Shows, P!Labels, P!Range
    <2>2. /\ x1' \in Seq(Nat) /\ x2' \in SUBSET P!Attachments /\ P!IsFiniteSet(x2')
          /\ x3' \in Nat \ {0} /\ x13' \in BOOLEAN
          /\ \A a \in x2' : a.label < x3'
      <3>1. <<>> \in Seq(Nat) /\ 1 \in Nat \ {0} /\ P!IsFiniteSet({})
        BY FiniteNone
      <3> QED
        BY <1>1, <3>1
    <2>3. P!Shows(x1', x2')
      BY <1>1, <2>1
    <2>4. x4' \subseteq x11' /\ x11' \subseteq Images /\ P!ImagesOf(x2') \subseteq P!Placed'
      BY <1>1, <1>5, PromptParts DEF P!DraftFits
    <2> QED
      BY <2>2, <2>3, <2>4 DEF P!DraftFits
  <1>7. P!SentFits'
    <2>1. CASE UNCHANGED P!reader
      BY <1>3, <1>5, <2>1, PromptParts, SentRest DEF P!reader
    <2>2. CASE P!Submit(s)
      <3>1. /\ \/ x7' = Append(x7, s) /\ x5' = x5 /\ x5 = <<>>
               \/ x7' = x7 /\ x5' = Append(x5, s)
            /\ ~x6' /\ x6' \in BOOLEAN
        BY <1>3, <2>2 DEF P!Submit
      <3>2. /\ x7' \in Seq(P!Submissions) /\ x5' \in Seq(P!Submissions)
            /\ Submitted' = Append(Submitted, s)
        BY <1>4, <3>1, PromptParts, SentMore
      <3>3. Submitted \in Seq(P!Submissions)
        BY PromptParts, SentAre
      <3>4. /\ DOMAIN Submitted' = 1..(Len(Submitted) + 1) /\ Submitted'[Len(Submitted) + 1] = s
            /\ DOMAIN Submitted = 1..Len(Submitted) /\ Len(Submitted) \in Nat
            /\ \A j \in DOMAIN Submitted : Submitted'[j] = Submitted[j]
        BY <1>4, <3>2, <3>3, OneMore
      <3>5. ASSUME NEW j \in DOMAIN Submitted'
            PROVE  /\ Submitted'[j].typed => P!Shows(Submitted'[j].text, Submitted'[j].attachments)
                   /\ P!ImagesOf(Submitted'[j].attachments) \subseteq P!Placed'
        <4>1. CASE j \in DOMAIN Submitted
          BY <1>5, <3>4, <4>1, PromptParts DEF P!SentFits, Submitted
        <4>2. CASE j = Len(Submitted) + 1
          BY <1>3, <1>4, <1>5, <3>4, <4>2, PromptParts DEF P!DraftFits
        <4> QED
          BY <3>4, <4>1, <4>2
      <3>6. ASSUME NEW j \in DOMAIN Submitted', NEW k \in DOMAIN Submitted', j # k
            PROVE  P!ImagesOf(Submitted'[j].attachments)
                     \intersect P!ImagesOf(Submitted'[k].attachments) = {}
        <4>1. \A i \in DOMAIN Submitted :
                P!ImagesOf(Submitted[i].attachments) \intersect P!ImagesOf(s.attachments) = {}
          BY <1>4, PromptParts
        <4>2. CASE j \in DOMAIN Submitted /\ k \in DOMAIN Submitted
          BY <3>4, <3>6, <4>2, PromptParts DEF P!SentFits, Submitted, P!ImageInOnePlace
        <4>3. CASE j \in DOMAIN Submitted /\ k = Len(Submitted) + 1
          BY <3>4, <4>1, <4>3
        <4>4. CASE j = Len(Submitted) + 1 /\ k \in DOMAIN Submitted
          BY <3>4, <4>1, <4>4
        <4> QED
          BY <3>4, <3>6, <4>2, <4>3, <4>4
      <3>7. P!ImageInOnePlace'
        BY <1>5, <3>6 DEF P!ImageInOnePlace, Submitted
      <3> QED
        BY <3>1, <3>2, <3>5, <3>7 DEF P!SentFits, Submitted
    <2> QED
      BY <1>2, <2>1, <2>2
  <1>8. P!ShownFits'
    BY <1>1, PromptParts DEF P!ShownFits
  <1>9. P!ShellFits'
    <2>1. x6' \/ x7' # x7 => P!Tried
      BY <1>2, <1>3, PromptParts DEF P!ShellFits, P!Submit, P!reader
    <2> QED
      BY <1>1, <2>1, PromptParts DEF P!ShellFits, P!Tried, P!ExtensionsAreDisposed
  <1> QED
    BY <1>6, <1>7, <1>8, <1>9 DEF P!PromptInv

\* The prompt as it begins.
LEMMA PromptInit == ASSUME P!Init PROVE P!PromptInv
  <1>1. P!Shows(<<>>, {}) /\ P!ImagesOf({}) = {} /\ P!IsFiniteSet({})
    BY FiniteNone DEF P!Shows, P!Labels, P!Range, P!ImagesOf
  <1>0. /\ x1 = <<>> /\ x2 = {} /\ x3 = 1 /\ x13 = FALSE
        /\ x4 = {} /\ x11 = {}
    BY DEF P!Init
  <1>2. P!DraftFits
    <2>1. P!Shows(x1, x2) /\ P!ImagesOf(x2) = {} /\ P!IsFiniteSet(x2)
      BY <1>0, <1>1
    <2>2. x1 \in Seq(Nat) /\ \A a \in x2 : a.label < x3
      BY <1>0
    <2>3. x2 \in SUBSET P!Attachments /\ x3 \in Nat \ {0} /\ x13 \in BOOLEAN
      <3>1. 1 \in Nat \ {0} /\ FALSE \in BOOLEAN
        OBVIOUS
      <3> QED
        BY <1>0, <3>1
    <2>4. x4 \subseteq x11 /\ x11 \subseteq Images /\ P!ImagesOf(x2) \subseteq P!Placed
      BY <1>0, <2>1
    <2> QED
      BY <2>1, <2>2, <2>3, <2>4 DEF P!DraftFits
  <1>3. /\ x7 = <<>> /\ x5 = <<>> /\ x7 \o x5 = <<>>
        /\ x7 \in Seq(P!Submissions)
    BY DEF P!Init
  <1>4. P!SentFits
    <2>1. x5 \in Seq(P!Submissions) /\ DOMAIN (x7 \o x5) = {} /\ x6 = FALSE
      BY <1>3 DEF P!Init
    <2>2. P!ImageInOnePlace
      BY <2>1 DEF P!ImageInOnePlace
    <2> QED
      BY <1>3, <2>1, <2>2 DEF P!SentFits
  <1>5. P!ShownFits
    BY DEF P!Init, P!ShownFits
  <1>6. P!ShellFits
    BY DEF P!Init, P!ShellFits, P!ExtensionsAreDisposed
  <1> QED
    BY <1>2, <1>4, <1>5, <1>6 DEF P!PromptInv

\* Every step of the prompt keeps the invariant.
LEMMA PromptNext == ASSUME P!PromptInv, P!Next PROVE P!PromptInv'
  <1>1. CASE P!Type \/ \E i \in 1..MaxText : P!Delete(i)
    BY <1>1, EditKeeps
  <1>2. CASE P!Enter \/ P!Read \/ P!Exit \/ P!Close \/ P!PopQueued
    BY <1>2, EnterKeeps, ReadKeeps, ExitKeeps, CloseKeeps, PopKeeps
  <1>3. CASE \E i \in 1..MaxEnter : P!Recall(i) \/ P!ShowQueued(i)
    BY <1>3, RecallKeeps, ShowQueuedKeeps
  <1>4. CASE \E i \in 1..MaxQueued : P!Delivered(i)
    BY <1>4, DeliveredKeeps
  <1>5. CASE \E image \in Images : P!Paste(image) \/ P!Insert(image) \/ P!InsertText(image)
    BY <1>5, PasteKeeps, InsertKeeps, InsertTextKeeps
  <1>6. CASE \E works \in BOOLEAN : P!Extend(works)
    BY <1>6, ExtendKeeps
  <1> QED
    BY <1>1, <1>2, <1>3, <1>4, <1>5, <1>6 DEF P!Next

\* One label for each attachment, and one image.
LEMMA AsManyImages ==
  ASSUME NEW t, NEW as, P!IsFiniteSet(as), P!Shows(t, as)
  PROVE  P!Cardinality(P!ImagesOf(as)) = P!Cardinality({a.label : a \in as})
  <1> DEFINE f == [a \in as |-> a.image]
             g == [a \in as |-> a.label]
             labels == {a.label : a \in as}
  <1>1. /\ \A a \in as : a.type = "image"
        /\ \A a, b \in as : a.label = b.label \/ a.image = b.image => a = b
    BY DEF P!Shows
  <1>2. P!ImagesOf(as) = {a.image : a \in as}
    BY <1>1 DEF P!ImagesOf
  <1>3. f \in Surjection(as, P!ImagesOf(as)) /\ f \in Injection(as, P!ImagesOf(as))
    BY <1>1, <1>2 DEF Surjection, Injection, IsInjective
  <1>4. g \in Surjection(as, labels) /\ g \in Injection(as, labels)
    BY <1>1 DEF Surjection, Injection, IsInjective
  <1> HIDE DEF f, g, labels
  <1>5. P!Cardinality(P!ImagesOf(as)) = P!Cardinality(as)
    BY <1>3, FiniteOnto
  <1>6. P!Cardinality(labels) = P!Cardinality(as)
    BY <1>4, FiniteOnto
  <1> QED
    BY <1>5, <1>6 DEF labels

\* What follows of the invariant.
LEMMA PromptKeeps ==
  ASSUME P!PromptInv
  PROVE  P!SendsWhatItShows /\ P!ImageInOnePlace /\ P!ExtensionsAreDisposed
  <1>1. ASSUME NEW i \in DOMAIN Submitted, Submitted[i].typed
        PROVE  /\ P!Labels(Submitted[i].text) = P!Attached(Submitted[i])
               /\ P!Cardinality(P!ImagesOf(Submitted[i].attachments))
                    = P!Cardinality(P!Attached(Submitted[i]))
    <2>1. Submitted[i] \in P!Submissions
      BY PromptParts, SentAre
    <2>2. P!IsFiniteSet(Submitted[i].attachments)
      BY <2>1 DEF P!Submissions
    <2>3. P!Shows(Submitted[i].text, Submitted[i].attachments)
      BY <1>1, PromptParts DEF P!SentFits, Submitted
    <2> QED
      BY <2>2, <2>3, AsManyImages DEF P!Shows, P!Attached
  <1>2. P!SendsWhatItShows
    BY <1>1 DEF P!SendsWhatItShows, Submitted
  <1> QED
    BY <1>2 DEF P!PromptInv, P!SentFits, P!ShellFits

(* For any images, extensions and bounds, however a paste is finished      *)
(* between edits, submissions and messages taken back: a typed submission  *)
(* sends one image for each label it shows and no other, an image is in    *)
(* the draft or in one submission, and the shell is closed only when its   *)
(* extensions were tried and those installed were disposed of (editor.ts:  *)
(* onChange, insertImageAttachment, submittedAttachments,                  *)
(* takeSubmittedAttachments; shell.ts: initializeExtensions, read, close). *)
THEOREM PromptStaysTrue == Spec => []PromptKeepsItsWord
  <1> DEFINE Inv == part = "prompt" => P!PromptInv
  <1>1. Init => Inv
    BY PromptInit DEF Init, InitPrompt, InitPicker, InitCredentials,
       InitInstallation, InitModels, InitTerminal
  <1>2. Inv /\ [Next]_vars => Inv'
    <2> SUFFICES ASSUME Inv, [Next]_vars, part' = "prompt" PROVE P!PromptInv'
      OBVIOUS
    <2>1. part = "prompt"
      BY DEF Next, vars, OfPrompt, OfPicker, OfCredentials, OfInstallation, OfModels, OfTerminal
    <2>2. CASE UNCHANGED vars
      <3>1. UNCHANGED <<x1, x2, x3, x4, x5, x6, x7, x8, x9, x10, x11, x12, x13>>
        BY <2>2 DEF vars
      <3>2. P!PromptInv
        BY <2>1
      <3>3. P!DraftFits' /\ P!ShownFits' /\ P!ShellFits'
        BY <3>1, <3>2, PromptParts DEF P!DraftFits, P!ShownFits, P!ShellFits, P!Placed, P!Tried,
           P!ExtensionsAreDisposed
      <3>4. P!SentFits'
        BY <3>1, <3>2, PromptParts, SentRest DEF P!Placed
      <3> QED
        BY <3>3, <3>4 DEF P!PromptInv
    <2>3. CASE Next
      <3>1. P!Next
        BY <2>1, <2>3 DEF Next, OfPrompt, OfPicker, OfCredentials, OfInstallation, OfModels,
           OfTerminal
      <3> QED
        BY <2>1, <3>1, PromptNext
    <2> QED
      BY <2>2, <2>3
  <1>3. Inv => PromptKeepsItsWord
    BY PromptKeeps DEF PromptKeepsItsWord
  <1> QED
    BY <1>1, <1>2, <1>3, PTL DEF Spec
=============================================================================
