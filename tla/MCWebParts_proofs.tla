--------------------------- MODULE MCWebParts_proofs ---------------------------
(***************************************************************************)
(* Proofs about the web application: its smaller parts, the sub-agents of a *)
(* turn, the tools of a turn in the terminal, and the chat page.           *)
(***************************************************************************)
EXTENDS MCWebParts, WebSession, TLAPS, FiniteSetTheorems

-----------------------------------------------------------------------------
(* The pane of a terminal and its connection.                              *)

LEMMA PaneInit == ASSUME W!Init PROVE W!TerminalInv
  <1>1. W!NewPane \in W!Panes
    BY DEF W!NewPane, W!Panes, W!None
  <1>2. <<W!NewPane>> \in Seq(W!Panes) /\ <<>> \in Seq(W!Sockets)
    BY <1>1
  <1>3. DOMAIN x1 = {1} /\ x1[1] = W!NewPane /\ DOMAIN x2 = {}
    BY DEF W!Init
  <1>4. W!TypeOK
    BY <1>2, <1>3 DEF W!Init, W!TypeOK
  <1>5. W!HoldsItsOwn /\ W!LiveIsHeld /\ W!TerminalIsStarted /\ W!StatusIsOfTheConnection
    BY <1>3 DEF W!HoldsItsOwn, W!LiveIsHeld, W!TerminalIsStarted,
       W!StatusIsOfTheConnection, W!NewPane
  <1> QED
    BY <1>4, <1>5 DEF W!TerminalInv

\* The pane p may become new with the sockets told.
Fits(p, new, told) ==
    /\ \A k \in DOMAIN x2 : k \in DOMAIN told /\ told[k].pane = x2[k].pane
    /\ \A k \in DOMAIN told :
         /\ k \in DOMAIN x2 \/ told[k].pane = p
         /\ told[k].state \in W!Live =>
              \/ told[k].pane = p /\ new.socket = k
              \/ told[k].pane # p /\ k \in DOMAIN x2 /\ x2[k].state \in W!Live
    /\ new.socket # 0 => /\ new.socket \in DOMAIN told /\ told[new.socket].pane = p
                         /\ ~new.destroyed
    /\ new.loading \/ new.terminal => new.started
    /\ new.destroyed => ~new.terminal
    /\ ~new.destroyed =>
         /\ new.status \in {"connecting", "connected"} => new.socket # 0
         /\ new.terminal /\ new.socket = 0 => new.status \in W!Offered
         /\ \A k \in new.screen : new.socket \in {k, 0}

\* A pane changes, and maybe its sockets.
LEMMA PaneStep ==
  ASSUME W!TerminalInv, NEW p \in DOMAIN x1, NEW new \in W!Panes,
         NEW told \in Seq(W!Sockets), x1' = [x1 EXCEPT ![p] = new], x2' = told,
         Fits(p, new, told)
  PROVE  W!TerminalInv'
  <1> USE DEF W!TerminalInv, W!OfSocket, W!None
  <1>1. x1 \in Seq(W!Panes)
    BY DEF W!TypeOK
  <1>2. /\ x1' \in Seq(W!Panes) /\ DOMAIN x1' = DOMAIN x1 /\ x1'[p] = new
        /\ \A q \in DOMAIN x1 : q # p => x1'[q] = x1[q]
    BY <1>1
  <1>3. W!TypeOK'
    <2>1. x1' # <<>>
      BY <1>2
    <2>2. \A k \in DOMAIN told : told[k].pane \in DOMAIN x1
      BY DEF W!TypeOK, Fits
    <2> QED
      BY <1>2, <2>1, <2>2 DEF W!TypeOK
  <1>4. W!HoldsItsOwn'
    BY <1>2 DEF W!HoldsItsOwn, Fits
  <1>5. W!LiveIsHeld'
    BY <1>2, SMTT(20) DEF W!LiveIsHeld, W!Current, W!TypeOK, Fits
  <1>6. W!TerminalIsStarted'
    BY <1>2 DEF W!TerminalIsStarted, Fits
  <1>7. W!StatusIsOfTheConnection'
    BY <1>2 DEF W!StatusIsOfTheConnection, Fits
  <1> QED
    BY <1>3, <1>4, <1>5, <1>6, <1>7

\* What a socket tells changes nothing but its state.
Turned(k, state) == [x2 EXCEPT ![k].state = state]

LEMMA SocketTells ==
  ASSUME W!TerminalInv, NEW k \in DOMAIN x2,
         NEW state \in {"connecting", "open", "closing", "failed", "closed"}
  PROVE  /\ Turned(k, state) \in Seq(W!Sockets) /\ DOMAIN Turned(k, state) = DOMAIN x2
         /\ Turned(k, state)[k].state = state /\ Turned(k, state)[k].pane = x2[k].pane
         /\ \A j \in DOMAIN x2 : j # k => Turned(k, state)[j] = x2[j]
  <1>1. x2 \in Seq(W!Sockets) /\ x2[k] \in W!Sockets
    BY DEF W!TerminalInv, W!TypeOK
  <1> DEFINE new == [x2[k] EXCEPT !.state = state]
  <1>2. new \in W!Sockets /\ new.state = state /\ new.pane = x2[k].pane
    BY <1>1 DEF W!Sockets, W!Live
  <1>3. Turned(k, state) = [x2 EXCEPT ![k] = new]
    BY <1>1 DEF Turned
  <1> HIDE DEF new
  <1> QED
    BY <1>1, <1>2, <1>3

\* Once its socket is closing, a pane has no live one.
LEMMA ClosingLeavesNone ==
  ASSUME W!TerminalInv, NEW p \in DOMAIN x1
  PROVE  /\ W!Closing(p) \in Seq(W!Sockets) /\ DOMAIN W!Closing(p) = DOMAIN x2
         /\ \A k \in DOMAIN x2 :
              /\ W!Closing(p)[k].pane = x2[k].pane
              /\ W!Closing(p)[k].state \in W!Live =>
                   x2[k].state \in W!Live /\ x2[k].pane # p
  <1>0. /\ x2 \in Seq(W!Sockets)
        /\ \A k \in DOMAIN x2 : x2[k].state \in W!Live => x1[x2[k].pane].socket = k
        /\ W!None = 0 /\ 0 \notin DOMAIN x2
    BY DEF W!TerminalInv, W!TypeOK, W!LiveIsHeld, W!Current, W!None
  <1>1. CASE x1[p].socket = 0
    BY <1>0, <1>1 DEF W!Closing
  <1>2. CASE x1[p].socket # 0
    <2> DEFINE k == x1[p].socket
               state == IF x2[k].state \in W!Live THEN "closing" ELSE x2[k].state
    <2>1. k \in DOMAIN x2 /\ x2[k] \in W!Sockets
      BY <1>0, <1>2 DEF W!TerminalInv, W!HoldsItsOwn
    <2>2. state \in {"connecting", "open", "closing", "failed", "closed"} /\ state \notin W!Live
      BY <2>1 DEF W!Sockets, W!Live
    <2>3. W!Closing(p) = Turned(k, state)
      BY <1>0, <1>2 DEF W!Closing, Turned
    <2> HIDE DEF k, state
    <2>4. /\ W!Closing(p) \in Seq(W!Sockets) /\ DOMAIN W!Closing(p) = DOMAIN x2
          /\ W!Closing(p)[k].state = state /\ W!Closing(p)[k].pane = x2[k].pane
          /\ \A j \in DOMAIN x2 : j # k => W!Closing(p)[j] = x2[j]
      BY <2>1, <2>2, <2>3, SocketTells
    <2>5. x2[k].pane = p
      BY <1>2 DEF W!TerminalInv, W!HoldsItsOwn, W!OfSocket, W!None, k
    <2>6. x1[p].socket = k
      BY DEF k
    <2> QED
      BY <1>0, <2>1, <2>2, <2>4, <2>5, <2>6
  <1> QED
    BY <1>1, <1>2

\* connectSocket: a pane that has loaded gets a new connection.
LEMMA PaneConnects ==
  ASSUME W!TerminalInv, NEW p \in DOMAIN x1, W!ConnectSocket(p), x1[p].started,
         ~x1[p].destroyed
  PROVE  W!TerminalInv'
  <1> DEFINE new == [x1[p] EXCEPT !.loading = FALSE, !.terminal = TRUE,
                                  !.status = "connecting", !.socket = Len(x2) + 1,
                                  !.screen = {}]
  <1>0. x1 \in Seq(W!Panes) /\ x1[p] \in W!Panes /\ x2 \in Seq(W!Sockets) /\ p \in Nat \ {0}
    BY DEF W!TerminalInv, W!TypeOK
  <1> DEFINE half == [x1[p] EXCEPT !.loading = FALSE, !.terminal = TRUE,
                                   !.status = "connecting"]
  <1>1. x1' = [x1 EXCEPT ![p] = new]
    BY <1>0 DEF W!ConnectSocket
  <1>h. half \in W!Panes /\ half.loading = FALSE /\ half.started = x1[p].started
        /\ half.destroyed = x1[p].destroyed /\ half.status = "connecting"
    BY <1>0 DEF W!Panes
  <1>n. new = [half EXCEPT !.socket = Len(x2) + 1, !.screen = {}]
    BY <1>0 DEF W!Panes
  <1> HIDE DEF half, new
  <1>2. /\ new \in W!Panes /\ new.loading = FALSE /\ new.started = x1[p].started
        /\ new.destroyed = x1[p].destroyed
        /\ new.status = "connecting" /\ new.socket = Len(x2) + 1 /\ new.screen = {}
    <2>1. {} \in SUBSET Nat /\ Len(x2) + 1 \in Nat
      BY <1>0
    <2> QED
      BY <1>h, <1>n, <2>1 DEF W!Panes
  <1>3. x2' = Append(W!Closing(p), W!Socket(p))
    BY DEF W!ConnectSocket
  <1>4. W!Socket(p) \in W!Sockets /\ W!Socket(p).pane = p
    BY <1>0 DEF W!Socket, W!Sockets, W!Live
  <1>5. /\ W!Closing(p) \in Seq(W!Sockets) /\ Len(W!Closing(p)) = Len(x2)
        /\ \A k \in DOMAIN x2 :
              /\ W!Closing(p)[k].pane = x2[k].pane
              /\ W!Closing(p)[k].state \in W!Live =>
                   x2[k].state \in W!Live /\ x2[k].pane # p
    BY <1>0, ClosingLeavesNone
  <1>6. /\ x2' \in Seq(W!Sockets) /\ DOMAIN x2' = DOMAIN x2 \union {Len(x2) + 1}
        /\ x2'[Len(x2) + 1] = W!Socket(p)
        /\ \A k \in DOMAIN x2 : x2'[k] = W!Closing(p)[k]
    BY <1>0, <1>3, <1>4, <1>5
  <1>7. Len(x2) + 1 # 0
    BY <1>0
  <1>8. Fits(p, new, x2')
    BY <1>0, <1>2, <1>4, <1>5, <1>6, <1>7 DEF Fits
  <1> QED
    BY <1>1, <1>2, <1>6, <1>8, PaneStep

\* onDestroy of the pane that was shown, and the next one.
LEMMA TargetSwitches == ASSUME W!TerminalInv, W!SwitchTarget PROVE W!TerminalInv'
  <1> DEFINE p == Len(x1)
             old == [x1[p] EXCEPT !.destroyed = TRUE, !.terminal = FALSE, !.socket = 0]
             next == IF x3 THEN [W!NewPane EXCEPT !.started = TRUE, !.loading = TRUE,
                                                  !.status = "loading"]
                     ELSE W!NewPane
  <1>0. /\ x1 \in Seq(W!Panes) /\ x2 \in Seq(W!Sockets) /\ x1 # <<>>
        /\ \A k \in DOMAIN x2 : x2[k].pane \in DOMAIN x1
        /\ p \in DOMAIN x1 /\ x1[p] \in W!Panes /\ W!None = 0
    BY DEF W!TerminalInv, W!TypeOK, W!OfSocket, W!None
  <1>1. x1' = Append([x1 EXCEPT ![p] = old], next) /\ x2' = W!Closing(p)
    BY <1>0 DEF W!SwitchTarget, W!shown
  <1>2. old \in W!Panes /\ old.destroyed = TRUE /\ old.terminal = FALSE /\ old.socket = 0
        /\ old.loading = x1[p].loading /\ old.started = x1[p].started
    BY <1>0 DEF W!Panes
  <1>3. /\ next \in W!Panes /\ next.socket = 0 /\ next.terminal = FALSE
        /\ next.destroyed = FALSE /\ next.screen = {} /\ (next.loading => next.started)
        /\ next.status \in {"idle", "loading"}
    <2>1. {} \in SUBSET Nat
      OBVIOUS
    <2> QED
      BY <2>1 DEF W!NewPane, W!Panes, W!None
  <1> HIDE DEF old, next
  <1>4. /\ x1' \in Seq(W!Panes) /\ DOMAIN x1' = DOMAIN x1 \union {p + 1}
        /\ x1'[p] = old /\ x1'[p + 1] = next /\ p + 1 \notin DOMAIN x1
        /\ \A q \in DOMAIN x1 : q # p => x1'[q] = x1[q]
    BY <1>0, <1>1, <1>2, <1>3
  <1>5. /\ x2' \in Seq(W!Sockets) /\ DOMAIN x2' = DOMAIN x2
        /\ \A k \in DOMAIN x2 :
              /\ x2'[k].pane = x2[k].pane
              /\ x2'[k].state \in W!Live => x2[k].state \in W!Live /\ x2[k].pane # p
    BY <1>0, <1>1, ClosingLeavesNone
  <1> HIDE DEF p
  <1> USE DEF W!TerminalInv, W!OfSocket
  <1>6. W!TypeOK'
    <2>1. x1' # <<>>
      BY <1>0, <1>4
    <2> QED
      BY <1>0, <1>4, <1>5, <2>1 DEF W!TypeOK
  <1>7. W!HoldsItsOwn'
    <2> SUFFICES ASSUME NEW q \in DOMAIN x1', x1'[q].socket # 0
                 PROVE  /\ x1'[q].socket \in DOMAIN x2'
                        /\ x2'[x1'[q].socket].pane = q /\ ~x1'[q].destroyed
      BY <1>0 DEF W!HoldsItsOwn, W!None
    <2>1. q \in DOMAIN x1 /\ q # p /\ x1'[q] = x1[q]
      BY <1>2, <1>3, <1>4
    <2>2. x1[q].socket \in DOMAIN x2 /\ x2[x1[q].socket].pane = q /\ ~x1[q].destroyed
      BY <1>0, <2>1 DEF W!HoldsItsOwn
    <2> QED
      BY <1>5, <2>1, <2>2
  <1>8. W!LiveIsHeld'
    BY <1>0, <1>4, <1>5 DEF W!LiveIsHeld, W!Current
  <1>9. W!TerminalIsStarted'
    <2>1. x1[p].loading \/ x1[p].terminal => x1[p].started
      BY <1>0 DEF W!TerminalIsStarted
    <2> SUFFICES ASSUME NEW q \in DOMAIN x1'
                 PROVE  /\ x1'[q].loading \/ x1'[q].terminal => x1'[q].started
                        /\ x1'[q].destroyed => ~x1'[q].terminal
      BY DEF W!TerminalIsStarted
    <2>2. CASE q \in DOMAIN x1 /\ q # p
      BY <1>4, <2>2 DEF W!TerminalIsStarted
    <2>3. CASE q = p
      BY <1>2, <1>4, <2>1, <2>3
    <2>4. CASE q = p + 1
      BY <1>3, <1>4, <2>4
    <2> QED
      BY <1>4, <2>2, <2>3, <2>4
  <1>10. W!StatusIsOfTheConnection'
    BY <1>0, <1>2, <1>3, <1>4 DEF W!StatusIsOfTheConnection, W!Offered
  <1> QED
    BY <1>6, <1>7, <1>8, <1>9, <1>10

\* Pane p may become new when its socket k gets to state.
Hears(k, p, state, new) ==
    /\ state \in W!Live => x2[k].state \in W!Live
    /\ new = x1[p] \/ x1[p].socket = k
    /\ new.loading = x1[p].loading /\ new.started = x1[p].started
    /\ new.terminal = x1[p].terminal /\ new.destroyed = x1[p].destroyed
    /\ new.socket = x1[p].socket \/ (new.socket = 0 /\ state \notin W!Live)
    /\ new.socket = 0 => new = x1[p] \/ new.status \in W!Offered
    /\ \A j \in new.screen : j \in x1[p].screen \/ (new.socket = j /\ j = k)

\* A socket gets another state, and its pane hears of it if it is the one it has.
LEMMA PaneHears ==
  ASSUME W!TerminalInv, NEW k \in 1..MaxSockets,
         \/ W!Opened(k) \/ W!Output(k) \/ W!Errored(k) \/ W!Closed(k)
         \/ \E status \in {"connecting", "connected", "exited", "error"} :
              W!Control(k, status)
  PROVE  W!TerminalInv'
  <1> DEFINE p == x2[k].pane
  <1>0. /\ x1 \in Seq(W!Panes) /\ x2 \in Seq(W!Sockets) /\ k \in DOMAIN x2 /\ k # 0
        /\ \A j \in DOMAIN x2 : x2[j].pane \in DOMAIN x1 /\ j # 0
        /\ p \in DOMAIN x1 /\ x1[p] \in W!Panes /\ x2[k] \in W!Sockets /\ k \in Nat
        /\ \A j \in DOMAIN x2 : x2[j].state \in W!Live => x1[x2[j].pane].socket = j
    BY DEF W!TerminalInv, W!TypeOK, W!OfSocket, W!LiveIsHeld, W!Current,
       W!Opened, W!Output, W!Errored, W!Closed, W!Control
  <1>1. /\ x1[p].socket # 0 => /\ x1[p].socket \in DOMAIN x2
                               /\ x2[x1[p].socket].pane = p /\ ~x1[p].destroyed
        /\ x1[p].loading \/ x1[p].terminal => x1[p].started
        /\ x1[p].destroyed => ~x1[p].terminal
        /\ ~x1[p].destroyed =>
             /\ x1[p].status \in {"connecting", "connected"} => x1[p].socket # 0
             /\ x1[p].terminal /\ x1[p].socket = 0 => x1[p].status \in W!Offered
             /\ \A j \in x1[p].screen : x1[p].socket \in {j, 0}
    BY <1>0 DEF W!TerminalInv, W!HoldsItsOwn, W!OfSocket, W!None, W!TerminalIsStarted,
       W!StatusIsOfTheConnection
  <1>2. ASSUME NEW state \in {"connecting", "open", "closing", "failed", "closed"},
               NEW new \in W!Panes, x2' = [x2 EXCEPT ![k].state = state],
               x1' = [x1 EXCEPT ![p] = new], Hears(k, p, state, new)
        PROVE  W!TerminalInv'
    <2>1. /\ x2' \in Seq(W!Sockets) /\ DOMAIN x2' = DOMAIN x2
          /\ x2'[k].state = state /\ x2'[k].pane = x2[k].pane
          /\ \A j \in DOMAIN x2 : j # k => x2'[j] = x2[j]
      <3>1. x2' = Turned(k, state)
        BY <1>2 DEF Turned
      <3> QED
        BY <1>0, <3>1, SocketTells
    <2> HIDE DEF p
    <2>2. CASE new = x1[p]
      <3>1. Fits(p, new, x2')
        BY <1>0, <1>1, <1>2, <2>1, <2>2 DEF Fits, Hears, p
      <3> QED
        BY <1>0, <1>2, <2>1, <3>1, PaneStep
    <2>3. CASE x1[p].socket = k
      <3>1. /\ ~new.destroyed /\ ~x1[p].destroyed
            /\ new.socket # 0 => new.socket = k /\ x2'[k].pane = p
        BY <1>0, <1>1, <1>2, <2>1, <2>3 DEF p, Hears
      <3>2. \A j \in new.screen : new.socket \in {j, 0}
        BY <1>0, <1>1, <1>2, <2>3 DEF Hears
      <3>3. /\ new.status \in {"connecting", "connected"} => new.socket # 0
            /\ new.terminal /\ new.socket = 0 => new.status \in W!Offered
        BY <1>0, <1>2, <2>3 DEF Hears, W!Offered
      <3>4. \A j \in DOMAIN x2' : x2'[j].state \in W!Live =>
              \/ x2'[j].pane = p /\ new.socket = j
              \/ x2'[j].pane # p /\ j \in DOMAIN x2 /\ x2[j].state \in W!Live
        BY <1>0, <1>2, <2>1, <2>3 DEF p, Hears
      <3>5. \A j \in DOMAIN x2 : j \in DOMAIN x2' /\ x2'[j].pane = x2[j].pane
        BY <2>1
      <3>6. Fits(p, new, x2')
        BY <1>0, <1>1, <1>2, <2>1, <3>1, <3>2, <3>3, <3>4, <3>5 DEF Fits, Hears
      <3> QED
        BY <1>0, <1>2, <2>1, <3>6, PaneStep
    <2> QED
      BY <1>2, <2>2, <2>3 DEF Hears
  <1>3. [x1 EXCEPT ![p] = x1[p]] = x1
    BY <1>0
  <1>4. CASE W!Opened(k)
    <2> DEFINE new == IF x1[p].socket = k THEN [x1[p] EXCEPT !.status = "connected"]
                      ELSE x1[p]
    <2>1. x2' = [x2 EXCEPT ![k].state = "open"] /\ x1' = [x1 EXCEPT ![p] = new]
      BY <1>0, <1>3, <1>4 DEF W!Opened, W!Current, W!OfSocket
    <2>2. /\ new \in W!Panes /\ (new = x1[p] \/ x1[p].socket = k)
          /\ new.loading = x1[p].loading /\ new.started = x1[p].started
          /\ new.terminal = x1[p].terminal /\ new.destroyed = x1[p].destroyed
          /\ new.socket = x1[p].socket /\ new.screen = x1[p].screen
      BY <1>0 DEF W!Panes
    <2>3. x2[k].state \in W!Live
      BY <1>4 DEF W!Opened, W!Live
    <2>4. new.socket = 0 => new = x1[p]
      BY <1>0
    <2> HIDE DEF new
    <2>6. Hears(k, p, "open", new)
      BY <1>0, <2>1, <2>2, <2>3, <2>4 DEF Hears
    <2> QED
      BY <1>2, <2>1, <2>2, <2>6
  <1>5. CASE W!Errored(k)
    <2> DEFINE new == IF x1[p].socket = k THEN [x1[p] EXCEPT !.status = "error"]
                      ELSE x1[p]
    <2>1. x2' = [x2 EXCEPT ![k].state = "failed"] /\ x1' = [x1 EXCEPT ![p] = new]
      BY <1>0, <1>3, <1>5 DEF W!Errored, W!Current, W!OfSocket
    <2>2. /\ new \in W!Panes /\ (new = x1[p] \/ x1[p].socket = k)
          /\ new.loading = x1[p].loading /\ new.started = x1[p].started
          /\ new.terminal = x1[p].terminal /\ new.destroyed = x1[p].destroyed
          /\ new.socket = x1[p].socket /\ new.screen = x1[p].screen
      BY <1>0 DEF W!Panes, W!Offered
    <2>3. "failed" \notin W!Live
      BY DEF W!Live
    <2>4. new.socket = 0 => new = x1[p]
      BY <1>0
    <2> HIDE DEF new
    <2>6. Hears(k, p, "failed", new)
      BY <1>0, <2>1, <2>2, <2>3, <2>4 DEF Hears
    <2> QED
      BY <1>2, <2>1, <2>2, <2>6
  <1>6. CASE W!Closed(k)
    <2> DEFINE new == W!LeftBy(k)
    <2>1. x2' = [x2 EXCEPT ![k].state = "closed"] /\ x1' = [x1 EXCEPT ![p] = new]
      BY <1>0, <1>6 DEF W!Closed, W!OfSocket
    <2>2. /\ new \in W!Panes /\ (new = x1[p] \/ x1[p].socket = k)
          /\ new.loading = x1[p].loading /\ new.started = x1[p].started
          /\ new.terminal = x1[p].terminal /\ new.destroyed = x1[p].destroyed
          /\ new.socket = x1[p].socket \/ new.socket = 0
          /\ new.screen = x1[p].screen
          /\ new.socket = 0 => new = x1[p] \/ new.status \in W!Offered
      <3>1. CASE x1[p].socket # k
        BY <1>0, <3>1 DEF W!LeftBy, W!Current, W!OfSocket
      <3>2. CASE x1[p].socket = k
        <4> DEFINE status == IF x1[p].status \in {"exited", "error"} THEN x1[p].status
                             ELSE "disconnected"
        <4>1. status \in W!Offered
          BY DEF W!Offered
        <4>2. new = [x1[p] EXCEPT !.socket = 0, !.status = status]
          BY <1>0, <3>2 DEF W!LeftBy, W!Current, W!OfSocket, W!None, W!Panes
        <4> HIDE DEF status, new
        <4> QED
          BY <1>0, <3>2, <4>1, <4>2 DEF W!Panes
      <3> QED
        BY <3>1, <3>2
    <2>3. "closed" \notin W!Live
      BY DEF W!Live
    <2> HIDE DEF new
    <2>6. Hears(k, p, "closed", new)
      BY <1>0, <2>1, <2>2, <2>3 DEF Hears
    <2> QED
      BY <1>2, <2>1, <2>2, <2>6
  <1>7. CASE W!Output(k)
    <2> DEFINE new == IF x1[p].socket = k THEN [x1[p] EXCEPT !.screen = @ \union {k}]
                      ELSE x1[p]
    <2>1. x2' = x2 /\ x1' = [x1 EXCEPT ![p] = new]
      BY <1>0, <1>3, <1>7 DEF W!Output, W!Current, W!OfSocket
    <2>2. /\ new \in W!Panes /\ (new = x1[p] \/ x1[p].socket = k)
          /\ new.loading = x1[p].loading /\ new.started = x1[p].started
          /\ new.terminal = x1[p].terminal /\ new.destroyed = x1[p].destroyed
          /\ new.socket = x1[p].socket
          /\ \A j \in new.screen : j \in x1[p].screen \/ (new.socket = j /\ j = k)
      <3>1. x1[p].screen \union {k} \in SUBSET Nat
        BY <1>0 DEF W!Panes
      <3> QED
        BY <1>0, <3>1 DEF W!Panes
    <2>3. x2' = [x2 EXCEPT ![k].state = x2[k].state]
      BY <1>0, <2>1 DEF W!Sockets
    <2>4. x2[k].state \in {"connecting", "open", "closing", "failed", "closed"}
      BY <1>0 DEF W!Sockets, W!Live
    <2>5. new.socket = 0 => new = x1[p]
      BY <1>0
    <2> HIDE DEF new
    <2>6. Hears(k, p, x2[k].state, new)
      BY <1>0, <2>1, <2>2, <2>3, <2>4, <2>5 DEF Hears
    <2> QED
      BY <1>2, <2>1, <2>2, <2>3, <2>4, <2>6
  <1>8. ASSUME NEW status \in {"connecting", "connected", "exited", "error"},
               W!Control(k, status)
        PROVE  W!TerminalInv'
    <2> DEFINE new == IF x1[p].socket = k THEN [x1[p] EXCEPT !.status = status]
                      ELSE x1[p]
    <2>1. x2' = x2 /\ x1' = [x1 EXCEPT ![p] = new]
      BY <1>0, <1>3, <1>8 DEF W!Control, W!Current, W!OfSocket
    <2>2. /\ new \in W!Panes /\ (new = x1[p] \/ x1[p].socket = k)
          /\ new.loading = x1[p].loading /\ new.started = x1[p].started
          /\ new.terminal = x1[p].terminal /\ new.destroyed = x1[p].destroyed
          /\ new.socket = x1[p].socket /\ new.screen = x1[p].screen
      BY <1>0 DEF W!Panes, W!Offered
    <2>3. x2' = [x2 EXCEPT ![k].state = x2[k].state]
      BY <1>0, <2>1 DEF W!Sockets
    <2>4. x2[k].state \in {"connecting", "open", "closing", "failed", "closed"}
      BY <1>0 DEF W!Sockets, W!Live
    <2>5. new.socket = 0 => new = x1[p]
      BY <1>0
    <2> HIDE DEF new
    <2>6. Hears(k, p, x2[k].state, new)
      BY <1>0, <2>1, <2>2, <2>3, <2>4, <2>5 DEF Hears
    <2> QED
      BY <1>2, <2>1, <2>2, <2>3, <2>4, <2>6
  <1> QED
    BY <1>4, <1>5, <1>6, <1>7, <1>8

LEMMA PaneNext == ASSUME W!TerminalInv, W!Next PROVE W!TerminalInv'
  <1>0. /\ x1 \in Seq(W!Panes) /\ x2 \in Seq(W!Sockets) /\ x1 # <<>>
        /\ \A k \in DOMAIN x2 : x2[k].pane \in DOMAIN x1 /\ k # 0
        /\ \A p \in DOMAIN x1 : x1[p] \in W!Panes
        /\ Len(x1) \in DOMAIN x1 /\ W!None = 0
        /\ \A k \in DOMAIN x2 : x2[k].state \in W!Live => x1[x2[k].pane].socket = k
    BY DEF W!TerminalInv, W!TypeOK, W!OfSocket, W!None, W!LiveIsHeld, W!Current
  <1>p. ASSUME NEW p \in DOMAIN x1
        PROVE  /\ x1[p].socket # 0 => /\ x1[p].socket \in DOMAIN x2
                                      /\ x2[x1[p].socket].pane = p /\ ~x1[p].destroyed
               /\ x1[p].loading \/ x1[p].terminal => x1[p].started
               /\ x1[p].destroyed => ~x1[p].terminal
               /\ ~x1[p].destroyed =>
                    /\ x1[p].status \in {"connecting", "connected"} => x1[p].socket # 0
                    /\ x1[p].terminal /\ x1[p].socket = 0 => x1[p].status \in W!Offered
                    /\ \A k \in x1[p].screen : x1[p].socket \in {k, 0}
    BY <1>p DEF W!TerminalInv, W!HoldsItsOwn, W!OfSocket, W!None, W!TerminalIsStarted,
       W!StatusIsOfTheConnection
  <1>same. UNCHANGED <<x1, x2>> => W!TerminalInv'
    BY DEF W!TerminalInv, W!TypeOK, W!HoldsItsOwn, W!LiveIsHeld, W!TerminalIsStarted,
       W!StatusIsOfTheConnection, W!Current, W!OfSocket
  <1>1. CASE W!Select
    <2> DEFINE p == Len(x1)
               new == [x1[p] EXCEPT !.started = TRUE, !.loading = TRUE, !.status = "loading"]
    <2>1. CASE UNCHANGED <<x1, x2>>
      BY <1>same, <2>1
    <2>2. CASE ~UNCHANGED <<x1, x2>>
      <3>1. /\ x2' = x2 /\ ~x1[p].started
            /\ x1' = [x1 EXCEPT ![p].started = TRUE, ![p].loading = TRUE,
                                ![p].status = "loading"]
        BY <1>1, <2>2 DEF W!Select, W!shown
      <3>2. x1' = [x1 EXCEPT ![p] = new]
        BY <1>0, <3>1
      <3>3. /\ new \in W!Panes /\ new.started = TRUE /\ new.status = "loading"
            /\ new.terminal = x1[p].terminal /\ new.socket = x1[p].socket
            /\ new.destroyed = x1[p].destroyed /\ new.screen = x1[p].screen
        BY <1>0 DEF W!Panes
      <3> HIDE DEF new
      <3>4. p \in DOMAIN x1
        BY <1>0
      <3> HIDE DEF p
      <3>5. \A k \in DOMAIN x2 : x2[k].state \in W!Live /\ x2[k].pane = p => new.socket = k
        BY <1>0, <3>3
      <3>6. Fits(p, new, x2)
        BY <1>0, <1>p, <3>1, <3>3, <3>4, <3>5 DEF Fits
      <3> QED
        BY <1>0, <3>1, <3>2, <3>3, <3>4, <3>6, PaneStep
    <2> QED
      BY <2>1, <2>2
  <1>2. CASE W!Reconnect
    <2>1. W!ConnectSocket(Len(x1)) /\ x1[Len(x1)].terminal
      BY <1>2 DEF W!Reconnect, W!shown
    <2>2. x1[Len(x1)].started /\ ~x1[Len(x1)].destroyed
      BY <1>0, <1>p, <2>1
    <2> QED
      BY <1>0, <2>1, <2>2, PaneConnects
  <1>3. CASE W!SwitchTarget
    BY <1>3, TargetSwitches
  <1>4. ASSUME NEW p \in 1..MaxPanes, W!Loaded(p) PROVE W!TerminalInv'
    <2>1. p \in DOMAIN x1 /\ x1[p].loading /\ x1[p].started
      BY <1>4, <1>p DEF W!Loaded
    <2>2. CASE x1[p].destroyed
      <3> DEFINE new == [x1[p] EXCEPT !.loading = FALSE]
      <3>1. x1' = [x1 EXCEPT ![p] = new] /\ x2' = x2
        BY <1>0, <1>4, <2>1, <2>2 DEF W!Loaded
      <3>2. /\ new \in W!Panes /\ new.started = x1[p].started /\ new.loading = FALSE
            /\ new.terminal = x1[p].terminal /\ new.socket = x1[p].socket
            /\ new.destroyed = x1[p].destroyed
        BY <1>0, <2>1 DEF W!Panes
      <3> HIDE DEF new
      <3>3. \A k \in DOMAIN x2 : x2[k].state \in W!Live /\ x2[k].pane = p => new.socket = k
        BY <1>0, <3>2
      <3>4. Fits(p, new, x2)
        BY <1>0, <1>p, <2>1, <2>2, <3>2, <3>3 DEF Fits
      <3> QED
        BY <1>0, <2>1, <3>1, <3>2, <3>4, PaneStep
    <2>3. CASE ~x1[p].destroyed
      <3>1. W!ConnectSocket(p)
        BY <1>4, <2>3 DEF W!Loaded
      <3> QED
        BY <2>1, <2>3, <3>1, PaneConnects
    <2> QED
      BY <2>2, <2>3
  <1>5. ASSUME NEW p \in 1..MaxPanes, W!LoadFailed(p) PROVE W!TerminalInv'
    <2> DEFINE new == [x1[p] EXCEPT !.loading = FALSE, !.status = "error"]
    <2>1. /\ p \in DOMAIN x1 /\ x2' = x2 /\ x1[p].started
          /\ x1' = [x1 EXCEPT ![p] = new]
      BY <1>0, <1>5, <1>p DEF W!LoadFailed
    <2>2. /\ new \in W!Panes /\ new.started = x1[p].started /\ new.loading = FALSE
          /\ new.terminal = x1[p].terminal /\ new.socket = x1[p].socket
          /\ new.destroyed = x1[p].destroyed /\ new.status = "error"
          /\ new.screen = x1[p].screen
      BY <1>0, <2>1 DEF W!Panes, W!Offered
    <2> HIDE DEF new
    <2>3. \A k \in DOMAIN x2 : x2[k].state \in W!Live /\ x2[k].pane = p => new.socket = k
      BY <1>0, <2>2
    <2>4. Fits(p, new, x2)
      BY <1>0, <1>p, <2>1, <2>2, <2>3 DEF Fits, W!Offered
    <2> QED
      BY <1>0, <2>1, <2>2, <2>4, PaneStep
  <1>6. ASSUME NEW k \in 1..MaxSockets,
               \/ W!Opened(k) \/ W!Output(k) \/ W!Errored(k) \/ W!Closed(k)
               \/ \E status \in {"connecting", "connected", "exited", "error"} :
                    W!Control(k, status)
        PROVE  W!TerminalInv'
    BY <1>6, PaneHears
  <1> QED
    BY <1>1, <1>2, <1>3, <1>4, <1>5, <1>6 DEF W!Next

\* A pane holds its one connection, or none, and its status is of it.
LEMMA PaneHolds == ASSUME W!TerminalInv PROVE W!OneConnection /\ W!StatusIsOfTheConnection
  <1>1. \A k \in DOMAIN x2 : x2[k].state \in W!Live => x1[x2[k].pane].socket = k
    BY DEF W!TerminalInv, W!LiveIsHeld, W!Current
  <1>2. ASSUME NEW p \in DOMAIN x1, NEW k \in DOMAIN x2, x2[k].pane = p,
               x2[k].state \in W!Live
        PROVE  k \in IF x1[p].destroyed THEN {} ELSE {x1[p].socket}
    <2>1. x1[p].socket = k /\ k # 0
      BY <1>1, <1>2 DEF W!TerminalInv, W!TypeOK
    <2> QED
      BY <2>1 DEF W!TerminalInv, W!HoldsItsOwn, W!None
  <1> QED
    BY <1>2 DEF W!OneConnection, W!OfSocket, W!TerminalInv

(* Whatever is under way when the user goes to another project, opens the  *)
(* tab, or connects anew, a pane of the web terminal has no live socket but *)
(* the one it holds, a pane that is gone has none, and its status and its  *)
(* screen are of that one (connectSocket, onDestroy and the guards of the  *)
(* handlers in WorkspaceTerminal.svelte).                                  *)
THEOREM TerminalStaysConnected == PartsSpec => []TerminalIsConnected
  <1> DEFINE Inv == part = "terminal" => W!TerminalInv
  <1>1. PartsInit => Inv
    BY PaneInit DEF PartsInit, InitCloud, InitOrganizations, InitTerminal,
       InitConnection, InitChildren, InitView
  <1>2. Inv /\ [PartsNext]_partsVars => Inv'
    <2> SUFFICES ASSUME Inv, [PartsNext]_partsVars, part' = "terminal" PROVE W!TerminalInv'
      OBVIOUS
    <2>1. part = "terminal"
      BY DEF PartsNext, partsVars, OfCloud, OfOrganizations, OfTerminal, OfConnection, OfChildren, OfView
    <2>2. CASE UNCHANGED partsVars
      BY <2>1, <2>2 DEF partsVars, W!TerminalInv, W!TypeOK, W!HoldsItsOwn, W!LiveIsHeld,
         W!TerminalIsStarted, W!StatusIsOfTheConnection, W!Current, W!OfSocket
    <2>3. CASE PartsNext
      <3>1. W!Next
        BY <2>1, <2>3 DEF PartsNext, OfCloud, OfOrganizations, OfTerminal,
           OfConnection, OfChildren, OfView
      <3> QED
        BY <2>1, <3>1, PaneNext
    <2> QED
      BY <2>2, <2>3
  <1>3. Inv => TerminalIsConnected
    BY PaneHolds DEF TerminalIsConnected
  <1> QED
    BY <1>1, <1>2, <1>3, PTL DEF PartsSpec

-----------------------------------------------------------------------------
(* The connection of a page.                                               *)

LEMMA NothingConnected ==
  /\ C!NoConnection \in C!Connections /\ C!NoOp \in C!Operations /\ C!Closed \in C!Pages
  /\ C!NoOp.kind = "none"
  /\ C!Closed.project = NoValue /\ C!Closed.projects = {}
  BY DEF C!NoConnection, C!NoOp, C!Closed, C!Connection, C!Connections, C!Operations, C!Pages,
     C!Urls, C!NoToken

\* The page may become new.
PageFits(new) ==
    /\ ~new.stray => \A p \in new.projects : ServiceOf[p] = new.url
    /\ new.token = 0 => new.project = NoValue
    /\ new.project # NoValue /\ ~new.stray => ServiceOf[new.project] = new.url /\ new.token # 0

\* What the services, the stores and the operations must be then.
OthersFit ==
    /\ x1' \in [Services -> Nat \ {0}] /\ x2' \in [Services -> SUBSET PageProjects]
    /\ x4' \in [Tabs -> C!Connections] /\ {x5', x6'} \subseteq C!Connections
    /\ x7' \in [Ops -> C!Operations] /\ x8' \in Nat
    /\ \A o \in Ops : x7'[o].kind # "none" => x7'[o].tab \in Tabs
    /\ \A s \in Services : \A p \in x2'[s] : ServiceOf[p] = s
    /\ \A o \in Ops : x7'[o].kind = "register" =>
         x7'[o].to.project \in PageProjects /\ ServiceOf[x7'[o].to.project] = x7'[o].to.url

LEMMA PageChanges ==
  ASSUME C!ConnectionInv, NEW t \in Tabs, NEW new \in C!Pages,
         x3' = [x3 EXCEPT ![t] = new], OthersFit, PageFits(new)
  PROVE  C!ConnectionInv'
  <1> USE DEF C!ConnectionInv, C!NoToken
  <1>1. x3 \in [Tabs -> C!Pages]
    BY DEF C!TypeOK
  <1>2. /\ x3' \in [Tabs -> C!Pages] /\ x3'[t] = new
        /\ \A q \in Tabs : q # t => x3'[q] = x3[q]
    BY <1>1
  <1>3. C!TypeOK'
    BY <1>2 DEF C!TypeOK, OthersFit
  <1>4. C!ListsItsOwn' /\ C!RegistersItsOwn'
    BY DEF C!ListsItsOwn, C!RegistersItsOwn, OthersFit
  <1>5. C!PagesOfTheService'
    BY <1>2 DEF C!PagesOfTheService, PageFits
  <1>6. C!TargetIsWhole'
    BY <1>2 DEF C!TargetIsWhole, PageFits
  <1> QED
    BY <1>3, <1>4, <1>5, <1>6

LEMMA PageStays ==
  ASSUME C!ConnectionInv, x3' = x3, OthersFit
  PROVE  C!ConnectionInv'
  <1> USE DEF C!ConnectionInv, C!NoToken
  <1>1. C!TypeOK'
    BY DEF C!TypeOK, OthersFit
  <1>2. C!ListsItsOwn' /\ C!RegistersItsOwn'
    BY DEF C!ListsItsOwn, C!RegistersItsOwn, OthersFit
  <1>3. C!PagesOfTheService' /\ C!TargetIsWhole'
    BY DEF C!PagesOfTheService, C!TargetIsWhole
  <1> QED
    BY <1>1, <1>2, <1>3

\* What a state keeps when none of it changes.
LEMMA ConnectionFacts ==
  ASSUME C!ConnectionInv
  PROVE  /\ x1 \in [Services -> Nat \ {0}] /\ x2 \in [Services -> SUBSET PageProjects]
         /\ x3 \in [Tabs -> C!Pages]
         /\ x4 \in [Tabs -> C!Connections] /\ x5 \in C!Connections /\ x6 \in C!Connections
         /\ x7 \in [Ops -> C!Operations] /\ x8 \in Nat
         /\ \A o \in Ops : x7[o].kind # "none" => x7[o].tab \in Tabs
         /\ \A s \in Services : \A p \in x2[s] : ServiceOf[p] = s
         /\ \A o \in Ops : x7[o].kind = "register" =>
                x7[o].to.project \in PageProjects /\ ServiceOf[x7[o].to.project] = x7[o].to.url
         /\ \A t \in Tabs : PageFits(x3[t])
         /\ ServiceOf \in [PageProjects -> Services]
  BY ConstantsAssumption DEF C!ConnectionInv, C!TypeOK, C!ListsItsOwn, C!RegistersItsOwn,
     C!PagesOfTheService, C!TargetIsWhole, PageFits, C!NoToken, C!Assumptions

\* An operation begins.
LEMMA OperationBegins ==
  ASSUME C!ConnectionInv, NEW o \in Ops, NEW kind \in {"direct", "service", "register"},
         NEW t \in Tabs, NEW c \in C!Connections, NEW byHand \in BOOLEAN, NEW held \in Nat,
         C!Start(o, kind, t, c, byHand, held),
         kind = "register" => c.project \in PageProjects /\ ServiceOf[c.project] = c.url
  PROVE  /\ x7' \in [Ops -> C!Operations] /\ x8' \in Nat
         /\ \A q \in Ops : x7'[q].kind # "none" => x7'[q].tab \in Tabs
         /\ \A q \in Ops : x7'[q].kind = "register" =>
              x7'[q].to.project \in PageProjects /\ ServiceOf[x7'[q].to.project] = x7'[q].to.url
  <1> DEFINE new == [kind |-> kind, tab |-> t, to |-> c, byHand |-> byHand, held |-> held]
  <1>0. x7 \in [Ops -> C!Operations] /\ x8 \in Nat
    BY ConnectionFacts
  <1>1. x7' = [x7 EXCEPT ![o] = new] /\ x8' = x8 + 1
    BY DEF C!Start
  <1>2. new \in C!Operations /\ new.tab = t /\ new.kind = kind /\ new.to = c
    BY DEF C!Operations
  <1> HIDE DEF new
  <1> QED
    BY <1>0, <1>1, <1>2, ConnectionFacts

\* An operation ends.
LEMMA OperationEnds ==
  ASSUME C!ConnectionInv, NEW o \in Ops, C!Over(o)
  PROVE  /\ x7' \in [Ops -> C!Operations]
         /\ \A q \in Ops : x7'[q].kind # "none" => x7'[q].tab \in Tabs
         /\ \A q \in Ops : x7'[q].kind = "register" =>
              x7'[q].to.project \in PageProjects /\ ServiceOf[x7'[q].to.project] = x7'[q].to.url
  BY ConnectionFacts, NothingConnected DEF C!Over

LEMMA HereIsAConnection ==
  ASSUME NEW c \in C!Connections
  PROVE  C!Here(c) \in C!Connections
  BY DEF C!Here, C!Connections

LEMMA ConnectionInit == ASSUME C!Init PROVE C!ConnectionInv
  <1>1. /\ x1 = [s \in Services |-> 1] /\ x3 = [t \in Tabs |-> C!Closed]
        /\ x4 = [t \in Tabs |-> C!NoConnection] /\ x5 = C!NoConnection
        /\ x6 = C!NoConnection /\ x7 = [o \in Ops |-> C!NoOp] /\ x8 = 0
        /\ x2 \in [Services -> SUBSET PageProjects]
        /\ \A s \in Services : \A p \in x2[s] : ServiceOf[p] = s
    BY DEF C!Init
  <1>2. C!TypeOK
    BY <1>1, NothingConnected DEF C!TypeOK
  <1>3. C!ListsItsOwn /\ C!RegistersItsOwn /\ C!PagesOfTheService /\ C!TargetIsWhole
    BY <1>1, NothingConnected DEF C!ListsItsOwn, C!RegistersItsOwn, C!PagesOfTheService,
       C!TargetIsWhole
  <1> QED
    BY <1>2, <1>3 DEF C!ConnectionInv

LEMMA PageMounts ==
  ASSUME C!ConnectionInv, NEW t \in Tabs, NEW o \in Ops, NEW at \in Servers \union {NoValue},
         NEW handoff \in C!Connections, C!Mount(t, o, at, handoff)
  PROVE  C!ConnectionInv'
  <1> DEFINE c == C!SavedConnection(t, handoff)
             applied == IF at # NoValue THEN C!Connection(at, 0, NoValue) ELSE c
             new == [C!Closed EXCEPT !.mounted = TRUE, !.url = applied.url,
                                     !.token = applied.token,
                                     !.error = (applied.url = NoValue)]
  <1>1. c \in C!Connections
    BY ConnectionFacts DEF C!SavedConnection, C!Remembered
  <1>2. applied \in C!Connections
    BY <1>1 DEF C!Connection, C!Connections, C!Urls
  <1>3. x3' = [x3 EXCEPT ![t] = new] /\ UNCHANGED <<x1, x2, x6>>
    BY DEF C!Mount, C!NoToken, C!service
  <1>4. new \in C!Pages /\ new.project = NoValue /\ new.projects = {}
    <2>1. {} \in SUBSET PageProjects
      OBVIOUS
    <2> QED
      BY <1>2, <2>1 DEF C!Closed, C!Pages, C!Connections, C!Urls
  <1>5. x4' \in [Tabs -> C!Connections] /\ x5' \in C!Connections
    <2>1. CASE at = NoValue /\ c # C!NoConnection
      <3>1. C!Remember(t, c)
        BY <2>1 DEF C!Mount
      <3> QED
        BY <1>1, <3>1, ConnectionFacts, HereIsAConnection DEF C!Remember
    <2>2. CASE ~(at = NoValue /\ c # C!NoConnection)
      <3>1. /\ x4' = [x4 EXCEPT ![t] = IF handoff # C!NoConnection THEN C!Here(handoff) ELSE @]
            /\ x5' = x5
        BY <2>2 DEF C!Mount
      <3> QED
        BY <3>1, ConnectionFacts, HereIsAConnection
    <2> QED
      BY <2>1, <2>2
  <1>6. /\ x7' \in [Ops -> C!Operations] /\ x8' \in Nat
        /\ \A q \in Ops : x7'[q].kind # "none" => x7'[q].tab \in Tabs
        /\ \A q \in Ops : x7'[q].kind = "register" =>
             x7'[q].to.project \in PageProjects /\ ServiceOf[x7'[q].to.project] = x7'[q].to.url
    <2>1. CASE UNCHANGED <<x7, x8>>
      BY <2>1, ConnectionFacts
    <2>2. CASE C!Start(o, "direct", t, C!Connection(applied.url, 0, NoValue), FALSE,
                       applied.token)
      <3>1. C!Connection(applied.url, 0, NoValue) \in C!Connections /\ applied.token \in Nat
        BY <1>2 DEF C!Connection, C!Connections
      <3> HIDE DEF applied
      <3> QED
        BY <2>2, <3>1, OperationBegins
    <2> QED
      BY <2>1, <2>2 DEF C!Mount, C!NoToken
  <1> HIDE DEF new, applied, c
  <1>7. PageFits(new)
    BY <1>4 DEF PageFits
  <1>8. OthersFit
    BY <1>3, <1>5, <1>6, ConnectionFacts DEF OthersFit
  <1> QED
    BY <1>3, <1>4, <1>7, <1>8, PageChanges

\* connectDirectly and connectToLocalService: the page is connected.
LEMMA PageConnects ==
  ASSUME C!ConnectionInv, NEW o \in Ops, C!Direct(o) \/ C!Service(o)
  PROVE  C!ConnectionInv'
  <1> DEFINE t == x7[o].tab
             c == x7[o].to
  <1>1. t \in Tabs /\ c \in C!Connections /\ x3[t] \in C!Pages /\ PageFits(x3[t])
    BY ConnectionFacts DEF C!Direct, C!Service, C!Operations
  <1>2. CASE C!Direct(o)
    <2> DEFINE half == [x3[t] EXCEPT !.url = c.url, !.token = 0, !.project = NoValue]
               new == [half EXCEPT !.projects = {}, !.stray = FALSE]
    <2>1. half \in C!Pages /\ half.token = 0 /\ half.project = NoValue
      BY <1>1 DEF C!Pages, C!Connections
    <2>2. x3' = [x3 EXCEPT ![t] = [x3[t] EXCEPT !.url = c.url, !.token = 0,
                    !.project = NoValue, !.projects = {}, !.stray = FALSE]]
      BY <1>2, <1>1, ConnectionFacts DEF C!Direct, C!NoToken
    <2>3. new = [x3[t] EXCEPT !.url = c.url, !.token = 0, !.project = NoValue,
                              !.projects = {}, !.stray = FALSE]
      BY <1>1 DEF C!Pages
    <2>4. x3' = [x3 EXCEPT ![t] = new] /\ UNCHANGED <<x1, x2, x4, x5, x6, x8>> /\ C!Over(o)
      BY <1>2, <2>2, <2>3 DEF C!Direct, C!service, C!stores
    <2> HIDE DEF half
    <2>5. /\ new \in C!Pages /\ new.token = 0 /\ new.project = NoValue
          /\ new.projects = {} /\ new.stray = FALSE
      <3>1. {} \in SUBSET PageProjects
        OBVIOUS
      <3> QED
        BY <2>1, <3>1 DEF C!Pages
    <2> HIDE DEF new
    <2>6. PageFits(new)
      BY <2>5 DEF PageFits
    <2>7. OthersFit
      BY <2>4, ConnectionFacts, OperationEnds DEF OthersFit
    <2> QED
      BY <1>1, <2>4, <2>5, <2>6, <2>7, PageChanges
  <1>3. CASE C!Service(o)
    <2>1. PICK p \in C!Choose(t, c) :
            x3' = [x3 EXCEPT ![t] = [x3[t] EXCEPT !.url = c.url, !.token = c.token,
                     !.projects = x2[c.url], !.project = p, !.error = FALSE,
                     !.stray = FALSE]]
      BY <1>1, <1>3, ConnectionFacts DEF C!Service
    <2>2. /\ c.url \in Services /\ x1[c.url] = c.token /\ c.token \in Nat \ {0}
          /\ x2[c.url] \in SUBSET PageProjects
          /\ \A q \in x2[c.url] : ServiceOf[q] = c.url
      BY <1>3, ConnectionFacts DEF C!Service, C!Accepted
    <2>3. p \in x2[c.url] \/ p = NoValue
      BY DEF C!Choose
    <2> DEFINE half == [x3[t] EXCEPT !.url = c.url, !.token = c.token, !.projects = x2[c.url]]
               new == [half EXCEPT !.project = p, !.error = FALSE, !.stray = FALSE]
    <2>4. half \in C!Pages /\ half.token = c.token /\ half.url = c.url
          /\ half.projects = x2[c.url]
      BY <1>1, <2>2 DEF C!Pages, C!Connections
    <2>5. x3' = [x3 EXCEPT ![t] = new]
      BY <1>1, <2>1 DEF C!Pages
    <2> HIDE DEF half
    <2>6. /\ new \in C!Pages /\ new.token = c.token /\ new.url = c.url
          /\ new.projects = x2[c.url] /\ new.project = p /\ new.stray = FALSE
      BY <2>2, <2>3, <2>4 DEF C!Pages
    <2> HIDE DEF new, c
    <2>7. PageFits(new)
      BY <2>2, <2>3, <2>6 DEF PageFits
    <2>8. C!Remember(t, c) /\ x6' = C!NoConnection /\ C!Over(o) /\ UNCHANGED <<x1, x2, x8>>
      BY <1>3 DEF C!Service, C!service, c
    <2>9. OthersFit
      BY <1>1, <2>8, ConnectionFacts, OperationEnds, NothingConnected, HereIsAConnection
      DEF OthersFit, C!Remember
    <2> QED
      BY <1>1, <2>5, <2>6, <2>7, <2>9, PageChanges
  <1> QED
    BY <1>2, <1>3

\* registerProject, once the service has the project.
LEMMA PageRegisters ==
  ASSUME C!ConnectionInv, NEW o \in Ops, C!Registered(o)
  PROVE  C!ConnectionInv'
  <1> DEFINE t == x7[o].tab
             c == x7[o].to
             all == x2[c.url] \union {c.project}
             project == IF x3[t].token = 0 THEN x3[t].project ELSE c.project
             stray == x3[t].url # c.url
             new == [x3[t] EXCEPT !.projects = all, !.project = project,
                                  !.stray = stray]
  <1>1. t \in Tabs /\ c \in C!Connections /\ x3[t] \in C!Pages /\ PageFits(x3[t])
    BY ConnectionFacts DEF C!Registered, C!Operations
  <1>2. /\ c.url \in Services /\ x2[c.url] \in SUBSET PageProjects
        /\ c.project \in PageProjects /\ ServiceOf[c.project] = c.url
        /\ \A q \in x2[c.url] : ServiceOf[q] = c.url
    BY ConnectionFacts DEF C!Registered, C!Accepted
  <1>3. all \in SUBSET PageProjects /\ \A q \in all : ServiceOf[q] = c.url
    BY <1>2
  <1>4. project \in PageProjects \union {NoValue}
    BY <1>1, <1>2 DEF C!Pages
  <1>5. x3' = [x3 EXCEPT ![t] = new]
    <2>1. x3' = [x3 EXCEPT ![t] = [@ EXCEPT !.projects = all,
                    !.project = IF x3[t].token = 0 THEN x3[t].project ELSE c.project,
                    !.stray = stray]]
      BY Zenon DEF C!Registered, C!NoToken
    <2>2. x3 \in [Tabs -> C!Pages]
      BY ConnectionFacts
    <2> HIDE DEF all, t, c, stray
    <2>3. [x3[t] EXCEPT !.projects = all,
                        !.project = IF x3[t].token = 0 THEN x3[t].project ELSE c.project,
                        !.stray = stray] = new
      OBVIOUS
    <2>4. x3' = [x3 EXCEPT ![t] = [x3[t] EXCEPT !.projects = all,
                    !.project = IF x3[t].token = 0 THEN x3[t].project ELSE c.project,
                    !.stray = stray]]
      BY <2>1
    <2> QED
      BY <2>3, <2>4
  <1>6. /\ x2' = [x2 EXCEPT ![c.url] = all] /\ C!Over(o)
        /\ UNCHANGED <<x1, x4, x5, x6, x8>>
    BY DEF C!Registered, C!stores
  <1> HIDE DEF all, project
  <1>7. /\ new \in C!Pages /\ new.projects = all /\ new.project = project
        /\ new.stray = (x3[t].url # c.url) /\ new.url = x3[t].url
        /\ new.token = x3[t].token
    BY <1>1, <1>3, <1>4 DEF C!Pages
  <1> HIDE DEF new, t, c
  <1>8. PageFits(new)
    <2>1. new.token = 0 => new.project = NoValue
      BY <1>1, <1>7 DEF PageFits, project
    <2>2. ~new.stray => \A q \in new.projects : ServiceOf[q] = new.url
      BY <1>3, <1>7
    <2>3. new.project # NoValue /\ ~new.stray => ServiceOf[new.project] = new.url /\ new.token # 0
      BY <1>2, <1>7, <2>1 DEF project
    <2> QED
      BY <2>1, <2>2, <2>3 DEF PageFits
  <1>9. /\ x2' \in [Services -> SUBSET PageProjects]
        /\ \A s \in Services : \A p \in x2'[s] : ServiceOf[p] = s
    BY <1>2, <1>3, <1>6, ConnectionFacts
  <1>10. OthersFit
    BY <1>6, <1>9, ConnectionFacts, OperationEnds DEF OthersFit
  <1> QED
    BY <1>1, <1>5, <1>7, <1>8, <1>10, PageChanges

\* What is handed over, and what is typed.
LEMMA HandoffsAreConnections ==
  ASSUME C!ConnectionInv, NEW c \in C!Handoffs
  PROVE  c \in C!Connections
  <1>1. PICK p \in PageProjects : c = C!Connection(ServiceOf[p], x1[ServiceOf[p]], p)
    BY DEF C!Handoffs
  <1>2. ServiceOf[p] \in Services /\ x1[ServiceOf[p]] \in Nat
    BY ConnectionFacts
  <1> QED
    BY <1>1, <1>2 DEF C!Connection, C!Connections, C!Urls

LEMMA TypedAreConnections ==
  ASSUME C!ConnectionInv, NEW c \in C!Typed
  PROVE  c \in C!Connections
  BY ConnectionFacts DEF C!Typed, C!Connection, C!Connections, C!Urls, C!NoToken

LEMMA ConnectionNext == ASSUME C!ConnectionInv, C!Next PROVE C!ConnectionInv'
  <1>1. ASSUME NEW t \in Tabs, NEW o \in Ops, NEW at \in Servers \union {NoValue},
               NEW c \in C!Handoffs \union {C!NoConnection}, C!Mount(t, o, at, c)
        PROVE  C!ConnectionInv'
    BY <1>1, HandoffsAreConnections, NothingConnected, PageMounts
  <1>2. ASSUME NEW t \in Tabs, NEW o \in Ops, NEW c \in C!Handoffs, C!Handoff(t, o, c)
        PROVE  C!ConnectionInv'
    <2>1. c \in C!Connections /\ C!Here(c) \in C!Connections /\ x3[t].token \in Nat
      BY HandoffsAreConnections, HereIsAConnection, ConnectionFacts DEF C!Pages
    <2>2. C!Start(o, "service", t, c, FALSE, x3[t].token)
      BY <1>2 DEF C!Handoff
    <2>3. /\ x3' = x3 /\ x4' = [x4 EXCEPT ![t] = C!Here(c)] /\ x6' = c
          /\ UNCHANGED <<x1, x2, x5>>
      BY <1>2 DEF C!Handoff, C!service
    <2>4. OthersFit
      BY <2>1, <2>2, <2>3, ConnectionFacts, OperationBegins DEF OthersFit
    <2> QED
      BY <2>3, <2>4, PageStays
  <1>3. ASSUME NEW t \in Tabs, NEW o \in Ops, C!StorageEvent(t, o) PROVE C!ConnectionInv'
    <2>1. x6 \in C!Connections /\ x3[t].token \in Nat
      BY ConnectionFacts DEF C!Pages
    <2>2. C!Start(o, "service", t, x6, FALSE, x3[t].token)
      BY <1>3 DEF C!StorageEvent
    <2>3. UNCHANGED <<x1, x2, x3, x4, x5, x6>>
      BY <1>3 DEF C!StorageEvent, C!service, C!stores
    <2>4. OthersFit
      BY <2>1, <2>2, <2>3, ConnectionFacts, OperationBegins DEF OthersFit
    <2> QED
      BY <2>3, <2>4, PageStays
  <1>4. ASSUME NEW t \in Tabs, NEW o \in Ops, NEW c \in C!Typed, C!ByHand(t, o, c)
        PROVE  C!ConnectionInv'
    <2> DEFINE kind == IF c.token = 0 THEN "direct" ELSE "service"
    <2>1. c \in C!Connections /\ x3[t].token \in Nat
      BY TypedAreConnections, ConnectionFacts DEF C!Pages
    <2>2. C!Start(o, kind, t, c, TRUE, x3[t].token)
      BY <1>4 DEF C!ByHand, C!NoToken
    <2>3. kind \in {"direct", "service", "register"} /\ kind # "register"
      OBVIOUS
    <2> HIDE DEF kind
    <2>4. UNCHANGED <<x1, x2, x3, x4, x5, x6>>
      BY <1>4 DEF C!ByHand, C!service, C!stores
    <2>5. OthersFit
      BY <2>1, <2>2, <2>3, <2>4, ConnectionFacts, OperationBegins DEF OthersFit
    <2> QED
      BY <2>4, <2>5, PageStays
  <1>5. ASSUME NEW t \in Tabs, NEW o \in Ops, NEW p \in PageProjects, C!Register(t, o, p)
        PROVE  C!ConnectionInv'
    <2> DEFINE c == C!Connection(x3[t].url, x3[t].token, p)
    <2>1. /\ c \in C!Connections /\ x3[t].token \in Nat
          /\ c.project \in PageProjects /\ ServiceOf[c.project] = c.url
      BY <1>5, ConnectionFacts DEF C!Pages, C!Connection, C!Connections, C!Register
    <2>2. C!Start(o, "register", t, c, TRUE, x3[t].token)
      BY <1>5 DEF C!Register
    <2>3. UNCHANGED <<x1, x2, x3, x4, x5, x6>>
      BY <1>5 DEF C!Register, C!service, C!stores
    <2> HIDE DEF c
    <2>4. OthersFit
      BY <2>1, <2>2, <2>3, ConnectionFacts, OperationBegins DEF OthersFit
    <2> QED
      BY <2>3, <2>4, PageStays
  <1>6. ASSUME NEW t \in Tabs, C!Close(t) PROVE C!ConnectionInv'
    <2>1. /\ x3' = [x3 EXCEPT ![t] = C!Closed]
          /\ x7' = [o \in Ops |-> IF x7[o].tab = t THEN C!NoOp ELSE x7[o]]
          /\ UNCHANGED <<x1, x2, x4, x5, x6, x8>>
      BY <1>6 DEF C!Close, C!service, C!stores
    <2>2. PageFits(C!Closed)
      BY NothingConnected DEF PageFits
    <2>3. OthersFit
      BY <2>1, ConnectionFacts, NothingConnected DEF OthersFit
    <2> QED
      BY <2>1, <2>2, <2>3, NothingConnected, PageChanges
  <1>7. ASSUME NEW t \in Tabs, NEW p \in PageProjects, C!SelectProject(t, p)
        PROVE  C!ConnectionInv'
    <2> DEFINE new == [x3[t] EXCEPT !.project = p]
    <2>1. x3[t] \in C!Pages /\ PageFits(x3[t])
      BY ConnectionFacts
    <2>2. /\ x3' = [x3 EXCEPT ![t] = new] /\ UNCHANGED <<x1, x2, x4, x5, x6, x7, x8>>
          /\ p \in x3[t].projects /\ x3[t].token # 0
      BY <1>7, ConnectionFacts DEF C!SelectProject, C!service, C!stores, C!NoToken
    <2>3. /\ new \in C!Pages /\ new.projects = x3[t].projects /\ new.url = x3[t].url
          /\ new.token = x3[t].token /\ new.stray = x3[t].stray /\ new.project = p
      BY <2>1 DEF C!Pages
    <2> HIDE DEF new
    <2>4. PageFits(new)
      BY <2>1, <2>2, <2>3 DEF PageFits
    <2>5. OthersFit
      BY <2>2, ConnectionFacts DEF OthersFit
    <2> QED
      BY <2>2, <2>3, <2>4, <2>5, PageChanges
  <1>8. ASSUME NEW o \in Ops, C!Refused(o) PROVE C!ConnectionInv'
    <2> DEFINE t == x7[o].tab
               new == [x3[t] EXCEPT !.error = TRUE]
    <2>1. t \in Tabs /\ x3[t] \in C!Pages /\ PageFits(x3[t])
      BY <1>8, ConnectionFacts DEF C!Refused
    <2>2. /\ x3' = [x3 EXCEPT ![t] = new] /\ UNCHANGED <<x1, x2, x4, x5, x6, x8>>
          /\ C!Over(o)
      BY <1>8, ConnectionFacts DEF C!Refused, C!service, C!stores
    <2>3. /\ new \in C!Pages /\ new.projects = x3[t].projects /\ new.url = x3[t].url
          /\ new.token = x3[t].token /\ new.stray = x3[t].stray
          /\ new.project = x3[t].project
      BY <2>1 DEF C!Pages
    <2> HIDE DEF new, t
    <2>4. PageFits(new)
      BY <2>1, <2>3 DEF PageFits
    <2>5. OthersFit
      BY <2>2, ConnectionFacts, OperationEnds DEF OthersFit
    <2> QED
      BY <2>1, <2>2, <2>3, <2>4, <2>5, PageChanges
  <1>9. ASSUME NEW s \in Services, C!Restart(s) PROVE C!ConnectionInv'
    <2>1. x1' = [x1 EXCEPT ![s] = @ + 1] /\ UNCHANGED <<x2, x3, x4, x5, x6, x7, x8>>
      BY <1>9 DEF C!Restart, C!stores
    <2>2. x1' \in [Services -> Nat \ {0}]
      BY <2>1, ConnectionFacts
    <2>3. OthersFit
      BY <2>1, <2>2, ConnectionFacts DEF OthersFit
    <2> QED
      BY <2>1, <2>3, PageStays
  <1>10. ASSUME C!Expire PROVE C!ConnectionInv'
    <2>1. x6' = C!NoConnection /\ UNCHANGED <<x1, x2, x3, x4, x5, x7, x8>>
      BY <1>10 DEF C!Expire, C!service
    <2>2. OthersFit
      BY <2>1, ConnectionFacts, NothingConnected DEF OthersFit
    <2> QED
      BY <2>1, <2>2, PageStays
  <1>11. ASSUME NEW o \in Ops, C!Direct(o) \/ C!Service(o) \/ C!Registered(o)
         PROVE  C!ConnectionInv'
    BY <1>11, PageConnects, PageRegisters
  <1> QED
    BY <1>1, <1>2, <1>3, <1>4, <1>5, <1>6, <1>7, <1>8, <1>9, <1>10, <1>11 DEF C!Next

(* However many connections are under way in a tab, from the address, the   *)
(* dialog, another tab or a service that was started again, and in whatever *)
(* order they end, the project a page works on is one of the service it is  *)
(* connected to (applyConnection, selectProject and connectDirectly in      *)
(* Chat.svelte).                                                            *)
THEOREM TargetStaysWhole == PartsSpec => []TargetIsWhole
  <1> DEFINE Inv == part = "connection" => C!ConnectionInv
  <1>1. PartsInit => Inv
    BY ConnectionInit DEF PartsInit, InitCloud, InitOrganizations, InitTerminal,
       InitConnection, InitChildren, InitView
  <1>2. Inv /\ [PartsNext]_partsVars => Inv'
    <2> SUFFICES ASSUME Inv, [PartsNext]_partsVars, part' = "connection" PROVE C!ConnectionInv'
      OBVIOUS
    <2>1. part = "connection"
      BY DEF PartsNext, partsVars, OfCloud, OfOrganizations, OfTerminal, OfConnection, OfChildren, OfView
    <2>2. CASE UNCHANGED partsVars
      <3>1. OthersFit /\ x3' = x3
        BY <2>1, <2>2, ConnectionFacts DEF partsVars, OthersFit
      <3> QED
        BY <2>1, <3>1, PageStays
    <2>3. CASE PartsNext
      <3>1. C!Next
        BY <2>1, <2>3 DEF PartsNext, OfCloud, OfOrganizations, OfTerminal,
           OfConnection, OfChildren, OfView
      <3> QED
        BY <2>1, <3>1, ConnectionNext
    <2> QED
      BY <2>2, <2>3
  <1>3. Inv => TargetIsWhole
    BY DEF TargetIsWhole, C!ConnectionInv
  <1> QED
    BY <1>1, <1>2, <1>3, PTL DEF PartsSpec

-----------------------------------------------------------------------------
(* Organizations and teams.                                                *)

\* What a request of this user that shows this organization may have to call.
OwnCalls(rescue, u, org) ==
    {call \in O!Calling :
       /\ call.op = "createOrganization" => call.org \in Shared \/ (rescue /\ call.org = u)
       /\ call.op = "acceptInvitation" => call.org \in Shared
       /\ call.op = "listTeams" => org # NoValue}

RequestFits(q) ==
    /\ q.state = "running" => q.session \in Logins
    /\ q.todo \in Seq(OwnCalls(q.rescue, UserOf[q.session], q.view.org))
    /\ q.view.team # NoValue => q.view.org # NoValue /\ q.view.team \in q.view.teams
    /\ q.state = "thrown" /\ ~q.fault =>
         q.todo # <<>> /\ Head(q.todo).op = "createOrganization" /\ Head(q.todo).org \in Shared

LEMMA CallsInSequence ==
  ASSUME NEW todo \in Seq(O!Calling), NEW rescue, NEW u, NEW org
  PROVE  todo \in Seq(OwnCalls(rescue, u, org)) <=>
           \A i \in DOMAIN todo :
             /\ todo[i].op = "createOrganization" =>
                  todo[i].org \in Shared \/ (rescue /\ todo[i].org = u)
             /\ todo[i].op = "acceptInvitation" => todo[i].org \in Shared
             /\ todo[i].op = "listTeams" => org # NoValue
  <1> DEFINE S == OwnCalls(rescue, u, org)
  <1>1. \A i \in DOMAIN todo : todo[i] \in O!Calling
    OBVIOUS
  <1>2. todo \in Seq(S) => \A i \in DOMAIN todo : todo[i] \in S
    OBVIOUS
  <1>3. (\A i \in DOMAIN todo : todo[i] \in S) => todo \in Seq(S)
    OBVIOUS
  <1> QED
    BY <1>1, <1>2, <1>3 DEF OwnCalls

LEMMA OrganizationFacts ==
  ASSUME O!OrganizationsInv
  PROVE  /\ x1 \in [O!Organizations -> SUBSET Users]
         /\ x2 \in [Teams -> O!Organizations \union {NoValue}]
         /\ x3 \in [Logins -> O!Contexts] /\ x4 \in [Requests -> O!ServedRequests] /\ x5 \in Nat
         /\ \A u \in Users : x1[u] \subseteq {u}
         /\ \A r \in Requests : RequestFits(x4[r])
         /\ UserOf \in [Logins -> Users] /\ Users \intersect Shared = {}
         /\ NoValue \notin Users \union Shared \union Teams
  <1>1. \A r \in Requests : x4[r] \in O!ServedRequests /\ x4[r].todo \in Seq(O!Calling)
    BY DEF O!OrganizationsInv, O!TypeOK, O!ServedRequests
  <1>2. \A r \in Requests :
          x4[r].todo \in Seq(OwnCalls(x4[r].rescue, UserOf[x4[r].session], x4[r].view.org))
    <2> SUFFICES ASSUME NEW r \in Requests
                 PROVE  x4[r].todo \in
                          Seq(OwnCalls(x4[r].rescue, UserOf[x4[r].session], x4[r].view.org))
      OBVIOUS
    <2> DEFINE todo == x4[r].todo
               rescue == x4[r].rescue
               u == UserOf[x4[r].session]
               org == x4[r].view.org
    <2>1. \A i \in DOMAIN todo :
            /\ todo[i].op = "createOrganization" =>
                 todo[i].org \in Shared \/ (rescue /\ todo[i].org = u)
            /\ todo[i].op = "acceptInvitation" => todo[i].org \in Shared
            /\ todo[i].op = "listTeams" => org # NoValue
      BY DEF O!OrganizationsInv, O!CallsAreItsOwn
    <2>2. todo \in Seq(O!Calling)
      BY <1>1
    <2> HIDE DEF todo, rescue, u, org
    <2>3. todo \in Seq(OwnCalls(rescue, u, org))
      BY <2>1, <2>2, CallsInSequence
    <2> QED
      BY <2>3 DEF todo, rescue, u, org
  <1>3. \A r \in Requests : RequestFits(x4[r])
    BY <1>2 DEF O!OrganizationsInv, O!TypeOK, O!ShownTeamIsOfOrganization, O!FirstPagesAgree,
       RequestFits
  <1> QED
    BY <1>3, ConstantsAssumption DEF O!OrganizationsInv, O!TypeOK, O!PersonalIsPersonal,
       O!Assumptions

\* A request goes on, and maybe the data changes.
LEMMA RequestStep ==
  ASSUME O!OrganizationsInv, NEW r \in Requests, NEW new \in O!ServedRequests,
         x4' = [x4 EXCEPT ![r] = new], RequestFits(new),
         x1' \in [O!Organizations -> SUBSET Users],
         x2' \in [Teams -> O!Organizations \union {NoValue}],
         x3' \in [Logins -> O!Contexts], x5' \in Nat,
         \A u \in Users : x1'[u] \subseteq {u}
  PROVE  O!OrganizationsInv'
  <1>1. /\ x4' \in [Requests -> O!ServedRequests] /\ x4'[r] = new
        /\ \A q \in Requests : q # r => x4'[q] = x4[q]
    BY OrganizationFacts
  <1>2. \A q \in Requests : RequestFits(x4'[q])
    BY <1>1, OrganizationFacts
  <1>3. \A q \in Requests : x4'[q].todo \in Seq(O!Calling)
    BY <1>1 DEF O!ServedRequests
  <1>4. O!CallsAreItsOwn'
    <2> SUFFICES ASSUME NEW q \in Requests, NEW i \in DOMAIN x4'[q].todo
                 PROVE  LET call == x4'[q].todo[i]
                        IN  /\ call.op = "createOrganization" =>
                                 \/ call.org \in Shared
                                 \/ x4'[q].rescue /\ call.org = UserOf[x4'[q].session]
                            /\ call.op = "acceptInvitation" => call.org \in Shared
                            /\ call.op = "listTeams" => x4'[q].view.org # NoValue
      BY DEF O!CallsAreItsOwn
    <2>1. x4'[q].todo \in Seq(OwnCalls(x4'[q].rescue, UserOf[x4'[q].session], x4'[q].view.org))
      BY <1>2 DEF RequestFits
    <2>2. x4'[q].todo[i] \in OwnCalls(x4'[q].rescue, UserOf[x4'[q].session], x4'[q].view.org)
      BY <2>1
    <2> QED
      BY <2>2 DEF OwnCalls
  <1>5. O!TypeOK'
    BY <1>1, <1>2 DEF O!TypeOK, RequestFits
  <1>6. O!PersonalIsPersonal'
    BY DEF O!PersonalIsPersonal
  <1>7. O!ShownTeamIsOfOrganization' /\ O!FirstPagesAgree'
    BY <1>2 DEF O!ShownTeamIsOfOrganization, O!FirstPagesAgree, RequestFits
  <1> QED
    BY <1>4, <1>5, <1>6, <1>7 DEF O!OrganizationsInv

\* A request whose next call is done, or that throws.
LEMMA CallDone ==
  ASSUME O!OrganizationsInv, NEW r \in Requests, O!Done(r),
         x4[r].state = "running", x4[r].todo # <<>>,
         x1' \in [O!Organizations -> SUBSET Users],
         x2' \in [Teams -> O!Organizations \union {NoValue}],
         x3' \in [Logins -> O!Contexts], x5' \in Nat,
         \A u \in Users : x1'[u] \subseteq {u}
  PROVE  O!OrganizationsInv'
  <1> DEFINE new == [x4[r] EXCEPT !.todo = Tail(x4[r].todo)]
  <1>1. x4[r] \in O!ServedRequests /\ RequestFits(x4[r])
    BY OrganizationFacts
  <1>2. x4' = [x4 EXCEPT ![r] = new]
    BY OrganizationFacts DEF O!Done, O!Continue
  <1>3. Tail(x4[r].todo) \in Seq(O!Calling)
    BY <1>1 DEF O!ServedRequests
  <1>4. Tail(x4[r].todo) \in Seq(OwnCalls(x4[r].rescue, UserOf[x4[r].session], x4[r].view.org))
    <2> DEFINE S == OwnCalls(x4[r].rescue, UserOf[x4[r].session], x4[r].view.org)
               todo == x4[r].todo
    <2>1. todo \in Seq(S) /\ todo # <<>>
      BY <1>1 DEF RequestFits
    <2> HIDE DEF S, todo
    <2>2. Tail(todo) \in Seq(S)
      BY <2>1
    <2> QED
      BY <2>2 DEF S, todo
  <1>5. /\ new \in O!ServedRequests /\ new.todo = Tail(x4[r].todo) /\ new.state = x4[r].state
        /\ new.session = x4[r].session /\ new.rescue = x4[r].rescue /\ new.view = x4[r].view
    BY <1>1, <1>3 DEF O!ServedRequests
  <1> HIDE DEF new
  <1>6. RequestFits(new)
    BY <1>1, <1>4, <1>5 DEF RequestFits
  <1> QED
    BY <1>2, <1>5, <1>6, RequestStep

\* The request goes on with other calls, or shows more; the data is as it was.
LEMMA RequestGoesOn ==
  ASSUME O!OrganizationsInv, NEW r \in Requests, NEW new \in O!ServedRequests,
         x4' = [x4 EXCEPT ![r] = new], RequestFits(new),
         UNCHANGED <<x1, x2, x3>>, x5' \in Nat
  PROVE  O!OrganizationsInv'
  BY OrganizationFacts, RequestStep

\* The first calls of the functions.
LEMMA ActivateCalls ==
  ASSUME NEW o \in O!Organizations, NEW rescue, NEW u, NEW org
  PROVE  O!Activate(o) \in Seq(O!Calling) /\ O!Activate(o) \in Seq(OwnCalls(rescue, u, org))
  <1>1. O!SetOrg(o) \in O!Calling /\ O!SetOrg(o).op = "setActiveOrganization"
    BY DEF O!SetOrg, O!Call, O!Calling
  <1>2. O!SetTeam(NoValue) \in O!Calling /\ O!SetTeam(NoValue).op = "setActiveTeam"
    BY DEF O!SetTeam, O!Call, O!Calling
  <1>3. {O!SetOrg(o), O!SetTeam(NoValue)} \subseteq OwnCalls(rescue, u, org)
    BY <1>1, <1>2 DEF OwnCalls
  <1> QED
    BY <1>1, <1>2, <1>3 DEF O!Activate

LEMMA CreateCalls ==
  ASSUME NEW o \in O!Organizations, NEW rescue, NEW u, NEW org,
         o \in Shared \/ (rescue /\ o = u)
  PROVE  /\ O!CreateOrganization(o) \in Seq(O!Calling)
         /\ O!CreateOrganization(o) \in Seq(OwnCalls(rescue, u, org))
  <1> DEFINE first == O!Call("createOrganization", o, NoValue)
  <1>1. first \in O!Calling /\ first.op = "createOrganization" /\ first.org = o
    BY DEF O!Call, O!Calling
  <1>2. first \in OwnCalls(rescue, u, org)
    BY <1>1 DEF OwnCalls
  <1>3. O!CreateOrganization(o) = <<first>> \o O!Activate(o)
    BY DEF O!CreateOrganization
  <1> HIDE DEF first
  <1>4. <<first>> \in Seq(O!Calling) /\ <<first>> \in Seq(OwnCalls(rescue, u, org))
    BY <1>1, <1>2
  <1> QED
    BY <1>3, <1>4, ActivateCalls

LEMMA AcceptCalls ==
  ASSUME NEW o \in Shared, NEW rescue, NEW u, NEW org
  PROVE  /\ O!AcceptInvitation(o) \in Seq(O!Calling)
         /\ O!AcceptInvitation(o) \in Seq(OwnCalls(rescue, u, org))
  <1> DEFINE first == O!Call("acceptInvitation", o, NoValue)
  <1>0. o \in O!Organizations
    BY DEF O!Organizations
  <1>1. first \in O!Calling /\ first.op = "acceptInvitation" /\ first.org = o
    BY <1>0 DEF O!Call, O!Calling
  <1>2. first \in OwnCalls(rescue, u, org)
    BY <1>1 DEF OwnCalls
  <1>3. O!AcceptInvitation(o) = <<first>> \o O!Activate(o)
    BY DEF O!AcceptInvitation
  <1> HIDE DEF first
  <1>4. <<first>> \in Seq(O!Calling) /\ <<first>> \in Seq(OwnCalls(rescue, u, org))
    BY <1>1, <1>2
  <1> QED
    BY <1>0, <1>3, <1>4, ActivateCalls

\* A call that makes and joins nothing.
LEMMA PlainCall ==
  ASSUME NEW op \in {"setActiveTeam", "createTeam", "removeTeam", "removeMember",
                     "listOrganizations", "ensure", "listTeamMembers"},
         NEW o \in O!Organizations \union {NoValue}, NEW t \in Teams \union {NoValue},
         NEW rescue, NEW u, NEW org
  PROVE  O!Call(op, o, t) \in O!Calling /\ O!Call(op, o, t) \in OwnCalls(rescue, u, org)
  <1>1. O!Call(op, o, t) \in O!Calling /\ O!Call(op, o, t).op = op
    BY DEF O!Call, O!Calling
  <1> QED
    BY <1>1 DEF OwnCalls

LEMMA FunctionCalls ==
  ASSUME NEW context \in O!Contexts, NEW todo \in O!Functions(context), NEW rescue, NEW u,
         NEW org
  PROVE  todo \in Seq(O!Calling) /\ todo \in Seq(OwnCalls(rescue, u, org))
  <1> DEFINE S == OwnCalls(rescue, u, org)
  <1>1. CASE todo \in {O!Ensure, O!Workspace}
    <2>1. /\ O!Call("ensure", NoValue, NoValue) \in O!Calling \intersect S
          /\ O!Call("listOrganizations", NoValue, NoValue) \in O!Calling \intersect S
      BY PlainCall
    <2>2. O!Ensure \in Seq(O!Calling) /\ O!Ensure \in Seq(S)
      BY <2>1 DEF O!Ensure
    <2>3. O!Workspace \in Seq(O!Calling) /\ O!Workspace \in Seq(S)
      BY <2>1 DEF O!Workspace
    <2> QED
      BY <1>1, <2>2, <2>3
  <1>2. CASE \E o \in Shared :
               todo \in {O!CreateOrganization(o), O!SelectOrganization(o), O!AcceptInvitation(o)}
    <2>1. PICK o \in Shared :
            todo \in {O!CreateOrganization(o), O!SelectOrganization(o), O!AcceptInvitation(o)}
      BY <1>2
    <2>2. o \in O!Organizations
      BY DEF O!Organizations
    <2> QED
      BY <2>1, <2>2, CreateCalls, ActivateCalls, AcceptCalls DEF O!SelectOrganization
  <1>3. CASE \E t \in Teams \union {NoValue} : todo = O!SelectTeam(t)
    <2>1. PICK t \in Teams \union {NoValue} : todo = O!SelectTeam(t)
      BY <1>3
    <2>2. O!SetTeam(t) \in O!Calling /\ O!SetTeam(t) \in S
      BY PlainCall DEF O!SetTeam
    <2> QED
      BY <2>1, <2>2 DEF O!SelectTeam
  <1>4. context.org \in O!Organizations \union {NoValue}
    BY DEF O!Contexts
  <1>5. CASE todo = O!RemoveOrganizationMember(context)
    <2>1. O!Call("removeMember", context.org, NoValue) \in O!Calling \intersect S
      BY <1>4, PlainCall
    <2> QED
      BY <1>5, <2>1 DEF O!RemoveOrganizationMember
  <1>6. CASE \E t \in Teams : todo \in {O!CreateTeam(context, t), O!DeleteTeam(context, t)}
    <2>1. PICK t \in Teams : todo \in {O!CreateTeam(context, t), O!DeleteTeam(context, t)}
      BY <1>6
    <2>2. /\ O!Call("createTeam", context.org, t) \in O!Calling \intersect S
          /\ O!Call("removeTeam", context.org, t) \in O!Calling \intersect S
          /\ O!SetTeam(t) \in O!Calling \intersect S
          /\ O!SetTeam(NoValue) \in O!Calling \intersect S
      BY <1>4, PlainCall DEF O!SetTeam
    <2> DEFINE first == IF context.team = t THEN <<O!SetTeam(NoValue)>> ELSE <<>>
               last == <<O!Call("removeTeam", context.org, t)>>
    <2>3. first \in Seq(O!Calling) /\ first \in Seq(S)
      BY <2>2
    <2>4. last \in Seq(O!Calling) /\ last \in Seq(S)
      BY <2>2
    <2>5. O!DeleteTeam(context, t) = first \o last
      BY DEF O!DeleteTeam
    <2> HIDE DEF first, last
    <2>6. O!DeleteTeam(context, t) \in Seq(O!Calling) /\ O!DeleteTeam(context, t) \in Seq(S)
      BY <2>3, <2>4, <2>5
    <2>7. O!CreateTeam(context, t) \in Seq(O!Calling) /\ O!CreateTeam(context, t) \in Seq(S)
      BY <2>2 DEF O!CreateTeam
    <2> QED
      BY <2>1, <2>6, <2>7
  <1>7. \/ todo \in {O!Ensure, O!Workspace}
        \/ todo \in UNION {{O!CreateOrganization(o), O!SelectOrganization(o),
                            O!AcceptInvitation(o)} : o \in Shared}
        \/ todo \in {O!SelectTeam(t) : t \in Teams \union {NoValue}}
        \/ todo = O!RemoveOrganizationMember(context)
        \/ todo \in UNION {{O!CreateTeam(context, t), O!DeleteTeam(context, t)} : t \in Teams}
    <2> DEFINE A == UNION {{O!CreateOrganization(o), O!SelectOrganization(o),
                            O!AcceptInvitation(o)} : o \in Shared}
               B1 == {O!SelectTeam(t) : t \in Teams \union {NoValue}}
               D1 == UNION {{O!CreateTeam(context, t), O!DeleteTeam(context, t)} : t \in Teams}
               E1 == {O!RemoveOrganizationMember(context)}
    <2>1. todo \in {O!Ensure, O!Workspace} \union A \union B1
                   \union (IF context.org = NoValue THEN {} ELSE E1 \union D1)
      BY DEF O!Functions
    <2> HIDE DEF A, B1, D1, E1
    <2>2. \/ todo \in {O!Ensure, O!Workspace} \/ todo \in A \/ todo \in B1
          \/ todo \in E1 \/ todo \in D1
      BY <2>1
    <2> QED
      BY <2>2 DEF A, B1, D1, E1
  <1> QED
    BY <1>1, <1>2, <1>3, <1>5, <1>6, <1>7

LEMMA OrganizationsInit == ASSUME O!Init PROVE O!OrganizationsInv
  <1>1. /\ O!NoContext \in O!Contexts /\ O!NoView \in O!Views
        /\ <<>> \in Seq(O!Calling) /\ {} \in SUBSET Teams
    BY DEF O!NoContext, O!Contexts, O!NoView, O!Views
  <1>2. /\ O!Free \in O!ServedRequests /\ O!Free.state = "free" /\ O!Free.todo = <<>>
        /\ O!Free.view.team = NoValue
    BY <1>1 DEF O!Free, O!ServedRequests, O!NoView
  <1>3. PICK provisioned \in SUBSET Users, back \in SUBSET Users :
          /\ x1 = [o \in O!Organizations |-> IF o \in provisioned THEN {o} ELSE {}]
          /\ x3 = [s \in Logins |->
               IF UserOf[s] \in back THEN [org |-> UserOf[s], team |-> NoValue] ELSE O!NoContext]
    BY DEF O!Init
  <1>4. /\ x2 = [t \in Teams |-> NoValue] /\ x4 = [r \in Requests |-> O!Free] /\ x5 = 0
    BY DEF O!Init
  <1>5. \A u \in Users : x1[u] \subseteq {u}
    BY <1>3 DEF O!Organizations
  <1>6. x3 \in [Logins -> O!Contexts]
    BY <1>1, <1>3 DEF O!Contexts, O!Organizations
  <1>7. O!TypeOK
    BY <1>2, <1>3, <1>4, <1>6 DEF O!TypeOK, O!Organizations
  <1>8. /\ O!CallsAreItsOwn /\ O!ShownTeamIsOfOrganization /\ O!FirstPagesAgree
    BY <1>2, <1>4 DEF O!CallsAreItsOwn, O!ShownTeamIsOfOrganization, O!FirstPagesAgree
  <1> QED
    BY <1>5, <1>7, <1>8 DEF O!OrganizationsInv, O!PersonalIsPersonal

\* The next call of a request that is running.
LEMMA NextCall ==
  ASSUME O!OrganizationsInv, NEW r \in Requests, NEW op, O!Calls(r, op)
  PROVE  /\ x4[r].state = "running" /\ x4[r].todo # <<>> /\ O!Next1(r) = Head(x4[r].todo)
         /\ O!Next1(r).op = op /\ O!Next1(r) \in O!Calling /\ x4[r].session \in Logins
         /\ O!user(r) = UserOf[x4[r].session] /\ O!user(r) \in Users
         /\ O!Next1(r) \in OwnCalls(x4[r].rescue, UserOf[x4[r].session], x4[r].view.org)
  <1>1. x4[r] \in O!ServedRequests /\ RequestFits(x4[r])
    BY OrganizationFacts
  <1>2. x4[r].state = "running" /\ x4[r].todo # <<>> /\ O!Next1(r) = Head(x4[r].todo)
        /\ O!Next1(r).op = op
    BY DEF O!Calls, O!Next1
  <1> DEFINE S == OwnCalls(x4[r].rescue, UserOf[x4[r].session], x4[r].view.org)
             todo == x4[r].todo
  <1>3. todo \in Seq(S) /\ todo # <<>>
    BY <1>1, <1>2 DEF RequestFits
  <1>4. S \subseteq O!Calling
    BY DEF OwnCalls
  <1> HIDE DEF S, todo
  <1>5. Head(todo) \in S
    BY <1>3
  <1>6. x4[r].session \in Logins
    BY <1>1, <1>2 DEF RequestFits
  <1>7. O!user(r) = UserOf[x4[r].session] /\ O!user(r) \in Users
    BY <1>6, OrganizationFacts DEF O!user
  <1> QED
    BY <1>2, <1>4, <1>5, <1>6, <1>7 DEF S, todo

\* The calls that change members, teams or what is active.
LEMMA CallsChangeData ==
  ASSUME O!OrganizationsInv, NEW r \in Requests,
         \/ O!SetActiveOrganization(r) \/ O!SetActiveTeam(r) \/ O!NewTeam(r) \/ O!RemoveTeam(r)
         \/ O!RemoveMember(r) \/ O!ReadTeamMembers(r)
  PROVE  O!OrganizationsInv'
  <1> DEFINE call == O!Next1(r)
  <1>1. /\ x4[r].state = "running" /\ x4[r].todo # <<>> /\ call \in O!Calling
        /\ x4[r].session \in Logins
    BY NextCall DEF O!SetActiveOrganization, O!SetActiveTeam, O!NewTeam, O!RemoveTeam,
       O!RemoveMember, O!ReadTeamMembers
  <1>2. call.org \in O!Organizations \union {NoValue} /\ call.team \in Teams \union {NoValue}
    BY <1>1 DEF O!Calling
  <1>3. /\ O!Done(r) /\ x5' = x5
    BY DEF O!SetActiveOrganization, O!SetActiveTeam, O!NewTeam, O!RemoveTeam,
       O!RemoveMember, O!ReadTeamMembers
  <1> HIDE DEF call
  <1>4. x3' \in [Logins -> O!Contexts]
    <2>1. CASE O!SetActiveOrganization(r)
      <3>1. x3' = [x3 EXCEPT ![x4[r].session].org = call.org]
        BY <2>1 DEF O!SetActiveOrganization, call
      <3> QED
        BY <1>1, <1>2, <3>1, OrganizationFacts DEF O!Contexts
    <2>2. CASE O!SetActiveTeam(r)
      <3>1. x3' = [x3 EXCEPT ![x4[r].session].team = call.team]
        BY <2>2 DEF O!SetActiveTeam, call
      <3> QED
        BY <1>1, <1>2, <3>1, OrganizationFacts DEF O!Contexts
    <2>3. CASE x3' = x3
      BY <2>3, OrganizationFacts
    <2> QED
      BY <2>1, <2>2, <2>3 DEF O!NewTeam, O!RemoveTeam, O!RemoveMember, O!ReadTeamMembers
  <1>5. x2' \in [Teams -> O!Organizations \union {NoValue}]
    <2>1. CASE x2' = x2
      BY <2>1, OrganizationFacts
    <2>2. CASE O!NewTeam(r)
      <3>1. x2' = [x2 EXCEPT ![call.team] = call.org]
        BY <2>2 DEF O!NewTeam, call
      <3> QED
        BY <1>2, <3>1, OrganizationFacts
    <2>3. CASE O!RemoveTeam(r)
      <3>1. x2' = [x2 EXCEPT ![call.team] = NoValue]
        BY <2>3 DEF O!RemoveTeam, call
      <3> QED
        BY <3>1, OrganizationFacts
    <2> QED
      BY <2>1, <2>2, <2>3 DEF O!SetActiveOrganization, O!SetActiveTeam, O!RemoveMember,
         O!ReadTeamMembers
  <1>6. x1' \in [O!Organizations -> SUBSET Users] /\ \A u \in Users : x1'[u] \subseteq {u}
    <2>1. CASE x1' = x1
      BY <2>1, OrganizationFacts
    <2>2. CASE O!RemoveMember(r)
      <3>1. PICK u \in Users : x1' = [x1 EXCEPT ![call.org] = @ \ {u}]
        <4>1. PICK u \in x1[call.org] \ {O!user(r)} : x1' = [x1 EXCEPT ![call.org] = @ \ {u}]
          BY <2>2 DEF O!RemoveMember, call
        <4>2. CASE call.org \in O!Organizations
          BY <4>1, <4>2, OrganizationFacts
        <4>3. CASE call.org \notin O!Organizations
          <5>1. x1' = x1
            BY <4>1, <4>3, OrganizationFacts
          <5>2. O!user(r) \in Users
            BY <1>1, OrganizationFacts DEF O!user
          <5>3. x1' = [x1 EXCEPT ![call.org] = @ \ {O!user(r)}]
            BY <4>3, <5>1, OrganizationFacts
          <5> QED
            BY <5>2, <5>3
        <4> QED
          BY <4>2, <4>3
      <3> QED
        BY <3>1, OrganizationFacts DEF O!Organizations
    <2> QED
      BY <2>1, <2>2 DEF O!SetActiveOrganization, O!SetActiveTeam, O!NewTeam, O!RemoveTeam,
         O!ReadTeamMembers
  <1> QED
    BY <1>1, <1>3, <1>4, <1>5, <1>6, OrganizationFacts, CallDone

\* An organization is made, or the user joins a shared one.
LEMMA UserJoins ==
  ASSUME O!OrganizationsInv, NEW r \in Requests, O!Join(r)
  PROVE  O!OrganizationsInv'
  <1> DEFINE call == O!Next1(r)
             u == O!user(r)
  <1>1. /\ x4[r].state = "running" /\ x4[r].todo # <<>> /\ u \in Users
        /\ call \in OwnCalls(x4[r].rescue, u, x4[r].view.org)
        /\ call.op \in {"createOrganization", "acceptInvitation"}
    BY NextCall DEF O!Join
  <1>2. call.org \in Shared \/ call.org = u
    BY <1>1 DEF OwnCalls
  <1>3. x1' = [x1 EXCEPT ![call.org] = @ \union {u}] /\ O!Done(r) /\ UNCHANGED <<x2, x3, x5>>
    BY DEF O!Join
  <1> HIDE DEF call, u
  <1>4. x1' \in [O!Organizations -> SUBSET Users] /\ \A v \in Users : x1'[v] \subseteq {v}
    BY <1>1, <1>2, <1>3, OrganizationFacts DEF O!Organizations
  <1> QED
    BY <1>1, <1>3, <1>4, OrganizationFacts, CallDone

\* A request begins.
LEMMA RequestBegins ==
  ASSUME O!OrganizationsInv, NEW r \in Requests, NEW s \in Logins, O!Begin(r, s)
  PROVE  O!OrganizationsInv'
  <1>1. PICK todo \in O!Functions(x3[s]) :
          x4' = [x4 EXCEPT ![r] = [O!Free EXCEPT !.state = "running", !.session = s,
                                                 !.read = x3[s], !.todo = todo]]
    BY DEF O!Begin
  <1> DEFINE new == [O!Free EXCEPT !.state = "running", !.session = s,
                                   !.read = x3[s], !.todo = todo]
  <1>2. UNCHANGED <<x1, x2, x3>> /\ x5' = x5 + 1
    BY DEF O!Begin
  <1>3. x3[s] \in O!Contexts
    BY OrganizationFacts
  <1>4. todo \in Seq(O!Calling) /\ todo \in Seq(OwnCalls(FALSE, UserOf[s], NoValue))
    BY <1>3, FunctionCalls
  <1>5. /\ new.state = "running" /\ new.session = s /\ new.todo = todo /\ new.rescue = FALSE
        /\ new.view = O!NoView /\ new.read = x3[s] /\ new.fault = FALSE
        /\ O!NoView.org = NoValue /\ O!NoView.team = NoValue
    BY DEF O!Free, O!NoView
  <1>6. O!NoView \in O!Views
    <2>1. {} \in SUBSET Teams
      OBVIOUS
    <2> QED
      BY <2>1 DEF O!NoView, O!Views
  <1>7. new \in O!ServedRequests
    BY <1>3, <1>4, <1>6 DEF O!Free, O!ServedRequests
  <1>8. x4' = [x4 EXCEPT ![r] = new]
    BY <1>1
  <1>9. x5' \in Nat
    BY <1>2, OrganizationFacts
  <1> HIDE DEF new
  <1>10. RequestFits(new)
    BY <1>4, <1>5 DEF RequestFits
  <1> QED
    BY <1>2, <1>7, <1>8, <1>9, <1>10, RequestGoesOn

\* A request goes on with other calls; its user and what it shows are the same.
LEMMA RequestTurns ==
  ASSUME O!OrganizationsInv, NEW r \in Requests, x4[r].state = "running",
         NEW todo \in Seq(O!Calling), NEW rescue \in BOOLEAN,
         todo \in Seq(OwnCalls(rescue, UserOf[x4[r].session], x4[r].view.org)),
         x4' = [x4 EXCEPT ![r].todo = todo, ![r].rescue = rescue],
         UNCHANGED <<x1, x2, x3, x5>>
  PROVE  O!OrganizationsInv'
  <1> DEFINE new == [x4[r] EXCEPT !.todo = todo, !.rescue = rescue]
  <1>1. x4[r] \in O!ServedRequests /\ RequestFits(x4[r]) /\ x5' \in Nat
    BY OrganizationFacts
  <1>2. x4' = [x4 EXCEPT ![r] = new]
    BY OrganizationFacts DEF O!ServedRequests
  <1>3. /\ new \in O!ServedRequests /\ new.state = "running" /\ new.session = x4[r].session
        /\ new.todo = todo /\ new.rescue = rescue /\ new.view = x4[r].view
    BY <1>1 DEF O!ServedRequests
  <1> HIDE DEF new
  <1>4. RequestFits(new)
    BY <1>1, <1>3 DEF RequestFits
  <1> QED
    BY <1>1, <1>2, <1>3, <1>4, RequestGoesOn

\* ensurePersonalWorkspace
LEMMA WorkspaceEnsured ==
  ASSUME O!OrganizationsInv, NEW r \in Requests, O!EnsureWorkspace(r)
  PROVE  O!OrganizationsInv'
  <1>1. /\ x4[r].state = "running" /\ x4[r].todo # <<>> /\ x4[r].rescue \in BOOLEAN
        /\ O!user(r) = UserOf[x4[r].session] /\ O!user(r) \in O!Organizations
        /\ x4[r] \in O!ServedRequests
    BY NextCall, OrganizationFacts DEF O!EnsureWorkspace, O!ServedRequests, O!Organizations
  <1>2. UNCHANGED <<x1, x2, x3, x5>>
    BY DEF O!EnsureWorkspace
  <1>3. CASE O!Done(r)
    BY <1>1, <1>2, <1>3, OrganizationFacts, CallDone
  <1>4. ASSUME NEW o \in O!Organizations, O!Continue(r, O!Activate(o))
        PROVE  O!OrganizationsInv'
    <2>1. x4' = [x4 EXCEPT ![r].todo = O!Activate(o), ![r].rescue = x4[r].rescue]
      <3> DEFINE todo == O!Activate(o)
      <3>1. x4' = [x4 EXCEPT ![r].todo = todo]
        BY <1>4 DEF O!Continue
      <3> HIDE DEF todo
      <3>2. [x4[r] EXCEPT !.todo = todo, !.rescue = x4[r].rescue] = [x4[r] EXCEPT !.todo = todo]
        BY <1>1 DEF O!ServedRequests
      <3>3. [x4 EXCEPT ![r].todo = todo, ![r].rescue = x4[r].rescue]
              = [x4 EXCEPT ![r] = [x4[r] EXCEPT !.todo = todo, !.rescue = x4[r].rescue]]
        BY OrganizationFacts
      <3>4. [x4 EXCEPT ![r].todo = todo] = [x4 EXCEPT ![r] = [x4[r] EXCEPT !.todo = todo]]
        BY OrganizationFacts
      <3> QED
        BY <3>1, <3>2, <3>3, <3>4 DEF todo
    <2> QED
      BY <1>1, <1>2, <2>1, ActivateCalls, RequestTurns, ZenonT(40)
  <1>5. CASE x4' = [x4 EXCEPT ![r].todo = O!CreateOrganization(O!user(r)), ![r].rescue = TRUE]
    <2>1. /\ O!CreateOrganization(O!user(r)) \in Seq(O!Calling)
          /\ O!CreateOrganization(O!user(r)) \in
               Seq(OwnCalls(TRUE, UserOf[x4[r].session], x4[r].view.org))
      BY <1>1, CreateCalls
    <2> QED
      BY <1>1, <1>2, <1>5, <2>1, RequestTurns
  <1>6. O!ListOrganizations(O!user(r)) \subseteq O!Organizations
    BY DEF O!ListOrganizations
  <1> QED
    BY <1>3, <1>4, <1>5, <1>6 DEF O!EnsureWorkspace

\* What was thrown: a request that makes the personal workspace goes on when it is there.
LEMMA RescuedFits ==
  ASSUME O!OrganizationsInv, NEW r \in Requests, x4[r].state = "running", NEW exists \in BOOLEAN
  PROVE  LET new == O!Rescued(x4[r], exists)
         IN  /\ new \in O!ServedRequests /\ new.view = x4[r].view /\ new.session = x4[r].session
             /\ new.fault = x4[r].fault
             /\ new.todo \in Seq(OwnCalls(new.rescue, UserOf[new.session], new.view.org))
             /\ new.state = "running" \/ (new.state = "thrown" /\ new.todo = x4[r].todo)
             /\ x4[r].rescue /\ exists => new.state = "running"
  <1>1. /\ x4[r] \in O!ServedRequests /\ RequestFits(x4[r]) /\ x4[r].session \in Logins
        /\ UserOf[x4[r].session] \in O!Organizations
    BY OrganizationFacts DEF RequestFits, O!Organizations
  <1> DEFINE todo == O!Activate(UserOf[x4[r].session])
  <1>2. /\ todo \in Seq(O!Calling)
        /\ todo \in Seq(OwnCalls(FALSE, UserOf[x4[r].session], x4[r].view.org))
    BY <1>1, ActivateCalls
  <1> DEFINE new == O!Rescued(x4[r], exists)
  <1>3. CASE x4[r].rescue /\ exists
    <2>1. new = [x4[r] EXCEPT !.rescue = FALSE, !.todo = todo]
      BY <1>3 DEF O!Rescued
    <2> HIDE DEF new, todo
    <2>2. /\ new \in O!ServedRequests /\ new.view = x4[r].view /\ new.session = x4[r].session
          /\ new.fault = x4[r].fault /\ new.todo = todo /\ new.rescue = FALSE
          /\ new.state = "running"
      BY <1>1, <1>2, <2>1 DEF O!ServedRequests
    <2> QED
      BY <1>2, <1>3, <2>2 DEF new
  <1>4. CASE ~(x4[r].rescue /\ exists)
    <2>1. new = [x4[r] EXCEPT !.state = "thrown"]
      BY <1>4 DEF O!Rescued
    <2> HIDE DEF new
    <2>2. /\ new \in O!ServedRequests /\ new.view = x4[r].view /\ new.session = x4[r].session
          /\ new.fault = x4[r].fault /\ new.todo = x4[r].todo /\ new.rescue = x4[r].rescue
          /\ new.state = "thrown"
      BY <1>1, <2>1 DEF O!ServedRequests
    <2>3. new.todo \in Seq(OwnCalls(new.rescue, UserOf[new.session], new.view.org))
      BY <1>1, <2>2 DEF RequestFits
    <2> QED
      BY <1>4, <2>2, <2>3 DEF new
  <1> QED
    BY <1>3, <1>4

LEMMA SlugIsTaken ==
  ASSUME O!OrganizationsInv, NEW r \in Requests, O!SlugTaken(r)
  PROVE  O!OrganizationsInv'
  <1> DEFINE exists == O!Personal(O!user(r))
             new == O!Rescued(x4[r], exists)
             call == O!Next1(r)
             u == O!user(r)
  <1>1. /\ x4[r].state = "running" /\ x4[r].todo # <<>> /\ call = Head(x4[r].todo)
        /\ u = UserOf[x4[r].session] /\ u \in Users
        /\ call.op = "createOrganization" /\ x1[call.org] # {}
        /\ call.org \in Shared \/ (x4[r].rescue /\ call.org = u)
    BY NextCall DEF O!SlugTaken, OwnCalls
  <1>2. x4' = [x4 EXCEPT ![r] = new] /\ UNCHANGED <<x1, x2, x3, x5>>
    BY DEF O!SlugTaken
  <1>3. exists \in BOOLEAN /\ (exists <=> u \in x1[u])
    BY DEF O!Personal
  <1> HIDE DEF exists, call, u
  <1>4. /\ new \in O!ServedRequests /\ new.view = x4[r].view /\ new.session = x4[r].session
        /\ new.todo \in Seq(OwnCalls(new.rescue, UserOf[new.session], new.view.org))
        /\ new.state = "running" \/ (new.state = "thrown" /\ new.todo = x4[r].todo)
        /\ x4[r].rescue /\ exists => new.state = "running"
    BY <1>1, <1>3, RescuedFits
  <1> HIDE DEF new
  <1>5. x1[u] \subseteq {u} /\ RequestFits(x4[r]) /\ x5 \in Nat
    BY <1>1, OrganizationFacts
  <1>6. call.org \in Shared \/ (x4[r].rescue /\ exists)
    BY <1>1, <1>3, <1>5
  <1>7. new.state = "thrown" => call.org \in Shared /\ new.todo = x4[r].todo
    BY <1>4, <1>6
  <1>8. RequestFits(new)
    BY <1>1, <1>4, <1>5, <1>7 DEF RequestFits
  <1> QED
    BY <1>2, <1>4, <1>5, <1>8, RequestGoesOn

LEMMA CallFails ==
  ASSUME O!OrganizationsInv, NEW r \in Requests, O!Fails(r)
  PROVE  O!OrganizationsInv'
  <1> DEFINE exists == O!Personal(O!user(r))
             half == O!Rescued(x4[r], exists)
             new == [half EXCEPT !.fault = TRUE]
  <1>1. x4[r].state = "running" /\ RequestFits(x4[r]) /\ x5 \in Nat
    BY OrganizationFacts DEF O!Fails
  <1>2. x4' = [x4 EXCEPT ![r] = new] /\ UNCHANGED <<x1, x2, x3, x5>>
    BY DEF O!Fails
  <1>3. exists \in BOOLEAN
    BY DEF O!Personal
  <1> HIDE DEF exists
  <1>4. /\ half \in O!ServedRequests /\ half.view = x4[r].view
        /\ half.session = x4[r].session
        /\ half.todo \in Seq(OwnCalls(half.rescue, UserOf[half.session], half.view.org))
    BY <1>1, <1>3, RescuedFits
  <1> HIDE DEF half
  <1>5. /\ new \in O!ServedRequests /\ new.view = half.view /\ new.session = half.session
        /\ new.todo = half.todo /\ new.rescue = half.rescue /\ new.fault = TRUE
        /\ new.state = half.state
    BY <1>4 DEF O!ServedRequests
  <1> HIDE DEF new
  <1>6. RequestFits(new)
    BY <1>1, <1>4, <1>5, OrganizationFacts DEF RequestFits, O!Fails
  <1> QED
    BY <1>1, <1>2, <1>5, <1>6, RequestGoesOn

\* getOrganizationWorkspace
LEMMA OrganizationIsRead ==
  ASSUME O!OrganizationsInv, NEW r \in Requests, O!ReadOrganizations(r)
  PROVE  O!OrganizationsInv'
  <1> DEFINE o == x4[r].read.org
             todo == <<O!Call("listTeams", o, NoValue)>>
             seen == [x4[r].view EXCEPT !.org = o]
             new == [x4[r] EXCEPT !.view = seen, !.todo = todo]
  <1>1. /\ x4[r].state = "running" /\ x4[r].todo # <<>> /\ x4[r] \in O!ServedRequests
        /\ RequestFits(x4[r]) /\ UNCHANGED <<x1, x2, x3, x5>> /\ x5 \in Nat
    BY NextCall, OrganizationFacts DEF O!ReadOrganizations
  <1>2. CASE o \notin O!ListOrganizations(O!user(r))
    BY <1>1, <1>2, OrganizationFacts, CallDone DEF O!ReadOrganizations
  <1>3. CASE o \in O!ListOrganizations(O!user(r))
    <2>1. o \in O!Organizations /\ o # NoValue
      BY <1>3, OrganizationFacts DEF O!ListOrganizations, O!Organizations
    <2>2. /\ O!Call("listTeams", o, NoValue) \in O!Calling
          /\ O!Call("listTeams", o, NoValue).op = "listTeams"
      BY <2>1 DEF O!Call, O!Calling
    <2>3. O!Call("listTeams", o, NoValue) \in OwnCalls(x4[r].rescue, UserOf[x4[r].session], o)
      BY <2>1, <2>2 DEF OwnCalls
    <2>4. todo \in Seq(O!Calling) /\ todo \in Seq(OwnCalls(x4[r].rescue, UserOf[x4[r].session], o))
      BY <2>2, <2>3
    <2>5. /\ seen \in O!Views /\ seen.org = o /\ seen.team = x4[r].view.team
          /\ seen.teams = x4[r].view.teams
      BY <1>1, <2>1 DEF O!ServedRequests, O!Views
    <2>6. x4' = [x4 EXCEPT ![r] = new]
      <3>1. x4' = [x4 EXCEPT ![r].view.org = o, ![r].todo = todo]
        BY <1>3 DEF O!ReadOrganizations
      <3> HIDE DEF todo, o
      <3> QED
        BY <1>1, <3>1, OrganizationFacts DEF O!ServedRequests
    <2> HIDE DEF todo, seen, o
    <2>7. /\ new \in O!ServedRequests /\ new.view = seen /\ new.todo = todo
          /\ new.state = x4[r].state /\ new.session = x4[r].session
          /\ new.rescue = x4[r].rescue
      BY <1>1, <2>4, <2>5 DEF O!ServedRequests
    <2> HIDE DEF new
    <2>8. RequestFits(new)
      BY <1>1, <2>1, <2>4, <2>5, <2>7 DEF RequestFits
    <2> QED
      BY <1>1, <2>6, <2>7, <2>8, RequestGoesOn
  <1> QED
    BY <1>2, <1>3

LEMMA TeamsAreRead ==
  ASSUME O!OrganizationsInv, NEW r \in Requests, O!ReadTeams(r)
  PROVE  O!OrganizationsInv'
  <1> DEFINE call == O!Next1(r)
             offered == O!TeamsOf(call.org)
             team == O!ActiveTeam(r, offered)
             todo == IF team = NoValue THEN <<>> ELSE <<O!Call("listTeamMembers", call.org, team)>>
             seen == [x4[r].view EXCEPT !.teams = offered, !.team = team]
             new == [x4[r] EXCEPT !.view = seen, !.todo = todo]
  <1>1. /\ x4[r].state = "running" /\ x4[r].todo # <<>> /\ x4[r] \in O!ServedRequests
        /\ RequestFits(x4[r]) /\ UNCHANGED <<x1, x2, x3, x5>> /\ x5 \in Nat
        /\ call \in O!Calling /\ x4[r].view.org # NoValue
    BY NextCall, OrganizationFacts DEF O!ReadTeams, OwnCalls
  <1>2. offered \in SUBSET Teams /\ (team = NoValue \/ team \in offered)
    BY DEF O!TeamsOf, O!ActiveTeam
  <1>3. /\ todo \in Seq(O!Calling)
        /\ todo \in Seq(OwnCalls(x4[r].rescue, UserOf[x4[r].session], x4[r].view.org))
    <2>1. call.org \in O!Organizations \union {NoValue} /\ team \in Teams \union {NoValue}
      BY <1>1, <1>2 DEF O!Calling
    <2> HIDE DEF team, call
    <2>2. /\ O!Call("listTeamMembers", call.org, team) \in O!Calling
          /\ O!Call("listTeamMembers", call.org, team) \in
               OwnCalls(x4[r].rescue, UserOf[x4[r].session], x4[r].view.org)
      BY <2>1, PlainCall
    <2>3. CASE team = NoValue
      BY <2>3
    <2>4. CASE team # NoValue
      <3>1. todo = <<O!Call("listTeamMembers", call.org, team)>>
        BY <2>4
      <3> DEFINE e == O!Call("listTeamMembers", call.org, team)
      <3>2. todo = <<e>> /\ e \in O!Calling
            /\ e \in OwnCalls(x4[r].rescue, UserOf[x4[r].session], x4[r].view.org)
        BY <2>2, <3>1
      <3> HIDE DEF todo, e
      <3> QED
        BY <3>2
    <2> QED
      BY <2>3, <2>4
  <1>4. x4' = [x4 EXCEPT ![r] = new]
    <2>1. x4' = [x4 EXCEPT ![r].view = seen, ![r].todo = todo]
      BY Zenon DEF O!ReadTeams
    <2> HIDE DEF offered, team, todo, seen
    <2>2. x4 \in [Requests -> O!ServedRequests]
      BY OrganizationFacts
    <2> QED
      BY <1>1, <2>1, <2>2 DEF O!ServedRequests
  <1> HIDE DEF call, offered, team, todo
  <1>5. seen \in O!Views /\ seen.teams = offered /\ seen.team = team /\ seen.org = x4[r].view.org
    BY <1>1, <1>2 DEF O!ServedRequests, O!Views
  <1> HIDE DEF seen
  <1>6. /\ new \in O!ServedRequests /\ new.view = seen /\ new.todo = todo
        /\ new.state = x4[r].state /\ new.session = x4[r].session
        /\ new.rescue = x4[r].rescue
    BY <1>1, <1>3, <1>5 DEF O!ServedRequests
  <1> HIDE DEF new
  <1>7. RequestFits(new)
    BY <1>1, <1>2, <1>3, <1>5, <1>6 DEF RequestFits
  <1> QED
    BY <1>1, <1>4, <1>6, <1>7, RequestGoesOn

LEMMA RequestAnswered ==
  ASSUME O!OrganizationsInv, NEW r \in Requests, O!Answer(r)
  PROVE  O!OrganizationsInv'
  <1>1. /\ O!NoContext \in O!Contexts /\ O!NoView \in O!Views
        /\ <<>> \in Seq(O!Calling) /\ {} \in SUBSET Teams
    BY DEF O!NoContext, O!Contexts, O!NoView, O!Views
  <1>2. /\ O!Free \in O!ServedRequests /\ O!Free.state = "free" /\ O!Free.todo = <<>>
        /\ O!Free.view.team = NoValue
    BY <1>1 DEF O!Free, O!ServedRequests, O!NoView
  <1>3. <<>> \in Seq(OwnCalls(O!Free.rescue, UserOf[O!Free.session], O!Free.view.org))
    OBVIOUS
  <1>4. RequestFits(O!Free)
    BY <1>2, <1>3 DEF RequestFits
  <1>5. x4' = [x4 EXCEPT ![r] = O!Free] /\ UNCHANGED <<x1, x2, x3, x5>> /\ x5 \in Nat
    BY OrganizationFacts DEF O!Answer
  <1> QED
    BY <1>2, <1>4, <1>5, RequestGoesOn

(* Whatever the requests of several users and tabs call, in whatever order, *)
(* and whichever call fails: the team that a page shows is one of the       *)
(* organization it shows, and of the first pages of a user none is an error *)
(* because another one made the personal workspace (personal-workspace.ts,  *)
(* organizations.remote.ts).                                                *)
THEOREM WorkspacesStayAgreed == PartsSpec => []WorkspacesAgree
  <1> DEFINE Inv == part = "organizations" => O!OrganizationsInv
  <1>1. PartsInit => Inv
    BY OrganizationsInit DEF PartsInit, InitCloud, InitOrganizations, InitTerminal,
       InitConnection, InitChildren, InitView
  <1>2. Inv /\ [PartsNext]_partsVars => Inv'
    <2> SUFFICES ASSUME Inv, [PartsNext]_partsVars, part' = "organizations" PROVE O!OrganizationsInv'
      OBVIOUS
    <2>1. part = "organizations"
      BY DEF PartsNext, partsVars, OfCloud, OfOrganizations, OfTerminal, OfConnection, OfChildren, OfView
    <2>2. CASE UNCHANGED partsVars
      BY <2>1, <2>2 DEF partsVars, O!OrganizationsInv, O!TypeOK, O!PersonalIsPersonal,
         O!CallsAreItsOwn, O!ShownTeamIsOfOrganization, O!FirstPagesAgree
    <2>3. CASE PartsNext
      <3>1. O!Next
        BY <2>1, <2>3 DEF PartsNext, OfCloud, OfOrganizations, OfTerminal,
           OfConnection, OfChildren, OfView
      <3>2. PICK r \in Requests :
              \/ \E s \in Logins : O!Begin(r, s)
              \/ O!SetActiveOrganization(r) \/ O!SetActiveTeam(r) \/ O!Join(r)
              \/ O!RemoveMember(r) \/ O!NewTeam(r) \/ O!RemoveTeam(r)
              \/ O!EnsureWorkspace(r) \/ O!SlugTaken(r) \/ O!Fails(r)
              \/ O!ReadOrganizations(r) \/ O!ReadTeams(r) \/ O!ReadTeamMembers(r)
              \/ O!Answer(r)
        BY <3>1 DEF O!Next
      <3> QED
        BY <2>1, <3>2, RequestBegins, CallsChangeData, UserJoins, WorkspaceEnsured,
           SlugIsTaken, CallFails, OrganizationIsRead, TeamsAreRead, RequestAnswered
    <2> QED
      BY <2>2, <2>3
  <1>3. Inv => WorkspacesAgree
    BY DEF WorkspacesAgree, O!OrganizationsInv
  <1> QED
    BY <1>1, <1>2, <1>3, PTL DEF PartsSpec

-----------------------------------------------------------------------------
(* The sandbox and its backups.                                            *)

\* What is on the disk, in the bucket, and known of it.
SandboxData ==
    /\ x1 \in B!Disks /\ x2 \in Paths \union {NoValue}
    /\ x3 \in B!Backups \union {NoValue} /\ x4 \in B!Records \union {NoValue}
    /\ x7 \in Nat /\ x8 \in Nat /\ x9 \in Nat
    /\ x11 \in BOOLEAN /\ x12 \subseteq 1 .. x7 /\ x13 \subseteq Nat
    /\ x2 # NoValue => x10 \subseteq x1.done
    /\ x10 = B!Stored /\ x1.done \subseteq 1 .. x7 /\ x10 \subseteq 1 .. x7
    /\ x1.done \intersect x12 = {} /\ x10 \intersect x12 = {}
    /\ x4 # NoValue /\ x4.recent => x11 /\ x3 # NoValue

\* A turn is in the backup, reset, or at risk.
AtRisk ==
    \A n \in 1 .. x7 :
      \/ n \in x12 \/ n \in x10 \/ n \in x13
      \/ \E t \in Copies : x6[t].turn = n

StartFits(handler, done, backup, kept) ==
    /\ handler.pc # "idle" => handler.want \in Paths
    /\ handler.pc \in {"clean", "prepare"} => backup = NoValue /\ kept = {}
    /\ handler.pc = "restore" => handler.stored = backup /\ backup # NoValue
    /\ handler.pc \in {"remember", "boot", "wait"} => kept \subseteq done

BackupFits(work, done, backup, kept, recent) ==
    /\ work.pc # "idle" => kept \subseteq done
    /\ work.pc \in {"auto", "mark", "copy"} => work.turn \in done \union {0}
    /\ work.pc = "store" => work.files.done = done /\ work.turn \in done \union {0}
    /\ work.pc = "note" => recent /\ backup # NoValue /\ work.turn \in kept \union {0}
    /\ work.pc = "idle" => work.turn = 0

LEMMA SandboxFacts ==
  ASSUME B!SandboxInv
  PROVE  /\ SandboxData /\ AtRisk
         /\ x5 \in [Starts -> B!StartHandlers] /\ x6 \in [Copies -> B!BackupTasks]
         /\ B!OneAtATime
         /\ \A s \in Starts : StartFits(x5[s], x1.done, x3, x10)
         /\ \A t \in Copies : BackupFits(x6[t], x1.done, x3, x10, x11)
         /\ NoValue \notin B!Backups /\ Repo \in Paths /\ NoValue \notin Paths
  <1>1. /\ B!TypeOK /\ B!OneAtATime /\ B!StartsFromTheBackup /\ B!CopiesAreWhole
        /\ B!BackupIsOfTheSaved /\ B!SavedSurvives /\ B!ResetForgets /\ B!SkippedOnlyWhenSaved
    BY DEF B!SandboxInv
  <1>2. SandboxData
    BY <1>1 DEF B!TypeOK, B!CopiesAreWhole, B!BackupIsOfTheSaved, B!ResetForgets,
       B!SkippedOnlyWhenSaved, SandboxData, B!Stored
  <1>3. AtRisk
    BY <1>1 DEF B!BackupIsOfTheSaved, AtRisk
  <1>4. \A s \in Starts : StartFits(x5[s], x1.done, x3, x10)
    BY <1>1 DEF B!StartsFromTheBackup, StartFits
  <1>5. \A t \in Copies : BackupFits(x6[t], x1.done, x3, x10, x11)
    BY <1>1 DEF B!CopiesAreWhole, B!BackupIsOfTheSaved, BackupFits
  <1> QED
    BY <1>1, <1>2, <1>3, <1>4, <1>5, ConstantsAssumption DEF B!TypeOK, B!Assumptions

LEMMA SandboxIs ==
  ASSUME SandboxData, AtRisk,
         x5 \in [Starts -> B!StartHandlers], x6 \in [Copies -> B!BackupTasks], B!OneAtATime,
         \A s \in Starts : StartFits(x5[s], x1.done, x3, x10),
         \A t \in Copies : BackupFits(x6[t], x1.done, x3, x10, x11)
  PROVE  B!SandboxInv
  <1>1. B!TypeOK
    BY DEF SandboxData, B!TypeOK
  <1>2. B!StartsFromTheBackup
    BY DEF StartFits, B!StartsFromTheBackup
  <1>3. B!CopiesAreWhole
    BY DEF BackupFits, SandboxData, B!CopiesAreWhole
  <1>4. B!BackupIsOfTheSaved
    BY DEF AtRisk, SandboxData, B!BackupIsOfTheSaved
  <1>5. B!SavedSurvives /\ B!ResetForgets /\ B!SkippedOnlyWhenSaved
    BY DEF SandboxData, B!SavedSurvives, B!ResetForgets, B!SkippedOnlyWhenSaved, B!Stored
  <1> QED
    BY <1>1, <1>2, <1>3, <1>4, <1>5 DEF B!SandboxInv

LEMMA SandboxStep ==
  ASSUME SandboxData', AtRisk',
         x5' \in [Starts -> B!StartHandlers], x6' \in [Copies -> B!BackupTasks], B!OneAtATime',
         \A s \in Starts : StartFits(x5'[s], x1'.done, x3', x10'),
         \A t \in Copies : BackupFits(x6'[t], x1'.done, x3', x10', x11')
  PROVE  B!SandboxInv'
  <1>1. B!TypeOK'
    BY DEF SandboxData, B!TypeOK
  <1>2. B!StartsFromTheBackup'
    BY DEF StartFits, B!StartsFromTheBackup
  <1>3. B!CopiesAreWhole'
    BY DEF BackupFits, SandboxData, B!CopiesAreWhole
  <1>4. B!BackupIsOfTheSaved'
    BY DEF AtRisk, SandboxData, B!BackupIsOfTheSaved
  <1>5. B!SavedSurvives' /\ B!ResetForgets' /\ B!SkippedOnlyWhenSaved'
    BY DEF SandboxData, B!SavedSurvives, B!ResetForgets, B!SkippedOnlyWhenSaved, B!Stored
  <1> QED
    BY <1>1, <1>2, <1>3, <1>4, <1>5 DEF B!SandboxInv

\* A start that has no backup beside it goes on.
LEMMA StartStep ==
  ASSUME B!SandboxInv, NEW s \in Starts, NEW new \in B!StartHandlers,
         x5[s].pc \notin {"idle", "boot", "wait"} \/ B!Quiet,
         x5' = [x5 EXCEPT ![s] = new], x6' = x6, SandboxData', AtRisk',
         StartFits(new, x1'.done, x3', x10')
  PROVE  B!SandboxInv'
  <1>1. /\ x5 \in [Starts -> B!StartHandlers] /\ x6 \in [Copies -> B!BackupTasks]
        /\ B!OneAtATime /\ \A t \in Copies : BackupFits(x6[t], x1.done, x3, x10, x11)
    BY SandboxFacts
  <1>2. /\ \A r \in Starts : r # s => x5[r].pc = "idle"
        /\ \A t \in Copies : x6[t].pc = "idle"
    BY <1>1 DEF B!OneAtATime, B!Quiet
  <1>3. /\ x5' \in [Starts -> B!StartHandlers] /\ x5'[s] = new
        /\ \A r \in Starts : r # s => x5'[r] = x5[r]
    BY <1>1
  <1>4. B!OneAtATime'
    BY <1>2, <1>3 DEF B!OneAtATime
  <1>5. \A r \in Starts : StartFits(x5'[r], x1'.done, x3', x10')
    BY <1>2, <1>3 DEF StartFits
  <1>6. \A t \in Copies : BackupFits(x6'[t], x1'.done, x3', x10', x11')
    BY <1>1, <1>2 DEF BackupFits
  <1> QED
    BY <1>1, <1>3, <1>4, <1>5, <1>6, SandboxStep

\* A start is ready, or fails, while a backup may be made.
LEMMA StartEnds ==
  ASSUME B!SandboxInv, NEW s \in Starts, NEW new \in B!StartHandlers,
         x5[s].pc # "idle", new.pc \in {"idle", "wait"},
         new.pc = "wait" => x5[s].pc = "boot" /\ new.want = x5[s].want,
         x5' = [x5 EXCEPT ![s] = new], x6' = x6, SandboxData', AtRisk',
         UNCHANGED <<x1, x3, x10, x11>>
  PROVE  B!SandboxInv'
  <1>1. /\ x5 \in [Starts -> B!StartHandlers] /\ x6 \in [Copies -> B!BackupTasks]
        /\ B!OneAtATime /\ \A t \in Copies : BackupFits(x6[t], x1.done, x3, x10, x11)
        /\ \A r \in Starts : StartFits(x5[r], x1.done, x3, x10)
    BY SandboxFacts
  <1>2. \A r \in Starts : r # s => x5[r].pc = "idle"
    BY <1>1 DEF B!OneAtATime
  <1>3. /\ x5' \in [Starts -> B!StartHandlers] /\ x5'[s] = new
        /\ \A r \in Starts : r # s => x5'[r] = x5[r]
    BY <1>1
  <1>4. B!OneAtATime'
    BY <1>1, <1>2, <1>3 DEF B!OneAtATime
  <1>5. \A r \in Starts : StartFits(x5'[r], x1'.done, x3', x10')
    BY <1>1, <1>2, <1>3 DEF StartFits
  <1>6. \A t \in Copies : BackupFits(x6'[t], x1'.done, x3', x10', x11')
    BY <1>1
  <1> QED
    BY <1>1, <1>3, <1>4, <1>5, <1>6, SandboxStep

\* A backup goes on, or begins when nothing is under way.
LEMMA TaskStep ==
  ASSUME B!SandboxInv, NEW t \in Copies, NEW new \in B!BackupTasks,
         x6[t].pc # "idle" \/ B!Quiet,
         x6' = [x6 EXCEPT ![t] = new], x5' = x5, SandboxData', AtRisk',
         x1'.done = x1.done \/ B!Quiet, x10' \subseteq x1'.done,
         BackupFits(new, x1'.done, x3', x10', x11')
  PROVE  B!SandboxInv'
  <1>1. /\ x5 \in [Starts -> B!StartHandlers] /\ x6 \in [Copies -> B!BackupTasks]
        /\ B!OneAtATime /\ \A u \in Copies : BackupFits(x6[u], x1.done, x3, x10, x11)
        /\ \A s \in Starts : StartFits(x5[s], x1.done, x3, x10)
    BY SandboxFacts
  <1>2. /\ \A u \in Copies : u # t => x6[u].pc = "idle"
        /\ \A s \in Starts : x5[s].pc \in {"idle", "boot", "wait"}
    BY <1>1 DEF B!OneAtATime, B!Quiet
  <1>3. /\ x6' \in [Copies -> B!BackupTasks] /\ x6'[t] = new
        /\ \A u \in Copies : u # t => x6'[u] = x6[u]
    BY <1>1
  <1>4. B!OneAtATime'
    BY <1>1, <1>2, <1>3 DEF B!OneAtATime
  <1>5. \A s \in Starts : StartFits(x5'[s], x1'.done, x3', x10')
    BY <1>1, <1>2 DEF StartFits
  <1>6. \A u \in Copies : BackupFits(x6'[u], x1'.done, x3', x10', x11')
    BY <1>1, <1>2, <1>3 DEF BackupFits
  <1> QED
    BY <1>1, <1>3, <1>4, <1>5, <1>6, SandboxStep

\* The world changes while nothing is under way.
LEMMA QuietStep ==
  ASSUME B!SandboxInv, B!Quiet, UNCHANGED <<x5, x6>>, SandboxData', AtRisk'
  PROVE  B!SandboxInv'
  <1>1. /\ x5 \in [Starts -> B!StartHandlers] /\ x6 \in [Copies -> B!BackupTasks]
        /\ B!OneAtATime /\ \A u \in Copies : BackupFits(x6[u], x1.done, x3, x10, x11)
    BY SandboxFacts
  <1>2. /\ \A s \in Starts : StartFits(x5'[s], x1'.done, x3', x10')
        /\ \A t \in Copies : BackupFits(x6'[t], x1'.done, x3', x10', x11')
        /\ B!OneAtATime'
    BY <1>1 DEF B!Quiet, StartFits, BackupFits, B!OneAtATime
  <1> QED
    BY <1>1, <1>2, SandboxStep

LEMMA EmptyDisk == B!Empty \in B!Disks /\ B!Empty.done = {} /\ B!NoStart \in B!StartHandlers
                   /\ B!NoStart.pc = "idle" /\ B!NoTask \in B!BackupTasks
                   /\ B!NoTask.pc = "idle" /\ B!NoTask.turn = 0
  <1>1. {} \in SUBSET Nat /\ {} \in SUBSET Paths
    OBVIOUS
  <1>2. B!Empty \in B!Disks /\ B!Empty.done = {}
    BY <1>1 DEF B!Empty, B!Disks
  <1>3. B!NoStart \in B!StartHandlers /\ B!NoStart.pc = "idle"
    BY DEF B!NoStart, B!StartHandlers
  <1>4. B!NoTask \in B!BackupTasks /\ B!NoTask.pc = "idle" /\ B!NoTask.turn = 0
    BY <1>2 DEF B!NoTask, B!BackupTasks
  <1> QED
    BY <1>2, <1>3, <1>4

LEMMA SandboxInit == ASSUME B!Init PROVE B!SandboxInv
  <1>1. /\ x1 = B!Empty /\ x2 = NoValue /\ x3 = NoValue /\ x4 = NoValue
        /\ x5 = [s \in Starts |-> B!NoStart] /\ x6 = [t \in Copies |-> B!NoTask]
        /\ x7 = 0 /\ x8 = 0 /\ x9 = 0 /\ x10 = {} /\ x11 = FALSE /\ x12 = {} /\ x13 = {}
    BY DEF B!Init
  <1>2. SandboxData
    BY <1>1, EmptyDisk DEF SandboxData, B!Stored
  <1>3. AtRisk
    BY <1>1 DEF AtRisk
  <1>4. x5 \in [Starts -> B!StartHandlers] /\ x6 \in [Copies -> B!BackupTasks] /\ B!OneAtATime
    BY <1>1, EmptyDisk DEF B!OneAtATime
  <1>5. /\ \A s \in Starts : StartFits(x5[s], x1.done, x3, x10)
        /\ \A t \in Copies : BackupFits(x6[t], x1.done, x3, x10, x11)
    BY <1>1, EmptyDisk DEF StartFits, BackupFits
  <1> QED
    BY <1>2, <1>3, <1>4, <1>5, SandboxIs

\* A handler that gets to pc.
LEMMA HandlerGoesOn ==
  ASSUME B!SandboxInv, NEW s \in Starts,
         NEW pc \in {"idle", "check", "fast", "clear", "clean", "fetch", "restore", "prepare",
                     "remember", "boot", "wait"}, B!Step(s, pc)
  PROVE  \E new \in B!StartHandlers : new.pc = pc /\ x5' = [x5 EXCEPT ![s] = new]
                                      /\ new.want = x5[s].want
  <1> DEFINE new == [x5[s] EXCEPT !.pc = pc]
  <1>1. x5 \in [Starts -> B!StartHandlers] /\ x5[s] \in B!StartHandlers
    BY SandboxFacts
  <1>2. new \in B!StartHandlers /\ new.pc = pc /\ new.want = x5[s].want
    BY <1>1 DEF B!StartHandlers
  <1>3. x5' = [x5 EXCEPT ![s] = new]
    BY <1>1 DEF B!Step
  <1> QED
    BY <1>2, <1>3

LEMMA SandboxSame ==
  ASSUME B!SandboxInv, UNCHANGED <<x1, x2, x3, x4, x7, x10, x11, x12, x13>>, x8' \in Nat,
         x9' \in Nat
  PROVE  SandboxData'
  BY SandboxFacts DEF SandboxData, B!Stored

LEMMA RiskSame ==
  ASSUME B!SandboxInv, UNCHANGED <<x6, x7, x10, x12, x13>>
  PROVE  AtRisk'
  BY SandboxFacts DEF AtRisk

\* The steps of a start that only look.
LEMMA StartLooks ==
  ASSUME B!SandboxInv, NEW s \in Starts,
         B!Begin(s) \/ B!CheckReady(s) \/ B!FastResume(s) \/ B!FetchBackup(s) \/ B!Ready(s)
           \/ B!StartFails(s)
  PROVE  B!SandboxInv'
  <1>0. x8 \in Nat /\ x9 \in Nat
    BY SandboxFacts DEF SandboxData
  <1>1. /\ UNCHANGED <<x1, x2, x3, x4, x6, x7, x10, x11, x12, x13>>
        /\ x8' \in Nat /\ x9' \in Nat
    <2>1. CASE B!Begin(s)
      <3>1. x8' = x8 + 1 /\ UNCHANGED <<x1, x2, B!bucket, x6, x7, x9, B!history>>
        BY <2>1, Zenon DEF B!Begin
      <3> QED
        BY <1>0, <3>1 DEF B!bucket, B!history
    <2>3. CASE B!StartFails(s)
      BY <1>0, <2>3 DEF B!StartFails, B!bucket, B!history
    <2>2. CASE B!CheckReady(s) \/ B!FastResume(s) \/ B!FetchBackup(s) \/ B!Ready(s)
      BY <1>0, <2>2 DEF B!CheckReady, B!FastResume, B!FetchBackup, B!Ready, B!bucket,
         B!counts, B!history
    <2> QED
      BY <2>1, <2>2, <2>3
  <1>2. SandboxData' /\ AtRisk'
    BY <1>1, SandboxSame, RiskSame
  <1>3. /\ x5 \in [Starts -> B!StartHandlers] /\ x5[s] \in B!StartHandlers
        /\ StartFits(x5[s], x1.done, x3, x10)
    BY SandboxFacts
  <1>4. CASE B!Begin(s)
    <2>1. PICK want \in Paths, reset \in BOOLEAN :
            x5' = [x5 EXCEPT ![s] = [B!NoStart EXCEPT !.pc = "check", !.want = want,
                                                      !.reset = reset]]
      BY <1>4 DEF B!Begin
    <2> DEFINE new == [B!NoStart EXCEPT !.pc = "check", !.want = want, !.reset = reset]
    <2>2. new \in B!StartHandlers /\ new.pc = "check" /\ new.want = want
      BY DEF B!NoStart, B!StartHandlers
    <2>3. x5' = [x5 EXCEPT ![s] = new]
      BY <2>1
    <2> HIDE DEF new
    <2>4. B!Quiet
      BY <1>4 DEF B!Begin, B!MayCome
    <2>5. StartFits(new, x1'.done, x3', x10')
      BY <2>2 DEF StartFits
    <2> QED
      BY <1>1, <1>2, <2>2, <2>3, <2>4, <2>5, StartStep
  <1>5. CASE B!CheckReady(s)
    <2> DEFINE pc == IF x5[s].reset THEN "clear" ELSE IF x2 # NoValue THEN "fast" ELSE "fetch"
    <2>1. B!Step(s, pc) /\ x5[s].pc = "check"
      BY <1>5 DEF B!CheckReady
    <2>2. pc \in {"clear", "fast", "fetch"}
      OBVIOUS
    <2> HIDE DEF pc
    <2>3. PICK new \in B!StartHandlers : /\ new.pc = pc /\ x5' = [x5 EXCEPT ![s] = new]
                                          /\ new.want = x5[s].want
      BY <2>1, <2>2, HandlerGoesOn
    <2>4. StartFits(new, x1'.done, x3', x10')
      BY <1>3, <2>1, <2>2, <2>3 DEF StartFits
    <2> QED
      BY <1>1, <1>2, <2>1, <2>3, <2>4, StartStep
  <1>6. CASE B!FastResume(s)
    <2> DEFINE new == IF B!WorkspacePath = x5[s].want THEN B!NoStart
                      ELSE [x5[s] EXCEPT !.pc = "fetch"]
    <2>1. x5' = [x5 EXCEPT ![s] = new] /\ x5[s].pc = "fast"
      BY <1>3, <1>6 DEF B!FastResume
    <2>2. /\ new \in B!StartHandlers /\ new.pc \in {"idle", "fetch"}
          /\ new.pc = "idle" \/ new.want = x5[s].want
      BY <1>3, EmptyDisk DEF B!StartHandlers
    <2> HIDE DEF new
    <2>3. StartFits(new, x1'.done, x3', x10')
      BY <1>3, <2>1, <2>2 DEF StartFits
    <2> QED
      BY <1>1, <1>2, <2>1, <2>2, <2>3, StartStep
  <1>7. CASE B!FetchBackup(s)
    <2> DEFINE pc == IF x3 = NoValue THEN "prepare" ELSE "restore"
               new == [x5[s] EXCEPT !.pc = pc, !.stored = x3]
    <2>1. x5' = [x5 EXCEPT ![s] = new] /\ x5[s].pc = "fetch"
      BY <1>3, <1>7 DEF B!FetchBackup
    <2>2. /\ pc \in {"prepare", "restore"}
          /\ x3 \in B!Backups \union {NoValue} /\ x10 = B!Stored
      BY SandboxFacts DEF SandboxData
    <2>3. pc = "prepare" => x3 = NoValue /\ x10 = {}
      BY <2>2 DEF B!Stored
    <2>4. pc = "restore" => x3 # NoValue
      OBVIOUS
    <2> HIDE DEF pc
    <2>5. /\ new \in B!StartHandlers /\ new.pc = pc /\ new.stored = x3
          /\ new.want = x5[s].want
      BY <1>3, <2>2 DEF B!StartHandlers
    <2> HIDE DEF new
    <2>6. StartFits(new, x1'.done, x3', x10')
      BY <1>1, <1>3, <2>1, <2>2, <2>3, <2>4, <2>5 DEF StartFits
    <2> QED
      BY <1>1, <1>2, <2>1, <2>5, <2>6, StartStep
  <1>8. CASE B!Ready(s) \/ B!StartFails(s)
    <2>1. x5[s].pc # "idle" /\ x5' = [x5 EXCEPT ![s] = B!NoStart]
      BY <1>8 DEF B!Ready, B!StartFails
    <2> QED
      BY <1>1, <1>2, <2>1, EmptyDisk, StartEnds
  <1> QED
    BY <1>4, <1>5, <1>6, <1>7, <1>8

\* The steps of a start that change the disk, the bucket or the server.
LEMMA StartWorks ==
  ASSUME B!SandboxInv, NEW s \in Starts,
         B!ClearBackup(s) \/ B!CleanWorkspace(s) \/ B!RestoreBackup(s) \/ B!PrepareWorkspace(s)
           \/ B!Bootstrap(s)
  PROVE  B!SandboxInv'
  <1>1. /\ SandboxData /\ AtRisk /\ NoValue \notin B!Backups /\ NoValue \notin Paths
        /\ x5 \in [Starts -> B!StartHandlers] /\ x5[s] \in B!StartHandlers
        /\ StartFits(x5[s], x1.done, x3, x10) /\ x7 \in Nat
    BY SandboxFacts DEF SandboxData
  <1>2. CASE B!ClearBackup(s)
    <2>1. /\ x5[s].pc = "clear" /\ B!Step(s, "clean") /\ x3' = NoValue /\ x4' = NoValue
          /\ x10' = {} /\ x11' = FALSE /\ x13' = 1 .. x7
          /\ UNCHANGED <<x1, x2, x6, x7, x8, x9, x12>>
      BY <1>2 DEF B!ClearBackup, B!counts
    <2>2. SandboxData'
      <3>1. 1 .. x7 \subseteq Nat /\ {} \subseteq 1 .. x7
        BY <1>1
      <3> QED
        BY <1>1, <2>1, <3>1 DEF SandboxData, B!Stored
    <2>3. AtRisk'
      BY <2>1 DEF AtRisk
    <2>4. PICK new \in B!StartHandlers : /\ new.pc = "clean" /\ x5' = [x5 EXCEPT ![s] = new]
                                          /\ new.want = x5[s].want
      BY <2>1, HandlerGoesOn
    <2>5. StartFits(new, x1'.done, x3', x10')
      BY <1>1, <2>1, <2>4 DEF StartFits
    <2> QED
      BY <2>1, <2>2, <2>3, <2>4, <2>5, StartStep
  <1>3. CASE B!CleanWorkspace(s)
    <2>1. /\ x5[s].pc = "clean" /\ B!Step(s, "prepare") /\ x1' = B!Empty /\ x2' = NoValue
          /\ x12' = 1 .. x7 /\ UNCHANGED <<x3, x4, x6, x7, x8, x9, x10, x11, x13>>
      BY <1>3 DEF B!CleanWorkspace, B!counts, B!bucket
    <2>2. x3 = NoValue /\ x10 = {}
      BY <1>1, <2>1 DEF StartFits
    <2>3. SandboxData'
      BY <1>1, <2>1, <2>2, EmptyDisk DEF SandboxData, B!Stored
    <2>4. AtRisk'
      BY <2>1 DEF AtRisk
    <2>5. PICK new \in B!StartHandlers : /\ new.pc = "prepare" /\ x5' = [x5 EXCEPT ![s] = new]
                                          /\ new.want = x5[s].want
      BY <2>1, HandlerGoesOn
    <2>6. StartFits(new, x1'.done, x3', x10')
      BY <1>1, <2>1, <2>2, <2>5 DEF StartFits
    <2> QED
      BY <2>1, <2>3, <2>4, <2>5, <2>6, StartStep
  <1>4. CASE B!RestoreBackup(s)
    <2> DEFINE path == x5[s].stored.path
               new == [x5[s] EXCEPT !.pc = "remember", !.path = path]
    <2>1. /\ x5[s].pc = "restore"
          /\ x1' = [x5[s].stored.files EXCEPT !.path = path]
          /\ x5' = [x5 EXCEPT ![s] = new]
          /\ UNCHANGED <<x2, x3, x4, x6, x7, x8, x9, x10, x11, x12, x13>>
      BY <1>1, <1>4 DEF B!RestoreBackup, B!counts, B!bucket, B!history
    <2>2. x5[s].stored = x3 /\ x3 \in B!Backups /\ x10 = x3.files.done
      BY <1>1, <2>1 DEF StartFits, SandboxData, B!Stored
    <2>3. path \in Paths \union {NoValue} /\ x3.files \in B!Disks
      BY <2>2 DEF B!Backups
    <2> HIDE DEF path
    <2>4. x1' \in B!Disks /\ x1'.done = x10
      BY <2>1, <2>2, <2>3 DEF B!Disks
    <2>5. new \in B!StartHandlers /\ new.pc = "remember" /\ new.want = x5[s].want
      BY <1>1, <2>3 DEF B!StartHandlers
    <2> HIDE DEF new
    <2>6. SandboxData'
      BY <1>1, <2>1, <2>4 DEF SandboxData, B!Stored
    <2>7. AtRisk'
      BY <2>1, RiskSame
    <2>8. StartFits(new, x1'.done, x3', x10')
      BY <1>1, <2>1, <2>4, <2>5 DEF StartFits
    <2> QED
      BY <2>1, <2>5, <2>6, <2>7, <2>8, StartStep
  <1>5. CASE B!PrepareWorkspace(s)
    <2> DEFINE want == x5[s].want
               new == [x5[s] EXCEPT !.pc = "remember", !.path = want]
    <2>1. /\ x5[s].pc = "prepare"
          /\ x1' = [x1 EXCEPT !.dirs = @ \cup {want}, !.path = want]
          /\ x5' = [x5 EXCEPT ![s] = new]
          /\ UNCHANGED <<x2, x3, x4, x6, x7, x8, x9, x10, x11, x12, x13>>
      BY <1>1, <1>5 DEF B!PrepareWorkspace, B!counts, B!bucket, B!history
    <2>2. x3 = NoValue /\ x10 = {}
      BY <1>1, <2>1 DEF StartFits
    <2>3. want \in Paths
      BY <1>1, <2>1 DEF StartFits
    <2> HIDE DEF want
    <2>4. x1' \in B!Disks /\ x1'.done = x1.done
      BY <1>1, <2>1, <2>3 DEF B!Disks, SandboxData
    <2>5. new \in B!StartHandlers /\ new.pc = "remember" /\ new.want = x5[s].want
      BY <1>1, <2>3 DEF B!StartHandlers
    <2> HIDE DEF new
    <2>6. SandboxData'
      BY <1>1, <2>1, <2>4 DEF SandboxData, B!Stored
    <2>7. AtRisk'
      BY <2>1, RiskSame
    <2>8. StartFits(new, x1'.done, x3', x10')
      BY <1>1, <2>1, <2>2, <2>5 DEF StartFits
    <2> QED
      BY <2>1, <2>5, <2>6, <2>7, <2>8, StartStep
  <1>6. CASE B!Bootstrap(s)
    <2>1. /\ x5[s].pc = "boot" /\ B!Step(s, "wait")
          /\ x2' = IF x2 = NoValue THEN x5[s].path ELSE x2
          /\ UNCHANGED <<x1, x3, x4, x6, x7, x8, x9, x10, x11, x12, x13>>
      BY <1>6 DEF B!Bootstrap, B!counts, B!bucket, B!history
    <2>2. x2' \in Paths \union {NoValue} /\ x10 \subseteq x1.done
      BY <1>1, <2>1 DEF B!StartHandlers, SandboxData, StartFits
    <2>3. SandboxData'
      BY <1>1, <2>1, <2>2 DEF SandboxData, B!Stored
    <2>4. AtRisk'
      BY <2>1, RiskSame
    <2>5. PICK new \in B!StartHandlers : /\ new.pc = "wait" /\ x5' = [x5 EXCEPT ![s] = new]
                                          /\ new.want = x5[s].want
      BY <2>1, HandlerGoesOn
    <2> QED
      BY <2>1, <2>3, <2>4, <2>5, StartEnds
  <1> QED
    BY <1>2, <1>3, <1>4, <1>5, <1>6

\* rememberWorkspaceState
LEMMA PathIsNoted ==
  ASSUME B!SandboxInv, NEW path \in Paths \union {NoValue}
  PROVE  /\ B!WithPath(path) \in B!Records
         /\ B!WithPath(path).recent => x11 /\ x3 # NoValue
  <1> DEFINE recent == x4 # NoValue /\ x4.recent
  <1>1. recent => x11 /\ x3 # NoValue
    BY SandboxFacts DEF SandboxData
  <1>2. recent \in BOOLEAN
    OBVIOUS
  <1>3. B!WithPath(path) = [path |-> path, recent |-> recent]
    BY DEF B!WithPath
  <1> HIDE DEF recent
  <1>4. [path |-> path, recent |-> recent] \in B!Records
    BY <1>2, Zenon DEF B!Records
  <1>5. [path |-> path, recent |-> recent].recent = recent
    BY Zenon
  <1> QED
    BY <1>1, <1>3, <1>4, <1>5

\* A backup that is launched.
LEMMA TaskLaunched ==
  ASSUME NEW path \in Paths \union {NoValue}, NEW turn \in Nat, NEW pc \in {"auto", "mark"}
  PROVE  LET new == [B!NoTask EXCEPT !.pc = pc, !.path = path, !.turn = turn]
         IN  new \in B!BackupTasks /\ new.pc = pc /\ new.turn = turn
  BY EmptyDisk DEF B!NoTask, B!BackupTasks

LEMMA StartRemembers ==
  ASSUME B!SandboxInv, NEW s \in Starts, B!Remember(s)
  PROVE  B!SandboxInv'
  <1>1. /\ SandboxData /\ AtRisk /\ NoValue \notin B!Backups
        /\ x5 \in [Starts -> B!StartHandlers] /\ x6 \in [Copies -> B!BackupTasks]
        /\ x5[s] \in B!StartHandlers /\ x5[s].path \in Paths \union {NoValue}
        /\ StartFits(x5[s], x1.done, x3, x10) /\ B!OneAtATime
        /\ \A t \in Copies : BackupFits(x6[t], x1.done, x3, x10, x11)
    BY SandboxFacts DEF B!StartHandlers
  <1>2. /\ x5[s].pc = "remember" /\ B!Step(s, "boot") /\ x4' = B!WithPath(x5[s].path)
        /\ UNCHANGED <<x1, x2, x3, x7, x8, x9, x10, x11, x12, x13>>
    BY DEF B!Remember, B!counts, B!history
  <1>3. SandboxData'
    BY <1>1, <1>2, PathIsNoted DEF SandboxData, B!Stored
  <1>4. PICK new \in B!StartHandlers : /\ new.pc = "boot" /\ x5' = [x5 EXCEPT ![s] = new]
                                        /\ new.want = x5[s].want
    BY <1>2, HandlerGoesOn
  <1>5. StartFits(new, x1'.done, x3', x10')
    BY <1>1, <1>2, <1>4 DEF StartFits
  <1>6. /\ \A r \in Starts : r # s => x5[r].pc = "idle"
        /\ \A t \in Copies : x6[t].pc = "idle"
    BY <1>1, <1>2 DEF B!OneAtATime
  <1>7. /\ x5' \in [Starts -> B!StartHandlers] /\ x5'[s] = new
        /\ \A r \in Starts : r # s => x5'[r] = x5[r]
    BY <1>1, <1>4
  <1>8. \A r \in Starts : StartFits(x5'[r], x1'.done, x3', x10')
    BY <1>5, <1>6, <1>7 DEF StartFits
  <1>9. CASE x6' = x6
    <2>1. B!OneAtATime'
      BY <1>6, <1>7, <1>9 DEF B!OneAtATime
    <2>2. \A t \in Copies : BackupFits(x6'[t], x1'.done, x3', x10', x11')
      BY <1>1, <1>2, <1>9
    <2>3. AtRisk'
      BY <1>2, <1>9, RiskSame
    <2> QED
      BY <1>1, <1>3, <1>7, <1>8, <1>9, <2>1, <2>2, <2>3, SandboxStep
  <1>10. CASE B!Launch(x5[s].path, 0, "mark")
    <2> DEFINE work == [B!NoTask EXCEPT !.pc = "mark", !.path = x5[s].path, !.turn = 0]
    <2>1. PICK t \in Copies : x6[t].pc = "idle" /\ x6' = [x6 EXCEPT ![t] = work]
      BY <1>10 DEF B!Launch
    <2>2. work \in B!BackupTasks /\ work.pc = "mark" /\ work.turn = 0
      BY <1>1, TaskLaunched
    <2> HIDE DEF work
    <2>3. /\ x6' \in [Copies -> B!BackupTasks] /\ x6'[t] = work
          /\ \A u \in Copies : u # t => x6'[u] = x6[u]
      BY <1>1, <2>1, <2>2
    <2>4. B!OneAtATime'
      BY <1>4, <1>6, <1>7, <2>3 DEF B!OneAtATime
    <2>5. x10 \subseteq x1.done
      BY <1>1, <1>2 DEF StartFits
    <2>6. BackupFits(work, x1'.done, x3', x10', x11')
      BY <1>2, <2>2, <2>5 DEF BackupFits
    <2>7. \A u \in Copies : BackupFits(x6'[u], x1'.done, x3', x10', x11')
      BY <1>1, <1>2, <2>3, <2>6
    <2>8. AtRisk'
      <3> SUFFICES ASSUME NEW n \in 1 .. x7'
                   PROVE  n \in x12' \/ n \in x10' \/ n \in x13' \/ \E u \in Copies : x6'[u].turn = n
        BY DEF AtRisk
      <3>1. x6[t].turn = 0
        BY <1>1, <2>1 DEF BackupFits
      <3>2. n \in 1 .. x7 /\ n # 0
        BY <1>1, <1>2 DEF SandboxData
      <3> QED
        BY <1>1, <1>2, <2>3, <3>1, <3>2 DEF AtRisk
    <2> QED
      BY <1>1, <1>3, <1>7, <1>8, <2>3, <2>4, <2>7, <2>8, SandboxStep
  <1> QED
    BY <1>9, <1>10 DEF B!Remember

\* The turn of a task that goes on is as much at risk as it was.
LEMMA RiskOfTask ==
  ASSUME B!SandboxInv, NEW t \in Copies, NEW new \in B!BackupTasks,
         x6' = [x6 EXCEPT ![t] = new], UNCHANGED <<x7, x12>>,
         x10 \subseteq x10', x13 \subseteq x13',
         new.turn = x6[t].turn \/ x6[t].turn \in x13' \union x10' \union {0}
  PROVE  AtRisk'
  <1>1. AtRisk /\ x6 \in [Copies -> B!BackupTasks] /\ x7 \in Nat
    BY SandboxFacts DEF SandboxData
  <1>2. x6'[t] = new /\ \A u \in Copies : u # t => x6'[u] = x6[u]
    BY <1>1
  <1> SUFFICES ASSUME NEW n \in 1 .. x7'
               PROVE  n \in x12' \/ n \in x10' \/ n \in x13' \/ \E u \in Copies : x6'[u].turn = n
    BY DEF AtRisk
  <1>3. n \in 1 .. x7 /\ n # 0
    BY <1>1
  <1>4. CASE n \in x12 \/ n \in x10 \/ n \in x13
    BY <1>4
  <1>5. CASE \E u \in Copies : x6[u].turn = n
    BY <1>2, <1>3, <1>5
  <1> QED
    BY <1>1, <1>3, <1>4, <1>5 DEF AtRisk

LEMMA TaskWorks ==
  ASSUME B!SandboxInv, NEW t \in Copies, B!TaskNext(t)
  PROVE  B!SandboxInv'
  <1>1. /\ SandboxData /\ NoValue \notin B!Backups /\ Repo \in Paths
        /\ x6 \in [Copies -> B!BackupTasks] /\ x6[t] \in B!BackupTasks
        /\ BackupFits(x6[t], x1.done, x3, x10, x11) /\ x7 \in Nat
        /\ x1 \in B!Disks /\ x8 \in Nat /\ x9 \in Nat
    BY SandboxFacts DEF SandboxData
  <1>2. x6[t].pc # "idle" /\ x5' = x5
    BY DEF B!TaskNext, B!AutoBackup, B!Mark, B!Copy, B!Store, B!Note, B!TaskFails
  <1>3. x10 \subseteq x1.done
    BY <1>1, <1>2 DEF BackupFits
  <1>4. CASE B!TaskFails(t) \/ (B!AutoBackup(t) /\ x4 # NoValue /\ x4.recent)
    <2>1. /\ x6' = [x6 EXCEPT ![t] = B!NoTask] /\ x13' = x13 \union {x6[t].turn}
          /\ UNCHANGED <<x1, x2, x3, x4, x7, x8, x10, x11, x12>> /\ x9' \in Nat
      BY <1>1, <1>4 DEF B!TaskFails, B!AutoBackup, B!bucket, B!counts
    <2>2. x13' \subseteq Nat
      BY <1>1, <2>1 DEF SandboxData, B!BackupTasks
    <2>3. SandboxData'
      BY <1>1, <2>1, <2>2 DEF SandboxData, B!Stored
    <2>4. AtRisk'
      BY <2>1, EmptyDisk, RiskOfTask
    <2>5. BackupFits(B!NoTask, x1'.done, x3', x10', x11')
      BY EmptyDisk DEF BackupFits
    <2> QED
      BY <1>2, <1>3, <2>1, <2>3, <2>4, <2>5, EmptyDisk, TaskStep
  <1>5. ASSUME NEW path \in Paths \union {NoValue}, B!AutoBackup(t), B!Begun(t, path),
               x4' = x4 \/ x4' = B!WithPath(path), x13' = x13
        PROVE  B!SandboxInv'
    <2> DEFINE new == [x6[t] EXCEPT !.pc = "mark", !.path = path]
    <2>1. /\ x6' = [x6 EXCEPT ![t] = new] /\ x6[t].pc = "auto"
          /\ UNCHANGED <<x1, x2, x3, x7, x8, x9, x10, x11, x12>>
      BY <1>1, <1>5 DEF B!AutoBackup, B!Begun, B!counts
    <2>2. new \in B!BackupTasks /\ new.pc = "mark" /\ new.turn = x6[t].turn
      BY <1>1 DEF B!BackupTasks
    <2> HIDE DEF new
    <2>3. SandboxData'
      BY <1>1, <1>5, <2>1, PathIsNoted DEF SandboxData, B!Stored
    <2>4. AtRisk'
      BY <1>5, <2>1, <2>2, RiskOfTask
    <2>5. BackupFits(new, x1'.done, x3', x10', x11')
      BY <1>1, <1>3, <2>1, <2>2 DEF BackupFits
    <2> QED
      BY <1>2, <1>3, <2>1, <2>2, <2>3, <2>4, <2>5, TaskStep
  <1>6. CASE B!AutoBackup(t)
    <2>1. B!WorkspacePath \in Paths \union {NoValue}
      BY <1>1 DEF B!WorkspacePath, B!Disks
    <2>2. x4 # NoValue => x4.path \in Paths \union {NoValue}
      BY <1>1 DEF SandboxData, B!Records
    <2> QED
      BY <1>4, <1>5, <1>6, <2>1, <2>2 DEF B!AutoBackup
  <1>7. CASE B!Mark(t)
    <2> DEFINE path == x6[t].path
               new == [x6[t] EXCEPT !.pc = "copy"]
    <2>1. /\ x6[t].pc = "mark" /\ x1' = [x1 EXCEPT !.path = path]
          /\ x6' = [x6 EXCEPT ![t] = new]
          /\ UNCHANGED <<x2, x3, x4, x7, x8, x9, x10, x11, x12, x13>>
      BY <1>1, <1>7 DEF B!Mark, B!bucket, B!counts, B!history
    <2>2. path \in Paths \union {NoValue}
      BY <1>1 DEF B!BackupTasks
    <2> HIDE DEF path
    <2>3. x1' \in B!Disks /\ x1'.done = x1.done
      BY <1>1, <2>1, <2>2 DEF B!Disks
    <2>4. new \in B!BackupTasks /\ new.pc = "copy" /\ new.turn = x6[t].turn
      BY <1>1 DEF B!BackupTasks
    <2> HIDE DEF new
    <2>5. SandboxData'
      BY <1>1, <2>1, <2>3 DEF SandboxData, B!Stored
    <2>6. AtRisk'
      BY <2>1, <2>4, RiskOfTask
    <2>7. BackupFits(new, x1'.done, x3', x10', x11')
      BY <1>1, <1>3, <2>1, <2>3, <2>4 DEF BackupFits
    <2> QED
      BY <1>2, <1>3, <2>1, <2>3, <2>4, <2>5, <2>6, <2>7, TaskStep
  <1>8. CASE B!Copy(t)
    <2> DEFINE new == [x6[t] EXCEPT !.pc = "store", !.files = x1]
    <2>1. /\ x6[t].pc = "copy" /\ x6' = [x6 EXCEPT ![t] = new]
          /\ UNCHANGED <<x1, x2, x3, x4, x7, x8, x9, x10, x11, x12, x13>>
      BY <1>1, <1>8 DEF B!Copy, B!bucket, B!counts, B!history
    <2>2. /\ new \in B!BackupTasks /\ new.pc = "store" /\ new.turn = x6[t].turn
          /\ new.files = x1
      BY <1>1 DEF B!BackupTasks
    <2> HIDE DEF new
    <2>3. SandboxData'
      BY <1>1, <2>1, SandboxSame
    <2>4. AtRisk'
      BY <2>1, <2>2, RiskOfTask
    <2>5. BackupFits(new, x1'.done, x3', x10', x11')
      BY <1>1, <1>3, <2>1, <2>2 DEF BackupFits
    <2> QED
      BY <1>2, <1>3, <2>1, <2>2, <2>3, <2>4, <2>5, TaskStep
  <1>9. CASE B!Store(t)
    <2> DEFINE new == [x6[t] EXCEPT !.pc = "note"]
               backup == [files |-> x6[t].files, path |-> x6[t].path]
    <2>1. /\ x6[t].pc = "store" /\ x6' = [x6 EXCEPT ![t] = new] /\ x3' = backup
          /\ x10' = x10 \union x6[t].files.done /\ x11' = TRUE
          /\ UNCHANGED <<x1, x2, x4, x7, x8, x9, x12, x13>>
      BY <1>1, <1>9 DEF B!Store, B!counts
    <2>2. /\ new \in B!BackupTasks /\ new.pc = "note" /\ new.turn = x6[t].turn
          /\ backup \in B!Backups /\ backup.files = x6[t].files
      BY <1>1 DEF B!BackupTasks, B!Backups
    <2> HIDE DEF new, backup
    <2>3. x10' = x1.done /\ x10' = B!Stored' /\ x3' # NoValue
      BY <1>1, <1>3, <2>1, <2>2 DEF BackupFits, B!Stored
    <2>4. SandboxData'
      BY <1>1, <2>1, <2>2, <2>3 DEF SandboxData
    <2>5. AtRisk'
      BY <2>1, <2>2, RiskOfTask
    <2>6. BackupFits(new, x1'.done, x3', x10', x11')
      BY <1>1, <2>1, <2>2, <2>3 DEF BackupFits
    <2> QED
      BY <1>2, <2>1, <2>2, <2>3, <2>4, <2>5, <2>6, TaskStep
  <1>10. CASE B!Note(t)
    <2>1. /\ x6[t].pc = "note" /\ x6' = [x6 EXCEPT ![t] = B!NoTask]
          /\ x4' = [path |-> x6[t].path, recent |-> TRUE]
          /\ UNCHANGED <<x1, x2, x3, x7, x8, x9, x10, x11, x12, x13>>
      BY <1>10 DEF B!Note, B!counts, B!history
    <2>2. x4' \in B!Records /\ x11 /\ x3 # NoValue /\ x6[t].turn \in x10 \union {0}
      BY <1>1, <2>1 DEF B!Records, B!BackupTasks, BackupFits
    <2>3. SandboxData'
      BY <1>1, <2>1, <2>2 DEF SandboxData, B!Stored
    <2>4. AtRisk'
      BY <2>1, <2>2, EmptyDisk, RiskOfTask
    <2>5. BackupFits(B!NoTask, x1'.done, x3', x10', x11')
      BY EmptyDisk DEF BackupFits
    <2> QED
      BY <1>2, <1>3, <2>1, <2>3, <2>4, <2>5, EmptyDisk, TaskStep
  <1> QED
    BY <1>4, <1>6, <1>7, <1>8, <1>9, <1>10 DEF B!TaskNext

\* POST /backup launches a backup of the disk.
LEMMA BackupByHand == ASSUME B!SandboxInv, B!ManualBackup PROVE B!SandboxInv'
  <1>1. /\ SandboxData /\ x6 \in [Copies -> B!BackupTasks] /\ x1 \in B!Disks
        /\ Repo \in Paths /\ \A t \in Copies : BackupFits(x6[t], x1.done, x3, x10, x11)
        /\ x8 \in Nat /\ x9 \in Nat
    BY SandboxFacts DEF SandboxData
  <1>2. /\ B!Quiet /\ x2 # NoValue /\ x4' = B!WithPath(B!WorkspacePath)
        /\ B!Launch(B!WorkspacePath, 0, "mark")
        /\ UNCHANGED <<x1, x2, x3, x5, x7, x8, x9, x10, x11, x12, x13>>
    BY DEF B!ManualBackup, B!MayCome, B!counts, B!history
  <1>3. B!WorkspacePath \in Paths \union {NoValue}
    BY <1>1 DEF B!WorkspacePath, B!Disks
  <1>4. SandboxData'
    BY <1>1, <1>2, <1>3, PathIsNoted DEF SandboxData, B!Stored
  <1> DEFINE work == [B!NoTask EXCEPT !.pc = "mark", !.path = B!WorkspacePath, !.turn = 0]
  <1>5. PICK t \in Copies : x6[t].pc = "idle" /\ x6' = [x6 EXCEPT ![t] = work]
    BY <1>2 DEF B!Launch
  <1>6. work \in B!BackupTasks /\ work.pc = "mark" /\ work.turn = 0
    BY <1>3, TaskLaunched
  <1> HIDE DEF work
  <1>7. x6[t].turn = 0
    BY <1>1, <1>5 DEF BackupFits
  <1>8. AtRisk'
    BY <1>2, <1>5, <1>6, <1>7, RiskOfTask
  <1>9. x10' \subseteq x1'.done
    BY <1>1, <1>2 DEF SandboxData
  <1>10. BackupFits(work, x1'.done, x3', x10', x11')
    BY <1>6, <1>9 DEF BackupFits
  <1> QED
    BY <1>2, <1>4, <1>5, <1>6, <1>8, <1>9, <1>10, TaskStep

\* A turn through /connect puts its work on the disk, and is at risk until its
\* backup is stored.
LEMMA TurnWorks == ASSUME B!SandboxInv, B!Turn PROVE B!SandboxInv'
  <1>1. /\ SandboxData /\ AtRisk /\ x6 \in [Copies -> B!BackupTasks] /\ x1 \in B!Disks
        /\ \A t \in Copies : BackupFits(x6[t], x1.done, x3, x10, x11)
        /\ x7 \in Nat /\ x8 \in Nat /\ x9 \in Nat
    BY SandboxFacts DEF SandboxData
  <1>2. /\ B!Quiet /\ x2 # NoValue /\ x7' = x7 + 1
        /\ x1' = [x1 EXCEPT !.done = @ \cup {x7 + 1}]
        /\ UNCHANGED <<x2, x3, x4, x5, x8, x9, x10, x11, x12>>
    BY DEF B!Turn, B!MayCome, B!bucket
  <1>3. \/ B!Launch(NoValue, x7 + 1, "auto") /\ x13' = x13
        \/ x6' = x6 /\ x13' = x13 \union {x7 + 1}
    BY DEF B!Turn, B!AfterResponse
  <1>4. x1' \in B!Disks /\ x1'.done = x1.done \union {x7 + 1}
    BY <1>1, <1>2 DEF B!Disks
  <1>5. 1 .. x7' = (1 .. x7) \union {x7 + 1} /\ x7 + 1 \in Nat /\ x7 + 1 \notin 1 .. x7
    BY <1>1, <1>2
  <1>6. x13' \subseteq Nat
    BY <1>1, <1>3, <1>5 DEF SandboxData
  <1>7. SandboxData'
    BY <1>1, <1>2, <1>4, <1>5, <1>6 DEF SandboxData, B!Stored
  <1>8. x10' \subseteq x1'.done
    BY <1>1, <1>2, <1>4 DEF SandboxData
  <1>9. CASE x6' = x6 /\ x13' = x13 \union {x7 + 1}
    <2>1. AtRisk'
      BY <1>1, <1>2, <1>5, <1>9 DEF AtRisk
    <2> QED
      BY <1>2, <1>7, <1>9, <2>1, QuietStep
  <1>10. CASE B!Launch(NoValue, x7 + 1, "auto") /\ x13' = x13
    <2> DEFINE work == [B!NoTask EXCEPT !.pc = "auto", !.path = NoValue, !.turn = x7 + 1]
    <2>1. PICK t \in Copies : x6[t].pc = "idle" /\ x6' = [x6 EXCEPT ![t] = work]
      BY <1>10 DEF B!Launch
    <2>2. work \in B!BackupTasks /\ work.pc = "auto" /\ work.turn = x7 + 1
      BY <1>5, TaskLaunched
    <2> HIDE DEF work
    <2>3. /\ x6'[t] = work /\ x6[t].turn = 0
          /\ \A u \in Copies : u # t => x6'[u] = x6[u]
      BY <1>1, <2>1 DEF BackupFits
    <2>4. AtRisk'
      <3> SUFFICES ASSUME NEW n \in 1 .. x7'
                   PROVE  n \in x12' \/ n \in x10' \/ n \in x13' \/ \E u \in Copies : x6'[u].turn = n
        BY DEF AtRisk
      <3>1. CASE n = x7 + 1
        BY <2>2, <2>3, <3>1
      <3>2. CASE n \in 1 .. x7
        <4>1. n # 0
          BY <3>2
        <4> QED
          BY <1>1, <1>2, <1>10, <2>3, <3>2, <4>1 DEF AtRisk
      <3> QED
        BY <1>5, <3>1, <3>2
    <2>5. BackupFits(work, x1'.done, x3', x10', x11')
      BY <1>4, <1>8, <2>2 DEF BackupFits
    <2> QED
      BY <1>2, <1>7, <1>8, <2>1, <2>2, <2>4, <2>5, TaskStep
  <1> QED
    BY <1>3, <1>9, <1>10

\* The container stops, its server exits, or five minutes pass.
LEMMA WorldTurns ==
  ASSUME B!SandboxInv, B!Expire \/ B!ContainerStops \/ B!ServerExits
  PROVE  B!SandboxInv'
  <1>1. SandboxData /\ x8 \in Nat /\ x9 \in Nat
    BY SandboxFacts DEF SandboxData
  <1>2. CASE B!Expire
    <2>1. /\ B!Quiet /\ x4 # NoValue /\ x4' = [x4 EXCEPT !.recent = FALSE] /\ x11' = FALSE
          /\ UNCHANGED <<x1, x2, x3, x5, x6, x7, x8, x9, x10, x12, x13>>
      BY <1>2 DEF B!Expire, B!MayCome, B!requests, B!counts
    <2>2. x4' \in B!Records /\ ~x4'.recent
      BY <1>1, <2>1 DEF SandboxData, B!Records
    <2>3. SandboxData'
      BY <1>1, <2>1, <2>2 DEF SandboxData, B!Stored
    <2> QED
      BY <2>1, <2>3, RiskSame, QuietStep
  <1>3. CASE B!ContainerStops
    <2>1. /\ B!Quiet /\ x1' = B!Empty /\ x2' = NoValue /\ x9' = x9 + 1
          /\ UNCHANGED <<x3, x4, x5, x6, x7, x8, x10, x11, x12, x13>>
      BY <1>3 DEF B!ContainerStops, B!MayCome, B!requests, B!bucket, B!history
    <2>2. SandboxData'
      BY <1>1, <2>1, EmptyDisk DEF SandboxData, B!Stored
    <2> QED
      BY <2>1, <2>2, RiskSame, QuietStep
  <1>4. CASE B!ServerExits
    <2>1. /\ B!Quiet /\ x2' = NoValue /\ x9' = x9 + 1
          /\ UNCHANGED <<x1, x3, x4, x5, x6, x7, x8, x10, x11, x12, x13>>
      BY <1>4 DEF B!ServerExits, B!MayCome, B!requests, B!bucket, B!history
    <2>2. SandboxData'
      BY <1>1, <2>1 DEF SandboxData, B!Stored
    <2> QED
      BY <2>1, <2>2, RiskSame, QuietStep
  <1> QED
    BY <1>2, <1>3, <1>4

LEMMA SandboxNext == ASSUME B!SandboxInv, B!Next PROVE B!SandboxInv'
  <1>1. ASSUME NEW s \in Starts, B!StartNext(s) PROVE B!SandboxInv'
    BY <1>1, StartLooks, StartWorks, StartRemembers DEF B!StartNext
  <1> QED
    BY <1>1, TaskWorks, TurnWorks, BackupByHand, WorldTurns DEF B!Next

\* A turn that is in no backup, was not reset and is not on the disk is at risk.
LEMMA SandboxSafe ==
  ASSUME B!SandboxInv
  PROVE  B!SavedSurvives /\ B!ResetForgets /\ B!LossIsBounded /\ B!SkippedOnlyWhenSaved
  BY DEF B!SandboxInv, B!BackupIsOfTheSaved, B!LossIsBounded, B!Stored

(* The backups of a cloud sandbox are safe while its requests do not       *)
(* overlap: what was stored stays stored until a reset, a reset forgets    *)
(* all of it, work is lost only where a backup was skipped, failed or not  *)
(* due, and a backup is skipped only when one is fresh (/start, /backup    *)
(* and backupAfterProxy of chump-cloud/src/index.ts).                      *)
THEOREM BackupsStaySafe == PartsSpec => []BackupsAreSafe
  <1> DEFINE Inv == part = "cloud" => B!SandboxInv
  <1>1. PartsInit => Inv
    BY SandboxInit DEF PartsInit, InitCloud, InitOrganizations, InitTerminal,
       InitConnection, InitChildren, InitView
  <1>2. Inv /\ [PartsNext]_partsVars => Inv'
    <2> SUFFICES ASSUME Inv, [PartsNext]_partsVars, part' = "cloud" PROVE B!SandboxInv'
      OBVIOUS
    <2>1. part = "cloud"
      BY DEF PartsNext, partsVars, OfCloud, OfOrganizations, OfTerminal, OfConnection, OfChildren, OfView
    <2>2. CASE UNCHANGED partsVars
      <3>1. UNCHANGED <<x1, x2, x3, x4, x5, x6, x7, x8, x9, x10, x11, x12, x13>>
        BY <2>2 DEF partsVars
      <3>2. /\ x5 \in [Starts -> B!StartHandlers] /\ x6 \in [Copies -> B!BackupTasks]
            /\ B!OneAtATime /\ \A s \in Starts : StartFits(x5[s], x1.done, x3, x10)
            /\ \A t \in Copies : BackupFits(x6[t], x1.done, x3, x10, x11)
            /\ x8 \in Nat /\ x9 \in Nat
        BY <2>1, SandboxFacts DEF SandboxData
      <3>3. B!OneAtATime'
        BY <3>1, <3>2 DEF B!OneAtATime
      <3>4. SandboxData' /\ AtRisk'
        BY <2>1, <3>1, <3>2, SandboxSame, RiskSame
      <3> QED
        BY <3>1, <3>2, <3>3, <3>4, SandboxStep
    <2>3. CASE PartsNext
      <3>1. B!Next
        BY <2>1, <2>3 DEF PartsNext, OfCloud, OfOrganizations, OfTerminal,
           OfConnection, OfChildren, OfView
      <3> QED
        BY <2>1, <3>1, SandboxNext
    <2> QED
      BY <2>2, <2>3
  <1>3. Inv => BackupsAreSafe
    BY SandboxSafe DEF BackupsAreSafe
  <1> QED
    BY <1>1, <1>2, <1>3, PTL DEF PartsSpec

-----------------------------------------------------------------------------
(* The sub-agents of a turn, their sessions and their rows.                *)

\* Sets are finite, and counted, as in the module.
LEMMA Counts == ASSUME NEW T PROVE D!Cardinality(T) = Cardinality(T)
  BY DEF D!Cardinality, Cardinality

LEMMA CountOfOne == ASSUME NEW c PROVE D!Cardinality({c}) = 1
  BY Counts, FS_Singleton

LEMMA CallsAreFinite == ASSUME D!Assumptions PROVE IsFiniteSet(SubCalls)
  <1>1. D!IsFiniteSet(SubCalls) => IsFiniteSet(SubCalls)
    BY DEF D!IsFiniteSet, IsFiniteSet
  <1> QED
    BY <1>1 DEF D!Assumptions

\* What a step of the server may do to what is on the way to the page: a piece
\* of progress is lost, and events are added.
WireGrows ==
    /\ x8' \in Seq(D!Events) /\ Len(x8) <= Len(x8')
    /\ \A i \in DOMAIN x8 :
          x8'[i] = x8[i] \/ (x8[i].type = "progress" /\ x8'[i].type = "missed")

\* What an event on the way to the page can be.
LEMMA EventsAreOf ==
  ASSUME NEW e \in D!Events
  PROVE  /\ e.type \in {"progress", "finished", "result", "turn_status", "turn_error", "missed"}
         /\ e.type = "progress" => e.call \in SubCalls /\ e.what \in D!Reports
         /\ e.type = "turn_status" => e.what \in {"running", "idle"}
         /\ e.child \in D!Children \cup {NoValue}
  BY DEF D!Events

\* An event that is sent is the last one.
LEMMA WireAppend ==
  ASSUME x8 \in Seq(D!Events), NEW e \in D!Events, x8' = Append(x8, e)
  PROVE  /\ WireGrows /\ Len(x8') = Len(x8) + 1 /\ x8'[Len(x8) + 1] = e
         /\ \A i \in DOMAIN x8' : i \notin DOMAIN x8 => i = Len(x8) + 1
  BY DEF WireGrows

\* A connection that breaks loses progress and nothing else.
LEMMA WireReplayed ==
  ASSUME x8 \in Seq(D!Events), x8' = D!Replayed
  PROVE  WireGrows /\ Len(x8') = Len(x8)
  <1>1. D!Missed \in D!Events
    BY DEF D!Missed, D!Events
  <1>2. \A i \in 1..Len(x8) : x8'[i] \in D!Events
    BY <1>1 DEF D!Replayed, D!Durable
  <1>3. DOMAIN x8' = 1..Len(x8)
    BY DEF D!Replayed
  <1>4. x8' = [i \in 1..Len(x8) |-> x8'[i]]
    BY DEF D!Replayed
  <1>5. x8' \in Seq(D!Events)
    BY <1>2, <1>4
  <1>6. Len(x8') = Len(x8)
    BY <1>3, <1>5
  <1>7. \A i \in DOMAIN x8 :
          x8'[i] = x8[i] \/ (x8[i].type = "progress" /\ x8'[i].type = "missed")
    BY DEF D!Replayed, D!Durable, D!Missed
  <1> QED
    BY <1>5, <1>6, <1>7 DEF WireGrows

\* Nothing sent, nothing lost.
LEMMA WireSame ==
  ASSUME x8 \in Seq(D!Events), x8' = x8
  PROVE  WireGrows /\ Len(x8') = Len(x8)
  BY DEF WireGrows

\* No end of a turn appears among the events that were sent before.
LEMMA EndsKept ==
  ASSUME x8 \in Seq(D!Events), WireGrows, NEW m \in Nat, NEW n \in Nat, n <= Len(x8) + 1,
         D!NoEnd(m, n)
  PROVE  D!NoEnd(m, n)'
  <1> SUFFICES ASSUME NEW i \in DOMAIN x8', m < i, i < n
               PROVE  ~D!Ends(x8'[i])
    BY DEF D!NoEnd
  <1>1. i \in DOMAIN x8
    BY DEF WireGrows
  <1>2. ~D!Ends(x8[i])
    BY <1>1 DEF D!NoEnd
  <1> QED
    BY <1>1, <1>2 DEF WireGrows, D!Ends

\* That the page will be in a turn when it has read n events stays so.
LEMMA SendsKept ==
  ASSUME x8 \in Seq(D!Events), WireGrows, x10' = x10, NEW n \in Nat, n <= Len(x8) + 1,
         D!SendsBefore(n)
  PROVE  D!SendsBefore(n)'
  <1>1. CASE x10.sending /\ D!NoEnd(0, n)
    <2>1. D!NoEnd(0, n)'
      BY <1>1, EndsKept
    <2> QED
      BY <1>1, <2>1 DEF D!SendsBefore
  <1>2. CASE \E m \in DOMAIN x8 : m < n /\ D!Begins(x8[m]) /\ D!NoEnd(m, n)
    <2>1. PICK m \in DOMAIN x8 : m < n /\ D!Begins(x8[m]) /\ D!NoEnd(m, n)
      BY <1>2
    <2>2. m \in DOMAIN x8' /\ D!Begins(x8'[m]) /\ m \in Nat
      BY <2>1 DEF WireGrows, D!Begins
    <2>3. D!NoEnd(m, n)'
      BY <2>1, <2>2, EndsKept
    <2> QED
      BY <2>1, <2>2, <2>3 DEF D!SendsBefore
  <1> QED
    BY <1>1, <1>2 DEF D!SendsBefore

\* An event that is sent does not change it, unless it ends the turn.
LEMMA SendsAfterEvent ==
  ASSUME x8 \in Seq(D!Events), NEW e \in D!Events, x8' = Append(x8, e), x10' = x10, ~D!Ends(e),
         D!SendsBefore(Len(x8) + 1)
  PROVE  D!SendsBefore(Len(x8) + 1)'
  <1>1. /\ WireGrows /\ Len(x8') = Len(x8) + 1 /\ x8'[Len(x8) + 1] = e
        /\ Len(x8) \in Nat /\ x8' \in Seq(D!Events)
    BY WireAppend DEF WireGrows
  <1>2. PICK k \in Nat : k = Len(x8) + 1
    BY <1>1
  <1>3. ASSUME NEW m \in Nat, D!NoEnd(m, k)
        PROVE  D!NoEnd(m, k + 1)'
    <2> SUFFICES ASSUME NEW i \in DOMAIN x8', m < i, i < k + 1
                 PROVE  ~D!Ends(x8'[i])
      BY DEF D!NoEnd
    <2>1. CASE i = k
      BY <1>1, <1>2, <2>1
    <2>2. CASE i # k
      <3>1. i \in DOMAIN x8 /\ i < k
        BY <1>1, <1>2, <2>2
      <3>2. ~D!Ends(x8[i])
        BY <1>3, <3>1 DEF D!NoEnd
      <3> QED
        BY <3>1, <3>2, <1>1 DEF WireGrows, D!Ends
    <2> QED
      BY <2>1, <2>2
  <1>4. D!SendsBefore(k) /\ (Len(x8) + 1)' = k + 1
    BY <1>1, <1>2
  <1>5. D!SendsBefore(k + 1)'
    <2>1. CASE x10.sending /\ D!NoEnd(0, k)
      <3>1. D!NoEnd(0, k + 1)'
        BY <1>3, <2>1
      <3> QED
        BY <2>1, <3>1 DEF D!SendsBefore
    <2>2. CASE \E m \in DOMAIN x8 : m < k /\ D!Begins(x8[m]) /\ D!NoEnd(m, k)
      <3>1. PICK m \in DOMAIN x8 : m < k /\ D!Begins(x8[m]) /\ D!NoEnd(m, k)
        BY <2>2
      <3>2. m \in DOMAIN x8' /\ D!Begins(x8'[m]) /\ m \in Nat /\ m < k + 1
        BY <1>1, <3>1 DEF WireGrows, D!Begins
      <3>3. D!NoEnd(m, k + 1)'
        BY <1>3, <3>1, <3>2
      <3> QED
        BY <3>2, <3>3 DEF D!SendsBefore
    <2> QED
      BY <1>4, <2>1, <2>2 DEF D!SendsBefore
  <1> QED
    BY <1>4, <1>5

\* A row that an event will take away, or whose call is under way, stays one.
LEMMA GoesKept ==
  ASSUME x8 \in Seq(D!Events), WireGrows, NEW c \in SubCalls, NEW n \in Nat, n <= Len(x8),
         D!GoesAfter(n, c),
         D!Active(c) \/ x6 \/ x1.state = "aborting" =>
            \/ D!Active(c)' \/ x6' \/ x1'.state = "aborting"
            \/ \E i \in DOMAIN x8' : Len(x8) < i /\ D!Clears(x8'[i], c)
  PROVE  D!GoesAfter(n, c)'
  <1>1. CASE D!Active(c) \/ x6 \/ x1.state = "aborting"
    <2>1. CASE \E i \in DOMAIN x8' : Len(x8) < i /\ D!Clears(x8'[i], c)
      <3>1. PICK i \in DOMAIN x8' : Len(x8) < i /\ D!Clears(x8'[i], c)
        BY <2>1
      <3>2. n < i /\ i \in Nat
        BY <3>1 DEF WireGrows
      <3> QED
        BY <3>1, <3>2 DEF D!GoesAfter
    <2> QED
      BY <1>1, <2>1 DEF D!GoesAfter
  <1>2. CASE \E i \in DOMAIN x8 : n < i /\ D!Clears(x8[i], c)
    <2>1. PICK i \in DOMAIN x8 : n < i /\ D!Clears(x8[i], c)
      BY <1>2
    <2>2. i \in DOMAIN x8' /\ x8'[i] = x8[i]
      BY <2>1 DEF WireGrows, D!Clears, D!Ends
    <2>3. D!Clears(x8'[i], c)
      BY <2>1, <2>2
    <2> QED
      BY <2>1, <2>2, <2>3 DEF D!GoesAfter, D!Clears, D!Ends
  <1> QED
    BY <1>1, <1>2 DEF D!GoesAfter

\* A step of the server keeps what is so of the page.
LEMMA ServerKeepsPage ==
  ASSUME D!DataFits, D!PageFits, WireGrows, x10' = x10,
         \A c \in SubCalls : x2[c].announced =>
            x2'[c].announced /\ x2'[c].child = x2[c].child,
         \A c \in SubCalls : D!Active(c) \/ x6 \/ x1.state = "aborting" =>
            \/ D!Active(c)' \/ x6' \/ x1'.state = "aborting"
            \/ \E i \in DOMAIN x8' : Len(x8) < i /\ D!Clears(x8'[i], c),
         \A i \in DOMAIN x8' : Len(x8) < i /\ x8'[i].type = "progress" =>
            D!ProgressFits(i, x8[i])',
         x1'.state # "idle" => D!SendsBefore(Len(x8) + 1)'
  PROVE  D!PageFits'
  <1>0. x8 \in Seq(D!Events) /\ x8' \in Seq(D!Events)
    BY DEF D!DataFits, WireGrows
  <1>1. \A r \in x10.rows : D!RowFits(r)'
    <2> TAKE r \in x10.rows
    <2>1. /\ r.call \in SubCalls /\ r.child = x2[r.call].child /\ x2[r.call].announced
          /\ r.detail.args \in {NoValue, r.detail.tool} /\ D!GoesAfter(0, r.call)
      BY DEF D!PageFits, D!RowFits
    <2>2. D!GoesAfter(0, r.call)'
      BY <1>0, <2>1, GoesKept
    <2>3. x2'[r.call].announced /\ r.child = x2'[r.call].child
      BY <2>1
    <2> QED
      BY <2>1, <2>2, <2>3 DEF D!RowFits
  <1>2. ASSUME NEW i \in DOMAIN x8', x8'[i].type = "progress"
        PROVE  D!ProgressFits(i, x8[i])'
    <2>1. CASE Len(x8) < i
      BY <1>2, <2>1
    <2>2. CASE i <= Len(x8)
      <3>1. i \in DOMAIN x8 /\ x8'[i] = x8[i] /\ i \in Nat
        BY <1>0, <1>2, <2>2 DEF WireGrows
      <3>2. D!ProgressFits(i, x8[i]) /\ x8[i].call \in SubCalls
        BY <1>0, <1>2, <3>1, EventsAreOf DEF D!PageFits
      <3>3. D!GoesAfter(i, x8[i].call)'
        BY <1>0, <2>2, <3>1, <3>2, GoesKept DEF D!ProgressFits
      <3>4. D!SendsBefore(i)'
        BY <1>0, <2>2, <3>1, <3>2, SendsKept DEF D!ProgressFits
      <3>5. /\ x2'[x8[i].call].announced
            /\ x8[i].child = x2'[x8[i].call].child
        BY <3>2 DEF D!ProgressFits
      <3> QED
        BY <3>1, <3>3, <3>4, <3>5 DEF D!ProgressFits
    <2> QED
      BY <1>0, <2>1, <2>2
  <1> QED
    BY <1>1, <1>2 DEF D!PageFits

\* The page reads the first event; the others move up.
LEMMA WireRead ==
  ASSUME x8 \in Seq(D!Events), x8 # <<>>, x8' = Tail(x8)
  PROVE  /\ x8' \in Seq(D!Events) /\ Len(x8') = Len(x8) - 1
         /\ Head(x8) = x8[1] /\ x8[1] \in D!Events /\ 1 \in DOMAIN x8
         /\ \A i \in DOMAIN x8' : i \in Nat \ {0} /\ i + 1 \in DOMAIN x8 /\ x8'[i] = x8[i + 1]
         /\ \A i \in DOMAIN x8 : i > 1 =>
               i - 1 \in Nat \ {0} /\ i - 1 \in DOMAIN x8' /\ x8'[i - 1] = x8[i]
  OBVIOUS

\* What takes a row away is still to come when an event before it was read.
LEMMA GoesOn ==
  ASSUME x8 \in Seq(D!Events), x8 # <<>>, x8' = Tail(x8),
         x1' = x1, x2' = x2, x6' = x6, NEW c \in SubCalls, NEW n \in Nat,
         D!GoesAfter(n + 1, c)
  PROVE  D!GoesAfter(n, c)'
  <1>1. CASE D!Active(c) \/ x6 \/ x1.state = "aborting"
    BY <1>1 DEF D!GoesAfter, D!Active
  <1>2. CASE \E i \in DOMAIN x8 : n + 1 < i /\ D!Clears(x8[i], c)
    <2>1. PICK i \in DOMAIN x8 : n + 1 < i /\ D!Clears(x8[i], c)
      BY <1>2
    <2>2. i \in Nat /\ i > 1
      BY <2>1
    <2>3. i - 1 \in DOMAIN x8' /\ x8'[i - 1] = x8[i] /\ n < i - 1
      BY <2>1, <2>2, WireRead
    <2>4. \E j \in DOMAIN x8' : n < j /\ D!Clears(x8'[j], c)
      BY <2>1, <2>3
    <2> QED
      BY <2>4 DEF D!GoesAfter
  <1> QED
    BY <1>1, <1>2 DEF D!GoesAfter

\* The same for an event that does not take the row away.
LEMMA RowGoesOn ==
  ASSUME x8 \in Seq(D!Events), x8 # <<>>, x8' = Tail(x8),
         x1' = x1, x2' = x2, x6' = x6, NEW c \in SubCalls,
         D!GoesAfter(0, c), ~D!Clears(x8[1], c)
  PROVE  D!GoesAfter(0, c)'
  <1>1. D!GoesAfter(0 + 1, c)
    <2>1. \A i \in DOMAIN x8 : 0 < i /\ D!Clears(x8[i], c) => 0 + 1 < i
      OBVIOUS
    <2> QED
      BY <2>1 DEF D!GoesAfter
  <1> QED
    BY <1>1, GoesOn

\* The stretches without an end of the turn move up with the events.
LEMMA NoEndOn ==
  ASSUME x8 \in Seq(D!Events), x8 # <<>>, x8' = Tail(x8),
         NEW m \in Nat, NEW n \in Nat, D!NoEnd(m + 1, n + 1)
  PROVE  D!NoEnd(m, n)'
  <1> SUFFICES ASSUME NEW i \in DOMAIN x8', m < i, i < n
               PROVE  ~D!Ends(x8'[i])
    BY DEF D!NoEnd
  <1>1. i \in Nat /\ i + 1 \in DOMAIN x8 /\ x8'[i] = x8[i + 1]
    BY WireRead
  <1> QED
    BY <1>1 DEF D!NoEnd

\* That the page will be in a turn holds of the events that are left.
LEMMA SendsOn ==
  ASSUME x8 \in Seq(D!Events), x10.sending \in BOOLEAN, x8 # <<>>, x8' = Tail(x8),
         x10' = D!Handled(Head(x8)), NEW n \in Nat \ {0}, D!SendsBefore(n + 1)
  PROVE  D!SendsBefore(n)'
  <1>1. 1 \in DOMAIN x8 /\ x8[1] \in D!Events /\ Head(x8) = x8[1]
    BY WireRead
  <1>2. x10'.sending = IF x8[1].type = "turn_status" THEN x8[1].what = "running"
                       ELSE x10.sending
    BY <1>1 DEF D!Handled
  <1>3. CASE x10.sending /\ D!NoEnd(0, n + 1)
    <2>1. ~D!Ends(x8[1])
      BY <1>1, <1>3 DEF D!NoEnd
    <2>2. x10'.sending
      BY <1>1, <1>2, <1>3, <2>1, EventsAreOf DEF D!Ends
    <2>3. D!NoEnd(0 + 1, n + 1)
      BY <1>3 DEF D!NoEnd
    <2>4. D!NoEnd(0, n)'
      BY <2>3, NoEndOn
    <2> QED
      BY <2>2, <2>4 DEF D!SendsBefore
  <1>4. CASE \E m \in DOMAIN x8 : m < n + 1 /\ D!Begins(x8[m]) /\ D!NoEnd(m, n + 1)
    <2>1. PICK m \in DOMAIN x8 : m < n + 1 /\ D!Begins(x8[m]) /\ D!NoEnd(m, n + 1)
      BY <1>4
    <2>2. CASE m = 1
      <3>1. x10'.sending
        BY <1>2, <2>1, <2>2 DEF D!Begins
      <3>2. D!NoEnd(0 + 1, n + 1)
        BY <2>1, <2>2
      <3>3. D!NoEnd(0, n)'
        BY <3>2, NoEndOn
      <3> QED
        BY <3>1, <3>3 DEF D!SendsBefore
    <2>3. CASE m # 1
      <3>1. m > 1 /\ m \in Nat
        BY <2>1, <2>3
      <3>2. m - 1 \in DOMAIN x8' /\ x8'[m - 1] = x8[m] /\ m - 1 \in Nat /\ m - 1 < n
        BY <2>1, <3>1, WireRead
      <3>3. D!NoEnd((m - 1) + 1, n + 1)
        BY <2>1, <3>1
      <3>4. D!NoEnd(m - 1, n)'
        BY <3>2, <3>3, NoEndOn
      <3>5. PICK k \in DOMAIN x8' : k = m - 1 /\ D!Begins(x8'[k]) /\ k < n
        BY <2>1, <3>2
      <3>6. D!NoEnd(k, n)'
        BY <3>4, <3>5
      <3> QED
        BY <3>5, <3>6 DEF D!SendsBefore
    <2> QED
      BY <2>2, <2>3
  <1> QED
    BY <1>3, <1>4 DEF D!SendsBefore

\* The arguments a row shows are those of the tool it shows.
LEMMA DetailFits ==
  ASSUME NEW detail, detail.args \in {NoValue, detail.tool}, NEW what
  PROVE  D!Detail(detail, what).args \in {NoValue, D!Detail(detail, what).tool}
  BY DEF D!Detail, D!NoTool, D!DetailOfResult

\* The rows after an event was read.
LEMMA RowsRead ==
  ASSUME D!DataFits, D!PageFits, x8 # <<>>, x8' = Tail(x8), x10' = D!Handled(Head(x8)),
         x1' = x1, x2' = x2, x6' = x6
  PROVE  /\ x10'.rows # {} => x10'.sending
         /\ \A r, q \in x10'.rows : r.call = q.call => r = q
         /\ \A r \in x10'.rows : D!RowFits(r)'
  <1>1. PICK e \in D!Events : e = Head(x8) /\ e = x8[1]
    BY WireRead DEF D!DataFits
  <1>2. /\ x10'.sending = IF e.type = "turn_status" THEN e.what = "running" ELSE x10.sending
        /\ x10'.rows = D!RowsAfter(e)
    BY <1>1 DEF D!Handled
  <1>3. /\ 1 \in DOMAIN x8 /\ x8 \in Seq(D!Events) /\ x10.sending \in BOOLEAN
        /\ x10.rows # {} => x10.sending
        /\ \A r, q \in x10.rows : r.call = q.call => r = q
        /\ \A r \in x10.rows : D!RowFits(r)
    BY WireRead DEF D!DataFits, D!PageFits
  <1>4. \A r \in x10.rows : ~D!Clears(e, r.call) => D!RowFits(r)'
    BY <1>1, <1>3, RowGoesOn DEF D!RowFits
  <1>5. CASE e.type = "progress"
    <2>1. x10'.rows = D!Progressed(x10.rows, e) /\ x10'.sending = x10.sending
      BY <1>2, <1>5 DEF D!RowsAfter
    <2>2. /\ e.call \in SubCalls /\ e.child = x2[e.call].child /\ x2[e.call].announced
          /\ D!GoesAfter(1, e.call) /\ D!SendsBefore(1)
      BY <1>1, <1>3, <1>5, EventsAreOf DEF D!PageFits, D!ProgressFits
    <2>3. x10.sending
      BY <1>3, <2>2 DEF D!SendsBefore
    <2>4. D!GoesAfter(0, e.call)'
      <3>1. D!GoesAfter(0 + 1, e.call)
        BY <2>2
      <3> QED
        BY <1>3, <2>2, <3>1, GoesOn
    <2>5. \A r \in x10.rows : D!RowFits(r)'
      BY <1>3, <1>4, <1>5 DEF D!Clears, D!Ends
    <2>6. ASSUME NEW detail, detail.args \in {NoValue, detail.tool}
          PROVE  D!RowFits(D!Row(e, detail))' /\ D!Row(e, detail)'.call = e.call
                 /\ D!Row(e, detail)' = D!Row(e, detail)
      <3>1. /\ D!Row(e, detail).call = e.call /\ D!Row(e, detail).child = e.child
            /\ D!Row(e, detail).detail = D!Detail(detail, e.what)
            /\ D!Row(e, detail)' = D!Row(e, detail)
        BY DEF D!Row, D!Position
      <3> QED
        BY <2>2, <2>4, <2>6, <3>1, DetailFits DEF D!RowFits
    <2>7. \A r \in x10.rows : r.detail.args \in {NoValue, r.detail.tool}
      BY <1>3 DEF D!RowFits
    <2>8. D!NoTool.args \in {NoValue, D!NoTool.tool}
      BY DEF D!NoTool
    <2>9. CASE \E r \in x10.rows : r.call = e.call
      <3>1. x10'.rows = {IF r.call = e.call THEN D!Row(e, r.detail) ELSE r : r \in x10.rows}
        BY <2>1, <2>9 DEF D!Progressed
      <3>2. \A r \in x10'.rows : D!RowFits(r)'
        BY <2>5, <2>6, <2>7, <3>1
      <3>3. ASSUME NEW r \in x10'.rows, NEW q \in x10'.rows, r.call = q.call
            PROVE  r = q
        <4>1. PICK s \in x10.rows : r = IF s.call = e.call THEN D!Row(e, s.detail) ELSE s
          BY <3>1
        <4>2. PICK t \in x10.rows : q = IF t.call = e.call THEN D!Row(e, t.detail) ELSE t
          BY <3>1
        <4>3. r.call = s.call /\ q.call = t.call
          BY <2>6, <2>7, <4>1, <4>2
        <4> QED
          BY <1>3, <3>3, <4>1, <4>2, <4>3
      <3> QED
        BY <2>1, <2>3, <3>2, <3>3
    <2>10. CASE ~\E r \in x10.rows : r.call = e.call
      <3>1. x10'.rows = x10.rows \cup {D!Row(e, D!NoTool)}
        BY <2>1, <2>10 DEF D!Progressed
      <3>2. D!RowFits(D!Row(e, D!NoTool))' /\ D!Row(e, D!NoTool).call = e.call
            /\ D!Row(e, D!NoTool)' = D!Row(e, D!NoTool)
        BY <2>6, <2>8
      <3>3. \A r \in x10'.rows : D!RowFits(r)'
        BY <2>5, <3>1, <3>2
      <3>4. \A r, q \in x10'.rows : r.call = q.call => r = q
        BY <1>3, <2>10, <3>1, <3>2
      <3> QED
        BY <2>1, <2>3, <3>3, <3>4
    <2> QED
      BY <2>9, <2>10
  <1>6. CASE e.type \in {"finished", "result"}
    <2>1. x10'.rows = D!Settled(x10.rows, e) /\ x10'.sending = x10.sending
      BY <1>2, <1>6 DEF D!RowsAfter
    <2>2. x10'.rows \subseteq x10.rows /\ \A r \in x10'.rows : ~D!Clears(e, r.call)
      BY <1>6, <2>1 DEF D!Settled, D!Clears, D!Ends
    <2> QED
      BY <1>3, <1>4, <2>1, <2>2
  <1>7. CASE e.type = "turn_status" /\ e.what = "running"
    <2>1. x10'.rows = x10.rows /\ x10'.sending
      BY <1>2, <1>7 DEF D!RowsAfter
    <2>2. \A r \in x10'.rows : ~D!Clears(e, r.call)
      BY <1>7 DEF D!Clears, D!Ends
    <2> QED
      BY <1>3, <1>4, <2>1, <2>2
  <1>8. CASE e.type = "turn_error" \/ (e.type = "turn_status" /\ e.what # "running")
    BY <1>2, <1>8 DEF D!RowsAfter
  <1>9. CASE e.type = "missed"
    <2>1. x10'.rows = x10.rows /\ x10'.sending = x10.sending
      BY <1>2, <1>9 DEF D!RowsAfter
    <2>2. \A r \in x10'.rows : ~D!Clears(e, r.call)
      BY <1>9 DEF D!Clears, D!Ends
    <2> QED
      BY <1>3, <1>4, <2>1, <2>2
  <1> QED
    BY <1>5, <1>6, <1>7, <1>8, <1>9, EventsAreOf

\* Whom an event takes off the page, and whom the end of a call leaves on it.
RowExcused(c) == D!Active(c) \/ x6 \/ x1.state = "aborting"
AnnouncedStay == \A c \in SubCalls : x2[c].announced =>
                    x2'[c].announced /\ x2'[c].child = x2[c].child

\* A step of the server that sends nothing.
LEMMA QuietKeepsPage ==
  ASSUME D!DataFits, D!PageFits, x8' = x8, x10' = x10, AnnouncedStay,
         \A c \in SubCalls : RowExcused(c) => RowExcused(c)',
         x1'.state # "idle" => x1.state # "idle"
  PROVE  D!PageFits'
  <1>1. x8 \in Seq(D!Events) /\ WireGrows /\ Len(x8') = Len(x8) /\ Len(x8) \in Nat
    BY WireSame DEF D!DataFits
  <1>2. x1'.state # "idle" => D!SendsBefore(Len(x8) + 1)'
    <2> HAVE x1'.state # "idle"
    <2>1. PICK k \in Nat : k = Len(x8) + 1
      BY <1>1
    <2>2. D!SendsBefore(k) /\ (Len(x8) + 1)' = k
      BY <1>1, <2>1 DEF D!PageFits
    <2>3. D!SendsBefore(k)'
      BY <1>1, <2>1, <2>2, SendsKept
    <2> QED
      BY <2>2, <2>3
  <1>3. \A i \in DOMAIN x8' : ~(Len(x8) < i)
    BY <1>1
  <1> QED
    BY <1>1, <1>2, <1>3, ServerKeepsPage DEF AnnouncedStay, RowExcused

\* A step of the server that sends an event.
LEMMA EventKeepsPage ==
  ASSUME D!DataFits, D!PageFits, x10' = x10, AnnouncedStay,
         NEW e \in D!Events, x8' = Append(x8, e),
         \A c \in SubCalls : RowExcused(c) => RowExcused(c)' \/ D!Clears(e, c),
         e.type = "progress" =>
            /\ x1.state # "idle" /\ e.child = x2'[e.call].child /\ x2'[e.call].announced
            /\ RowExcused(e.call)',
         D!Ends(e) => x1'.state = "idle",
         x1'.state # "idle" => x1.state # "idle" \/ D!Begins(e)
  PROVE  D!PageFits'
  <1>1. /\ x8 \in Seq(D!Events) /\ x8' \in Seq(D!Events) /\ WireGrows /\ Len(x8) \in Nat
        /\ Len(x8') = Len(x8) + 1 /\ x8'[Len(x8) + 1] = e
        /\ \A i \in DOMAIN x8' : i \notin DOMAIN x8 => i = Len(x8) + 1
    BY WireAppend DEF D!DataFits, WireGrows
  <1>2. PICK k \in Nat : k = Len(x8) + 1 /\ k \in DOMAIN x8' /\ x8'[k] = e
    BY <1>1
  <1>3. x1'.state # "idle" => D!SendsBefore(Len(x8) + 1)'
    <2> HAVE x1'.state # "idle"
    <2>1. CASE D!Begins(e)
      <3>1. Len(x8') + 1 = k + 1
        BY <1>1, <1>2
      <3>2. D!NoEnd(k, k + 1)'
        BY <1>2 DEF D!NoEnd
      <3>3. D!SendsBefore(k + 1)'
        BY <1>2, <2>1, <3>2 DEF D!SendsBefore
      <3> QED
        BY <3>1, <3>3
    <2>2. CASE ~D!Begins(e)
      <3>1. D!SendsBefore(Len(x8) + 1) /\ ~D!Ends(e)
        BY <2>2 DEF D!PageFits
      <3> QED
        BY <1>1, <3>1, SendsAfterEvent
    <2> QED
      BY <2>1, <2>2
  <1>4. \A c \in SubCalls : RowExcused(c) =>
            RowExcused(c)' \/ \E i \in DOMAIN x8' : Len(x8) < i /\ D!Clears(x8'[i], c)
    BY <1>1, <1>2
  <1>5. ASSUME NEW i \in DOMAIN x8', Len(x8) < i, x8'[i].type = "progress"
        PROVE  D!ProgressFits(i, x8[i])'
    <2>1. i = k /\ x8'[i] = e /\ e.type = "progress"
      BY <1>1, <1>2, <1>5
    <2>2. e.child = x2'[e.call].child /\ x2'[e.call].announced /\ RowExcused(e.call)'
      BY <2>1
    <2>3. D!SendsBefore(k)
      BY <1>2, <2>1 DEF D!PageFits
    <2>4. D!SendsBefore(k)'
      BY <1>1, <1>2, <2>3, SendsKept
    <2>5. D!GoesAfter(i, x8[i].call)'
      BY <2>1, <2>2 DEF D!GoesAfter, RowExcused
    <2> QED
      BY <2>1, <2>2, <2>4, <2>5 DEF D!ProgressFits
  <1> QED
    BY <1>1, <1>3, <1>4, <1>5, ServerKeepsPage DEF AnnouncedStay, RowExcused

\* What is not of the page fits when a step of the page is taken.
LEMMA ServerRests ==
  ASSUME D!DataFits, D!TurnFits, D!ChildFits, UNCHANGED D!Server, x8' \in Seq(D!Events),
         x10'.sending \in BOOLEAN
  PROVE  D!DataFits' /\ D!TurnFits' /\ D!ChildFits'
  <1>1. /\ x1' = x1 /\ x2' = x2 /\ x3' = x3 /\ x4' = x4
        /\ x5' = x5 /\ x6' = x6
    BY DEF D!Server
  <1>2. D!DataFits'
    BY <1>1 DEF D!DataFits
  <1>3. D!TurnFits'
    BY <1>1 DEF D!TurnFits, D!Active, D!InStep, D!LedgerKnowsTheChild
  <1>4. D!ChildFits'
    BY <1>1 DEF D!ChildFits
  <1> QED
    BY <1>2, <1>3, <1>4

\* The page reads an event.
LEMMA ReceiveKeeps ==
  ASSUME D!ChildrenInv, D!Receive
  PROVE  D!ChildrenInv'
  <1>1. /\ D!DataFits /\ D!TurnFits /\ D!ChildFits /\ D!PageFits
        /\ x8 # <<>> /\ x8' = Tail(x8) /\ x10' = D!Handled(Head(x8)) /\ UNCHANGED D!Server
        /\ x1' = x1 /\ x2' = x2 /\ x6' = x6
        /\ x8 \in Seq(D!Events) /\ x10.sending \in BOOLEAN
    BY DEF D!ChildrenInv, D!Receive, D!Server, D!DataFits
  <1>2. x8' \in Seq(D!Events) /\ x10'.sending \in BOOLEAN
    BY <1>1, WireRead DEF D!Handled
  <1>3. D!DataFits' /\ D!TurnFits' /\ D!ChildFits'
    BY <1>1, <1>2, ServerRests
  <1>4. ASSUME NEW i \in DOMAIN x8', x8'[i].type = "progress"
        PROVE  D!ProgressFits(i, x8[i])'
    <2>1. PICK j \in DOMAIN x8 : j = i + 1 /\ x8'[i] = x8[j] /\ i \in Nat \ {0}
      BY <1>1, WireRead
    <2>2. D!ProgressFits(j, x8[j]) /\ x8[j].call \in SubCalls
      BY <1>1, <1>4, <2>1, EventsAreOf DEF D!PageFits
    <2>3. D!GoesAfter(i + 1, x8[j].call) /\ D!SendsBefore(i + 1)
      BY <2>1, <2>2 DEF D!ProgressFits
    <2>4. PICK c \in SubCalls : c = x8[j].call
      BY <2>2
    <2>5. D!GoesAfter(i, c)'
      BY <1>1, <2>1, <2>3, <2>4, GoesOn
    <2>6. D!SendsBefore(i)'
      BY <1>1, <2>1, <2>3, SendsOn
    <2>7. x8[i]'.call = c /\ x8[i]'.child = x2'[c].child /\ x2'[c].announced
      BY <1>1, <2>1, <2>2, <2>4 DEF D!ProgressFits
    <2> QED
      BY <2>5, <2>6, <2>7 DEF D!ProgressFits
  <1>5. x1'.state # "idle" => D!SendsBefore(Len(x8) + 1)'
    <2> HAVE x1'.state # "idle"
    <2>1. PICK k \in Nat \ {0} : k = Len(x8)
      BY <1>1
    <2>2. D!SendsBefore(k + 1) /\ Len(x8') + 1 = k
      BY <1>1, <2>1, WireRead DEF D!PageFits
    <2>3. D!SendsBefore(k)'
      BY <1>1, <2>1, <2>2, SendsOn
    <2> QED
      BY <2>2, <2>3
  <1>6. D!PageFits'
    BY <1>1, <1>4, <1>5, RowsRead DEF D!PageFits
  <1> QED
    BY <1>3, <1>6 DEF D!ChildrenInv

\* The connection of the page breaks.
LEMMA BreakKeeps ==
  ASSUME D!ChildrenInv, D!Break \/ D!Reconnect
  PROVE  D!ChildrenInv'
  <1>1. /\ D!DataFits /\ D!TurnFits /\ D!ChildFits /\ D!PageFits /\ UNCHANGED D!Server
        /\ x1' = x1 /\ x2' = x2 /\ x6' = x6 /\ x10' = x10
        /\ x8 \in Seq(D!Events) /\ x10.sending \in BOOLEAN /\ (x8' = D!Replayed \/ x8' = x8)
    BY DEF D!ChildrenInv, D!Break, D!Reconnect, D!Server, D!DataFits
  <1>2. WireGrows /\ Len(x8') = Len(x8) /\ x8' \in Seq(D!Events) /\ Len(x8) \in Nat
    BY <1>1, WireReplayed, WireSame DEF WireGrows
  <1>3. D!DataFits' /\ D!TurnFits' /\ D!ChildFits'
    BY <1>1, <1>2, ServerRests
  <1>4. x1'.state # "idle" => D!SendsBefore(Len(x8) + 1)'
    <2> HAVE x1'.state # "idle"
    <2>1. PICK k \in Nat : k = Len(x8) + 1
      BY <1>2
    <2>2. D!SendsBefore(k) /\ (Len(x8) + 1)' = k
      BY <1>1, <1>2, <2>1 DEF D!PageFits
    <2>3. D!SendsBefore(k)'
      BY <1>1, <1>2, <2>1, <2>2, SendsKept
    <2> QED
      BY <2>2, <2>3
  <1>5. \A i \in DOMAIN x8' : ~(Len(x8) < i)
    BY <1>2
  <1>6. \A c \in SubCalls : D!Active(c)' <=> D!Active(c)
    BY <1>1 DEF D!Active
  <1>7. D!PageFits'
    BY <1>1, <1>2, <1>4, <1>5, <1>6, ServerKeepsPage
  <1> QED
    BY <1>3, <1>7 DEF D!ChildrenInv

\* The page opens the session.
LEMMA LoadKeeps ==
  ASSUME D!ChildrenInv, D!Load
  PROVE  D!ChildrenInv'
  <1>1. /\ D!DataFits /\ D!TurnFits /\ D!ChildFits /\ UNCHANGED D!Server
        /\ x1' = x1 /\ x8' = <<>>
        /\ x10' = [sending |-> (x1.state # "idle"), rows |-> {}]
    BY DEF D!ChildrenInv, D!Load, D!Server
  <1>2. x8' \in Seq(D!Events) /\ x10'.sending \in BOOLEAN /\ DOMAIN x8' = {}
    BY <1>1
  <1>3. D!DataFits' /\ D!TurnFits' /\ D!ChildFits'
    BY <1>1, <1>2, ServerRests
  <1>4. x1'.state # "idle" => D!SendsBefore(Len(x8) + 1)'
    BY <1>1, <1>2 DEF D!SendsBefore, D!NoEnd
  <1>5. D!PageFits'
    BY <1>1, <1>2, <1>4 DEF D!PageFits
  <1> QED
    BY <1>3, <1>5 DEF D!ChildrenInv

\* What a step that changes one call says of the others and of it.
OtherCallsStay(c) == x2' \in [SubCalls -> D!CallRecords] /\ \A d \in SubCalls \ {c} : x2'[d] = x2[d]
StaysOnCourse(c) == /\ x2'[c].at = x2[c].at /\ x2'[c].announced = x2[c].announced
                    /\ x2[c].announced => x2'[c].child = x2[c].child

\* The facts of the turn and the record when one call changes.
LEMMA TurnKept ==
  ASSUME D!TurnFits, NEW c \in SubCalls, OtherCallsStay(c), StaysOnCourse(c), x1' = x1, x6' = x6,
         x3' = x3, x5' = x5,
         x2[c].announced => x2'[c].pc \notin {"none", "ready", "checked"},
         x2'[c].pc \in {"asked", "running"} => x2[c].announced,
         D!Active(c)' => D!Active(c)
  PROVE  D!TurnFits'
  <1>1. \A d \in SubCalls : D!Active(d)' => D!Active(d) /\ (D!InStep(d) => D!InStep(d)')
    BY DEF D!Active, D!InStep, OtherCallsStay, StaysOnCourse
  <1>2. D!LedgerKnowsTheChild'
    BY DEF D!TurnFits, D!LedgerKnowsTheChild, OtherCallsStay, StaysOnCourse
  <1>3. \A d \in SubCalls :
            /\ x2'[d].announced => x2'[d].pc \notin {"none", "ready", "checked"}
            /\ x2'[d].pc \in {"asked", "running"} => x2'[d].announced
    BY DEF D!TurnFits, OtherCallsStay, StaysOnCourse
  <1> QED
    BY <1>1, <1>2, <1>3 DEF D!TurnFits

\* The facts of the sessions when one call changes and no session does.
LEMMA ChildKept ==
  ASSUME D!ChildFits, NEW c \in SubCalls, OtherCallsStay(c), x4' = x4, x6' = x6,
         x2'[c].pc = "running" <=> x2[c].pc = "running",
         x2[c].pc = "running" \/ x2'[c].ok => x2'[c].child = x2[c].child,
         x2'[c].pc \in {"checked", "asked", "running"} => x2'[c].child \in D!Children,
         x2'[c].ok => x2[c].ok /\ x2'[c].pc \in {"ended", "finished", "result", "lost"}
  PROVE  D!ChildFits'
  <1>1. ASSUME NEW d \in SubCalls
        PROVE  /\ x2'[d].pc \in {"checked", "asked", "running"} => x2'[d].child \in D!Children
               /\ x2'[d].pc = "running" => x4[x2'[d].child] = "running"
               /\ x2'[d].ok =>
                     /\ x2'[d].pc \in {"ended", "finished", "result", "lost"}
                     /\ x2'[d].child \in D!Children /\ x4[x2'[d].child] = "completed"
    BY DEF D!ChildFits, OtherCallsStay
  <1>2. ASSUME NEW d \in SubCalls, NEW e \in SubCalls, d # e, x2'[d].child = x2'[e].child
        PROVE  /\ ~(x2'[d].pc = "running" /\ x2'[e].pc = "running")
               /\ ~(x2'[d].ok /\ x2'[e].ok)
    BY <1>2 DEF D!ChildFits, OtherCallsStay
  <1>3. ASSUME NEW s \in D!Children, x4[s] = "running"
        PROVE  x6 \/ \E d \in SubCalls : x2'[d].child = s /\ x2'[d].pc = "running"
    BY <1>3 DEF D!ChildFits, OtherCallsStay
  <1> QED
    BY <1>1, <1>2, <1>3 DEF D!ChildFits

\* The parts of the invariant.
LEMMA ChildrenParts ==
  ASSUME D!ChildrenInv
  PROVE  /\ D!DataFits /\ D!TurnFits /\ D!ChildFits /\ D!PageFits
         /\ x2 \in [SubCalls -> D!CallRecords] /\ x8 \in Seq(D!Events)
  BY DEF D!ChildrenInv, D!DataFits

\* Types, when calls change and at most an event is sent.
LEMMA ChildrenDataKept ==
  ASSUME D!DataFits, x2' \in [SubCalls -> D!CallRecords], x1' = x1, x4' = x4, x10' = x10,
         x8' = x8 \/ \E e \in D!Events : x8' = Append(x8, e)
  PROVE  D!DataFits'
  BY DEF D!DataFits

\* A call chooses its session, or is refused.
LEMMA CheckKeeps ==
  ASSUME D!ChildrenInv, NEW c \in SubCalls, D!Check(c) \/ D!Refuse(c)
  PROVE  D!ChildrenInv'
  <1> USE ChildrenParts
  <1>1. /\ x1' = x1 /\ x3' = x3 /\ x4' = x4 /\ x5' = x5
        /\ x6' = x6 /\ x8' = x8 /\ x10' = x10
        /\ x2[c].pc = "ready" /\ x1.state = "running"
    BY DEF D!Check, D!Refuse, D!Page
  <1>2. /\ OtherCallsStay(c) /\ x2'[c].at = x2[c].at /\ x2'[c].announced = x2[c].announced
        /\ \/ x2'[c].pc = "ended" /\ ~x2'[c].ok
           \/ x2'[c].pc = "checked" /\ x2'[c].child \in D!Children /\ x2'[c].ok = x2[c].ok
    <2>1. CASE D!Check(c)
      <3>1. PICK s \in D!Children : x2' = [x2 EXCEPT ![c].child = s, ![c].pc = "checked"]
        BY <2>1 DEF D!Check
      <3>2. x2[c] \in D!CallRecords
        OBVIOUS
      <3>3. [x2[c] EXCEPT !.child = s, !.pc = "checked"] \in D!CallRecords
        BY <3>2 DEF D!CallRecords
      <3>4. x2' = [x2 EXCEPT ![c] = [x2[c] EXCEPT !.child = s, !.pc = "checked"]]
        BY <3>1
      <3>5. OtherCallsStay(c)
        BY <3>3, <3>4 DEF OtherCallsStay
      <3> QED
        BY <3>2, <3>4, <3>5 DEF D!CallRecords
    <2>2. CASE D!Refuse(c)
      <3>1. x2' = [x2 EXCEPT ![c].pc = "ended", ![c].ok = FALSE]
        BY <2>2 DEF D!Refuse
      <3>2. x2[c] \in D!CallRecords
        OBVIOUS
      <3>3. [x2[c] EXCEPT !.pc = "ended", !.ok = FALSE] \in D!CallRecords
        BY <3>2 DEF D!CallRecords
      <3>4. x2' = [x2 EXCEPT ![c] = [x2[c] EXCEPT !.pc = "ended", !.ok = FALSE]]
        BY <3>1
      <3>5. OtherCallsStay(c)
        BY <3>3, <3>4 DEF OtherCallsStay
      <3> QED
        BY <3>2, <3>4, <3>5 DEF D!CallRecords
    <2> QED
      BY <2>1, <2>2
  <1>3. ~x2[c].announced /\ ~x2[c].ok
    BY <1>1 DEF D!TurnFits, D!ChildFits
  <1>4. D!TurnFits'
    BY <1>1, <1>2, <1>3, TurnKept DEF StaysOnCourse, D!Active
  <1>5. D!ChildFits'
    BY <1>1, <1>2, <1>3, ChildKept
  <1>6. D!PageFits'
    BY <1>1, <1>2, <1>3, QuietKeepsPage DEF AnnouncedStay, RowExcused, D!Active, OtherCallsStay
  <1>7. D!DataFits'
    BY <1>1, <1>2, ChildrenDataKept DEF OtherCallsStay
  <1> QED
    BY <1>4, <1>5, <1>6, <1>7 DEF D!ChildrenInv

\* The model makes a call.
LEMMA MakeCallKeeps ==
  ASSUME D!ChildrenInv, D!Assumptions, NEW c \in SubCalls, D!MakeCall(c)
  PROVE  D!ChildrenInv'
  <1> USE ChildrenParts
  <1>1. /\ x1' = x1 /\ x3' = x3 /\ x4' = x4 /\ x5' = x5
        /\ x6' = x6 /\ x8' = x8 /\ x10' = x10
        /\ x2[c].pc = "none" /\ x1.state = "running"
        /\ x1.n \in Nat /\ x1.step \in Nat
    BY DEF D!MakeCall, D!Page, D!DataFits
  <1>2. PICK n \in Nat : n = D!Cardinality({d \in SubCalls : D!InStep(d)})
    BY CallsAreFinite, FS_Subset, FS_CardinalityType, Counts
  <1>3. <<x1.n, x1.step, n>> \in Seq(Nat)
    BY <1>1, <1>2
  <1>4. /\ OtherCallsStay(c) /\ x2'[c].at = <<x1.n, x1.step, n>> /\ x2'[c].pc = "ready"
        /\ x2'[c].announced = x2[c].announced /\ x2'[c].ok = x2[c].ok
        /\ x2'[c].child = x2[c].child
    BY <1>2, <1>3, ZenonT(40) DEF D!MakeCall, OtherCallsStay, D!CallRecords
  <1>5. ~x2[c].announced /\ ~x2[c].ok
    BY <1>1 DEF D!TurnFits, D!ChildFits
  <1>6. D!TurnFits'
    <2>1. D!InStep(c)'
      BY <1>1, <1>4 DEF D!InStep
    <2>2. \A d \in SubCalls \ {c} : D!Active(d)' => D!Active(d) /\ (D!InStep(d) => D!InStep(d)')
      BY <1>1, <1>4 DEF D!Active, D!InStep, OtherCallsStay
    <2>3. D!LedgerKnowsTheChild'
      BY <1>1, <1>4, <1>5 DEF D!TurnFits, D!LedgerKnowsTheChild, OtherCallsStay
    <2>4. \A d \in SubCalls :
            /\ x2'[d].announced => x2'[d].pc \notin {"none", "ready", "checked"}
            /\ x2'[d].pc \in {"asked", "running"} => x2'[d].announced
      BY <1>4, <1>5 DEF D!TurnFits, OtherCallsStay
    <2> QED
      BY <1>1, <2>1, <2>2, <2>3, <2>4 DEF D!TurnFits
  <1>7. D!ChildFits'
    BY <1>1, <1>4, <1>5, ChildKept
  <1>8. D!PageFits'
    BY <1>1, <1>4, <1>5, QuietKeepsPage DEF AnnouncedStay, RowExcused, D!Active, OtherCallsStay
  <1>9. D!DataFits'
    BY <1>1, <1>4, ChildrenDataKept DEF OtherCallsStay
  <1> QED
    BY <1>6, <1>7, <1>8, <1>9 DEF D!ChildrenInv

\* A call becomes another record.
LEMMA CallBecomes ==
  ASSUME D!ChildrenInv, NEW c \in SubCalls, NEW new \in D!CallRecords,
         x2' = [x2 EXCEPT ![c] = new]
  PROVE  OtherCallsStay(c) /\ x2'[c] = new
  BY ChildrenParts DEF OtherCallsStay

\* A piece of progress is an event.
LEMMA ProgressEvent ==
  ASSUME D!ChildrenInv, D!Assumptions, NEW c \in SubCalls, NEW what \in D!Reports
  PROVE  /\ D!Event("progress", c, what) \in D!Events /\ D!Event("progress", c, what).type = "progress"
         /\ D!Event("progress", c, what).call = c
         /\ D!Event("progress", c, what).child = x2[c].child
  <1>1. c # NoValue /\ x2[c].child \in D!Children \cup {NoValue}
    BY ChildrenParts DEF D!CallRecords, D!Assumptions
  <1> QED
    BY <1>1 DEF D!Event, D!Events

\* A call is announced and recorded.
LEMMA AnnounceKeeps ==
  ASSUME D!ChildrenInv, D!Assumptions, NEW c \in SubCalls, D!Announce(c)
  PROVE  D!ChildrenInv'
  <1> USE ChildrenParts
  <1>1. /\ x1' = x1 /\ x3' = x3 /\ x4' = x4 /\ x5' = D!Record(c)
        /\ x6' = x6 /\ x10' = x10
        /\ x2[c].pc = "checked" /\ x1.state = "running"
        /\ x2' = [x2 EXCEPT ![c].pc = "asked", ![c].announced = TRUE]
    BY DEF D!Announce, D!Page
  <1>2. x2[c] \in D!CallRecords
    OBVIOUS
  <1>3. [x2[c] EXCEPT !.pc = "asked", !.announced = TRUE] \in D!CallRecords
    BY <1>2 DEF D!CallRecords
  <1>4. PICK new \in D!CallRecords : new = [x2[c] EXCEPT !.pc = "asked", !.announced = TRUE]
    BY <1>3
  <1>5. OtherCallsStay(c) /\ x2'[c] = new
    BY <1>1, <1>4, CallBecomes
  <1>6. /\ new.pc = "asked" /\ new.announced /\ new.child = x2[c].child /\ new.ok = x2[c].ok
        /\ new.at = x2[c].at
    BY <1>2, <1>4 DEF D!CallRecords
  <1>7. ~x2[c].ok /\ x2[c].child \in D!Children
    BY <1>1 DEF D!ChildFits
  <1>8. D!TurnFits'
    <2>1. \A d \in SubCalls : D!Active(d)' => D!Active(d) /\ (D!InStep(d) => D!InStep(d)')
      BY <1>1, <1>5, <1>6 DEF D!Active, D!InStep, OtherCallsStay
    <2>2. D!LedgerKnowsTheChild'
      BY <1>1, <1>5, <1>6 DEF D!TurnFits, D!LedgerKnowsTheChild, OtherCallsStay, D!Record
    <2>3. \A d \in SubCalls :
            /\ x2'[d].announced => x2'[d].pc \notin {"none", "ready", "checked"}
            /\ x2'[d].pc \in {"asked", "running"} => x2'[d].announced
      BY <1>5, <1>6 DEF D!TurnFits, OtherCallsStay
    <2> QED
      BY <1>1, <2>1, <2>2, <2>3 DEF D!TurnFits
  <1>9. D!ChildFits'
    BY <1>1, <1>5, <1>6, <1>7, ChildKept
  <1>10. /\ AnnouncedStay /\ (\A d \in SubCalls : RowExcused(d) => RowExcused(d)') /\ RowExcused(c)'
    BY <1>1, <1>5, <1>6 DEF AnnouncedStay, RowExcused, D!Active, OtherCallsStay
  <1>11. [kind |-> "starting", tool |-> NoValue] \in D!Reports
    BY DEF D!Reports
  <1>12. PICK e \in D!Events : /\ e = D!Event("progress", c, [kind |-> "starting", tool |-> NoValue])
                               /\ e.type = "progress" /\ e.call = c /\ e.child = x2[c].child
    BY <1>11, ProgressEvent
  <1>13. x8' = x8 \/ x8' = Append(x8, e)
    BY <1>12 DEF D!Announce, D!Emit
  <1>14. D!PageFits'
    BY <1>1, <1>5, <1>6, <1>10, <1>12, <1>13, QuietKeepsPage, EventKeepsPage DEF D!Ends
  <1>15. D!DataFits'
    BY <1>1, <1>5, <1>13, ChildrenDataKept DEF OtherCallsStay
  <1> QED
    BY <1>8, <1>9, <1>14, <1>15 DEF D!ChildrenInv

\* A sub-agent reports.
LEMMA ForwardKeeps ==
  ASSUME D!ChildrenInv, D!Assumptions, NEW c \in SubCalls, D!Forward(c)
  PROVE  D!ChildrenInv'
  <1> USE ChildrenParts
  <1>1. PICK kind \in D!Kinds, tool \in Tools \cup {NoValue} :
          /\ tool # NoValue <=> kind \in {"tool_call", "tool_result"}
          /\ D!Emit(D!Event("progress", c, [kind |-> kind, tool |-> tool]))
          /\ x2' = [x2 EXCEPT ![c].open = CASE kind = "tool_call" -> @ \cup {tool}
                                                 [] kind = "tool_result" -> @ \ {tool}
                                                 [] OTHER -> @]
    BY DEF D!Forward
  <1>2. /\ x1' = x1 /\ x3' = x3 /\ x4' = x4 /\ x5' = x5
        /\ x6' = x6 /\ x10' = x10 /\ x2[c].pc = "running"
    BY DEF D!Forward, D!Page
  <1>3. x2[c] \in D!CallRecords /\ x2[c].open \subseteq Tools
    BY DEF D!CallRecords
  <1>4. PICK open \in SUBSET Tools : x2' = [x2 EXCEPT ![c] = [x2[c] EXCEPT !.open = open]]
    <2>1. CASE kind = "tool_call"
      <3>1. tool \in Tools /\ x2[c].open \cup {tool} \in SUBSET Tools
        BY <1>1, <1>3, <2>1
      <3> QED
        BY <1>1, <2>1, <3>1
    <2>2. CASE kind = "tool_result"
      <3>1. x2[c].open \ {tool} \in SUBSET Tools
        BY <1>3
      <3> QED
        BY <1>1, <2>2, <3>1
    <2>3. CASE kind \notin {"tool_call", "tool_result"}
      BY <1>1, <1>3, <2>3
    <2> QED
      BY <2>1, <2>2, <2>3
  <1>5. [x2[c] EXCEPT !.open = open] \in D!CallRecords
    BY <1>3 DEF D!CallRecords
  <1>6. PICK new \in D!CallRecords : new = [x2[c] EXCEPT !.open = open]
    BY <1>5
  <1>7. OtherCallsStay(c) /\ x2'[c] = new
    BY <1>4, <1>6, CallBecomes
  <1>8. /\ new.pc = x2[c].pc /\ new.announced = x2[c].announced /\ new.child = x2[c].child
        /\ new.ok = x2[c].ok /\ new.at = x2[c].at
    BY <1>3, <1>6 DEF D!CallRecords
  <1>9. x2[c].child \in D!Children /\ D!Active(c) /\ x1.state # "idle" /\ ~x2[c].ok
    BY <1>2 DEF D!ChildFits, D!TurnFits, D!Active
  <1>10. x2[c].announced
    BY <1>2 DEF D!TurnFits
  <1>11. D!TurnFits'
    BY <1>2, <1>7, <1>8, <1>10, TurnKept DEF StaysOnCourse, D!Active, D!TurnFits
  <1>12. D!ChildFits'
    BY <1>2, <1>7, <1>8, <1>9, ChildKept
  <1>13. /\ AnnouncedStay /\ (\A d \in SubCalls : RowExcused(d) => RowExcused(d)') /\ RowExcused(c)'
    BY <1>2, <1>7, <1>8, <1>9 DEF AnnouncedStay, RowExcused, D!Active, OtherCallsStay
  <1>14. [kind |-> kind, tool |-> tool] \in D!Reports
    BY DEF D!Reports
  <1>15. PICK e \in D!Events : /\ e = D!Event("progress", c, [kind |-> kind, tool |-> tool])
                               /\ e.type = "progress" /\ e.call = c /\ e.child = x2[c].child
    BY <1>14, ProgressEvent
  <1>16. x8' = x8 \/ x8' = Append(x8, e)
    BY <1>1, <1>15 DEF D!Emit
  <1>17. D!PageFits'
    BY <1>2, <1>7, <1>8, <1>9, <1>10, <1>13, <1>15, <1>16, QuietKeepsPage, EventKeepsPage
       DEF D!Ends
  <1>18. D!DataFits'
    BY <1>2, <1>7, <1>16, ChildrenDataKept DEF OtherCallsStay
  <1> QED
    BY <1>11, <1>12, <1>17, <1>18 DEF D!ChildrenInv

\* The sub-agent takes its task, or refuses it.
LEMMA RunTaskKeeps ==
  ASSUME D!ChildrenInv, D!Assumptions, NEW c \in SubCalls, D!RunTask(c)
  PROVE  D!ChildrenInv'
  <1> USE ChildrenParts
  <1>1. /\ x1' = x1 /\ x3' = x3 /\ x5' = x5
        /\ x6' = x6 /\ x8' = x8 /\ x10' = x10
        /\ x2[c].pc = "asked" /\ x1.state = "running"
        /\ \A d \in SubCalls \ {c} : x2[d].child = x2[c].child => x2[d].pc # "running"
    BY DEF D!RunTask, D!Page
  <1>2. x2[c] \in D!CallRecords
    OBVIOUS
  <1>3. x2[c].child \in D!Children /\ ~x2[c].ok /\ x2[c].announced /\ D!Active(c)
    BY <1>1 DEF D!ChildFits, D!TurnFits, D!Active
  <1>4. CASE D!Initialized(c)
    <2>1. /\ x4' = x4
          /\ x2' = [x2 EXCEPT ![c] = [x2[c] EXCEPT !.pc = "ended", !.ok = FALSE]]
      BY <1>4 DEF D!RunTask
    <2>2. [x2[c] EXCEPT !.pc = "ended", !.ok = FALSE] \in D!CallRecords
      BY <1>2 DEF D!CallRecords
    <2>3. PICK new \in D!CallRecords : new = [x2[c] EXCEPT !.pc = "ended", !.ok = FALSE]
      BY <2>2
    <2>4. OtherCallsStay(c) /\ x2'[c] = new
      BY <2>1, <2>3, CallBecomes
    <2>5. /\ new.pc = "ended" /\ ~new.ok /\ new.announced = x2[c].announced
          /\ new.child = x2[c].child /\ new.at = x2[c].at
      BY <1>2, <2>3 DEF D!CallRecords
    <2>6. D!TurnFits'
      BY <1>1, <1>3, <2>4, <2>5, TurnKept DEF StaysOnCourse
    <2>7. D!ChildFits'
      BY <1>1, <2>1, <2>4, <2>5, ChildKept
    <2>8. AnnouncedStay /\ \A d \in SubCalls : RowExcused(d) => RowExcused(d)'
      BY <1>1, <2>4, <2>5 DEF AnnouncedStay, RowExcused, D!Active, OtherCallsStay
    <2>9. D!PageFits'
      BY <1>1, <2>8, QuietKeepsPage
    <2>10. D!DataFits'
      BY <1>1, <2>1, <2>4, ChildrenDataKept DEF OtherCallsStay
    <2> QED
      BY <2>6, <2>7, <2>9, <2>10 DEF D!ChildrenInv
  <1>5. CASE ~D!Initialized(c)
    <2>1. /\ x4' = [x4 EXCEPT ![x2[c].child] = "running"]
          /\ x2' = [x2 EXCEPT ![c] = [x2[c] EXCEPT !.pc = "running"]]
      BY <1>5 DEF D!RunTask
    <2>2. [x2[c] EXCEPT !.pc = "running"] \in D!CallRecords
      BY <1>2 DEF D!CallRecords
    <2>3. PICK new \in D!CallRecords : new = [x2[c] EXCEPT !.pc = "running"]
      BY <2>2
    <2>4. OtherCallsStay(c) /\ x2'[c] = new
      BY <2>1, <2>3, CallBecomes
    <2>5. /\ new.pc = "running" /\ new.ok = x2[c].ok /\ new.announced = x2[c].announced
          /\ new.child = x2[c].child /\ new.at = x2[c].at
      BY <1>2, <2>3 DEF D!CallRecords
    <2>6. D!TurnFits'
      BY <1>1, <1>3, <2>4, <2>5, TurnKept DEF StaysOnCourse
    <2>7. /\ x4[x2[c].child] = NoValue
          /\ x4 \in [D!Children -> {NoValue, "running", "completed", "failed", "aborted"}]
      BY <1>5 DEF D!Initialized, D!DataFits
    <2>8. D!ChildFits'
      <3>1. /\ x4'[x2[c].child] = "running"
            /\ \A s \in D!Children : s # x2[c].child => x4'[s] = x4[s]
        BY <1>3, <2>1, <2>7
      <3>2. \A d \in SubCalls : x2[d].child = x2[c].child => ~x2[d].ok
        BY <2>7 DEF D!ChildFits, D!Assumptions
      <3>3. ASSUME NEW d \in SubCalls
            PROVE  /\ x2'[d].pc \in {"checked", "asked", "running"} => x2'[d].child \in D!Children
                   /\ x2'[d].pc = "running" => x4'[x2'[d].child] = "running"
                   /\ x2'[d].ok =>
                         /\ x2'[d].pc \in {"ended", "finished", "result", "lost"}
                         /\ x2'[d].child \in D!Children /\ x4'[x2'[d].child] = "completed"
        BY <1>3, <2>4, <2>5, <3>1, <3>2 DEF D!ChildFits, OtherCallsStay
      <3>4. ASSUME NEW d \in SubCalls, NEW e \in SubCalls, d # e, x2'[d].child = x2'[e].child
            PROVE  /\ ~(x2'[d].pc = "running" /\ x2'[e].pc = "running")
                   /\ ~(x2'[d].ok /\ x2'[e].ok)
        BY <1>1, <1>3, <2>4, <2>5, <3>4 DEF D!ChildFits, OtherCallsStay
      <3>5. ASSUME NEW s \in D!Children, x4'[s] = "running"
            PROVE  x6' \/ \E d \in SubCalls : x2'[d].child = s /\ x2'[d].pc = "running"
        BY <1>1, <2>4, <2>5, <3>1, <3>5 DEF D!ChildFits, OtherCallsStay
      <3> QED
        BY <3>3, <3>4, <3>5 DEF D!ChildFits
    <2>9. AnnouncedStay /\ \A d \in SubCalls : RowExcused(d) => RowExcused(d)'
      BY <1>1, <2>4, <2>5 DEF AnnouncedStay, RowExcused, D!Active, OtherCallsStay
    <2>10. D!PageFits'
      BY <1>1, <2>9, QuietKeepsPage
    <2>11. D!DataFits'
      BY <1>1, <1>3, <2>1, <2>4, <2>7 DEF D!DataFits, OtherCallsStay
    <2> QED
      BY <2>6, <2>8, <2>10, <2>11 DEF D!ChildrenInv
  <1> QED
    BY <1>4, <1>5

\* The task ends.
LEMMA TaskEndsKeeps ==
  ASSUME D!ChildrenInv, D!Assumptions, NEW c \in SubCalls,
         NEW status \in {"completed", "failed", "aborted"}, D!TaskEnds(c, status)
  PROVE  D!ChildrenInv'
  <1> USE ChildrenParts
  <1>1. /\ x1' = x1 /\ x3' = x3 /\ x5' = x5
        /\ x6' = x6 /\ x8' = x8 /\ x10' = x10 /\ x2[c].pc = "running"
        /\ x4' = [x4 EXCEPT ![x2[c].child] = status]
        /\ x2' = [x2 EXCEPT ![c] =
                        [x2[c] EXCEPT !.pc = "ended", !.ok = (status = "completed")]]
    BY DEF D!TaskEnds, D!Page
  <1>2. x2[c] \in D!CallRecords
    OBVIOUS
  <1>3. /\ x2[c].child \in D!Children /\ ~x2[c].ok /\ x2[c].announced /\ D!Active(c)
        /\ x4[x2[c].child] = "running"
    BY <1>1 DEF D!ChildFits, D!TurnFits, D!Active
  <1>4. [x2[c] EXCEPT !.pc = "ended", !.ok = (status = "completed")] \in D!CallRecords
    BY <1>2 DEF D!CallRecords
  <1>5. PICK new \in D!CallRecords :
           new = [x2[c] EXCEPT !.pc = "ended", !.ok = (status = "completed")]
    BY <1>4
  <1>6. OtherCallsStay(c) /\ x2'[c] = new
    BY <1>1, <1>5, CallBecomes
  <1>7. /\ new.pc = "ended" /\ new.ok = (status = "completed")
        /\ new.announced = x2[c].announced
        /\ new.child = x2[c].child /\ new.at = x2[c].at
    BY <1>2, <1>5 DEF D!CallRecords
  <1>8. D!TurnFits'
    BY <1>1, <1>3, <1>6, <1>7, TurnKept DEF StaysOnCourse
  <1>9. x4 \in [D!Children -> {NoValue, "running", "completed", "failed", "aborted"}]
    BY DEF D!DataFits
  <1>10. D!ChildFits'
    <2>1. /\ x4'[x2[c].child] = status
          /\ \A s \in D!Children : s # x2[c].child => x4'[s] = x4[s]
      BY <1>1, <1>3, <1>9
    <2>2. \A d \in SubCalls : x2[d].child = x2[c].child => ~x2[d].ok
      BY <1>3 DEF D!ChildFits
    <2>3. \A d \in SubCalls \ {c} : x2[d].child = x2[c].child => x2[d].pc # "running"
      BY <1>1 DEF D!ChildFits
    <2>4. ASSUME NEW d \in SubCalls
          PROVE  /\ x2'[d].pc \in {"checked", "asked", "running"} => x2'[d].child \in D!Children
                 /\ x2'[d].pc = "running" => x4'[x2'[d].child] = "running"
                 /\ x2'[d].ok =>
                       /\ x2'[d].pc \in {"ended", "finished", "result", "lost"}
                       /\ x2'[d].child \in D!Children /\ x4'[x2'[d].child] = "completed"
      <3>1. CASE d = c
        BY <1>3, <1>6, <1>7, <2>1, <3>1
      <3>2. CASE d # c
        <4>1. x2'[d] = x2[d]
          BY <1>6, <3>2 DEF OtherCallsStay
        <4>2. x2[d].child = x2[c].child => ~x2[d].ok /\ x2[d].pc # "running"
          BY <2>2, <2>3, <3>2
        <4> QED
          BY <2>1, <4>1, <4>2 DEF D!ChildFits
      <3> QED
        BY <3>1, <3>2
    <2>5. ASSUME NEW d \in SubCalls, NEW e \in SubCalls, d # e, x2'[d].child = x2'[e].child
          PROVE  /\ ~(x2'[d].pc = "running" /\ x2'[e].pc = "running")
                 /\ ~(x2'[d].ok /\ x2'[e].ok)
      BY <1>3, <1>6, <1>7, <2>2, <2>5 DEF D!ChildFits, OtherCallsStay
    <2>6. ASSUME NEW s \in D!Children, x4'[s] = "running"
          PROVE  x6' \/ \E d \in SubCalls : x2'[d].child = s /\ x2'[d].pc = "running"
      BY <1>1, <1>6, <1>7, <2>1, <2>6 DEF D!ChildFits, OtherCallsStay
    <2> QED
      BY <2>4, <2>5, <2>6 DEF D!ChildFits
  <1>11. AnnouncedStay /\ \A d \in SubCalls : RowExcused(d) => RowExcused(d)'
    BY <1>1, <1>6, <1>7 DEF AnnouncedStay, RowExcused, D!Active, OtherCallsStay
  <1>12. D!PageFits'
    BY <1>1, <1>11, QuietKeepsPage
  <1>13. D!DataFits'
    BY <1>1, <1>3, <1>6, <1>9 DEF D!DataFits, OtherCallsStay
  <1> QED
    BY <1>8, <1>10, <1>12, <1>13 DEF D!ChildrenInv

\* The call ends, or its result is sent.
LEMMA FinishedKeeps ==
  ASSUME D!ChildrenInv, D!Assumptions, NEW c \in SubCalls, D!Finished(c) \/ D!Result(c)
  PROVE  D!ChildrenInv'
  <1> USE ChildrenParts
  <1>1. PICK type \in {"finished", "result"} :
          /\ D!Emit(D!Event(type, c, NoValue)) /\ x2' = [x2 EXCEPT ![c] = [x2[c] EXCEPT !.pc = type]]
          /\ x2[c].pc = IF type = "finished" THEN "ended" ELSE "finished"
    BY DEF D!Finished, D!Result
  <1>2. /\ x1' = x1 /\ x3' = x3 /\ x5' = x5 /\ x4' = x4
        /\ x6' = x6 /\ x10' = x10
    BY DEF D!Finished, D!Result, D!Page
  <1>3. x2[c] \in D!CallRecords /\ x2[c].child \in D!Children \cup {NoValue} /\ c # NoValue
    BY DEF D!CallRecords, D!Assumptions
  <1>4. [x2[c] EXCEPT !.pc = type] \in D!CallRecords
    BY <1>3 DEF D!CallRecords
  <1>5. PICK new \in D!CallRecords : new = [x2[c] EXCEPT !.pc = type]
    BY <1>4
  <1>6. OtherCallsStay(c) /\ x2'[c] = new
    BY <1>1, <1>5, CallBecomes
  <1>7. /\ new.pc = type /\ new.announced = x2[c].announced /\ new.ok = x2[c].ok
        /\ new.child = x2[c].child /\ new.at = x2[c].at
    BY <1>3, <1>5 DEF D!CallRecords
  <1>8. D!TurnFits'
    BY <1>1, <1>2, <1>6, <1>7, TurnKept DEF StaysOnCourse, D!Active
  <1>9. D!ChildFits'
    BY <1>1, <1>2, <1>6, <1>7, ChildKept
  <1>10. /\ D!Event(type, c, NoValue) \in D!Events /\ D!Event(type, c, NoValue).type = type
         /\ D!Event(type, c, NoValue).call = c
    BY <1>3 DEF D!Event, D!Events
  <1>11. PICK e \in D!Events : e = D!Event(type, c, NoValue) /\ e.type = type /\ e.call = c
    BY <1>10
  <1>12. x8' = Append(x8, e)
    BY <1>1, <1>11 DEF D!Emit, D!Durable
  <1>13. AnnouncedStay /\ \A d \in SubCalls : RowExcused(d) => RowExcused(d)' \/ D!Clears(e, d)
    BY <1>1, <1>2, <1>6, <1>7, <1>11 DEF AnnouncedStay, RowExcused, D!Active, OtherCallsStay, D!Clears
  <1>14. D!PageFits'
    BY <1>2, <1>11, <1>12, <1>13, EventKeepsPage DEF D!Ends
  <1>15. D!DataFits'
    BY <1>2, <1>6, <1>12, ChildrenDataKept DEF OtherCallsStay
  <1> QED
    BY <1>8, <1>9, <1>14, <1>15 DEF D!ChildrenInv

\* A call of a turn that is aborted gives up.
LEMMA GiveUpKeeps ==
  ASSUME D!ChildrenInv, NEW c \in SubCalls, D!GiveUp(c)
  PROVE  D!ChildrenInv'
  <1> USE ChildrenParts
  <1>1. /\ x1' = x1 /\ x3' = x3 /\ x5' = x5 /\ x4' = x4
        /\ x6' = x6 /\ x8' = x8 /\ x10' = x10
        /\ x1.state = "aborting" /\ x2[c].pc # "running"
        /\ x2' = [x2 EXCEPT ![c] = [x2[c] EXCEPT !.pc = "given up", !.ok = FALSE]]
    BY DEF D!GiveUp, D!Page
  <1>2. x2[c] \in D!CallRecords
    OBVIOUS
  <1>3. [x2[c] EXCEPT !.pc = "given up", !.ok = FALSE] \in D!CallRecords
    BY <1>2 DEF D!CallRecords
  <1>4. PICK new \in D!CallRecords : new = [x2[c] EXCEPT !.pc = "given up", !.ok = FALSE]
    BY <1>3
  <1>5. OtherCallsStay(c) /\ x2'[c] = new
    BY <1>1, <1>4, CallBecomes
  <1>6. /\ new.pc = "given up" /\ new.announced = x2[c].announced /\ ~new.ok
        /\ new.child = x2[c].child /\ new.at = x2[c].at
    BY <1>2, <1>4 DEF D!CallRecords
  <1>7. D!TurnFits'
    BY <1>1, <1>5, <1>6, TurnKept DEF StaysOnCourse, D!Active
  <1>8. D!ChildFits'
    BY <1>1, <1>5, <1>6, ChildKept
  <1>9. AnnouncedStay /\ \A d \in SubCalls : RowExcused(d) => RowExcused(d)'
    BY <1>1, <1>5, <1>6 DEF AnnouncedStay, RowExcused, OtherCallsStay
  <1>10. D!PageFits'
    BY <1>1, <1>9, QuietKeepsPage
  <1>11. D!DataFits'
    BY <1>1, <1>5, ChildrenDataKept DEF OtherCallsStay
  <1> QED
    BY <1>7, <1>8, <1>10, <1>11 DEF D!ChildrenInv

\* The steps of the turn leave the calls and their children as they are.
LEMMA CallsRest ==
  ASSUME D!ChildFits, x2' = x2, x4' = x4, x6' = x6
  PROVE  D!ChildFits' /\ AnnouncedStay
  BY DEF D!ChildFits, AnnouncedStay

\* Types, when the turn changes.
LEMMA TurnDataKept ==
  ASSUME D!DataFits, x2' = x2, x4' = x4, x10' = x10,
         x8' = x8 \/ \E e \in D!Events : x8' = Append(x8, e),
         x1'.state \in {"idle", "running", "ending", "failing", "aborting"},
         x1' = [x1 EXCEPT !.state = x1'.state] \/ x1' = [x1 EXCEPT !.step = @ + 1]
            \/ x1' = [n |-> x1.n + 1, step |-> 1, state |-> "running"]
  PROVE  D!DataFits' /\ (x1' = [x1 EXCEPT !.state = x1'.state] =>
                            x1'.n = x1.n /\ x1'.step = x1.step)
  <1>1. x1 \in [n : Nat, step : Nat,
               state : {"idle", "running", "ending", "failing", "aborting"}]
    BY DEF D!DataFits
  <1>2. PICK st \in {"idle", "running", "ending", "failing", "aborting"} : x1'.state = st
    OBVIOUS
  <1>3. x1' \in [n : Nat, step : Nat,
                state : {"idle", "running", "ending", "failing", "aborting"}]
    <2>1. CASE x1' = [x1 EXCEPT !.state = st]
      BY <1>1, <2>1
    <2>2. CASE x1' = [x1 EXCEPT !.step = @ + 1]
      BY <1>1, <2>2
    <2>3. CASE x1' = [n |-> x1.n + 1, step |-> 1, state |-> "running"]
      BY <1>1, <2>3
    <2> QED
      BY <1>2, <2>1, <2>2, <2>3
  <1>4. x1' = [x1 EXCEPT !.state = st] => x1'.n = x1.n /\ x1'.step = x1.step
    BY <1>1
  <1>5. D!DataFits'
    BY <1>3 DEF D!DataFits
  <1> QED
    BY <1>2, <1>4, <1>5

\* A turn begins.
LEMMA BeginTurnKeeps ==
  ASSUME D!ChildrenInv, D!BeginTurn
  PROVE  D!ChildrenInv'
  <1> USE ChildrenParts
  <1>1. /\ x2' = x2 /\ x3' = x3 /\ x5' = x5 /\ x4' = x4
        /\ x6' = x6 /\ x10' = x10 /\ ~x6 /\ x1.state = "idle"
        /\ x1' = [n |-> x1.n + 1, step |-> 1, state |-> "running"]
        /\ x1'.state = "running"
    BY DEF D!BeginTurn, D!Page
  <1>2. /\ D!Event("turn_status", NoValue, "running") \in D!Events
        /\ D!Begins(D!Event("turn_status", NoValue, "running"))
    BY DEF D!Event, D!Events, D!Begins
  <1>3. PICK e \in D!Events : e = D!Event("turn_status", NoValue, "running") /\ D!Begins(e)
    BY <1>2
  <1>4. x8' = Append(x8, e)
    BY <1>3 DEF D!BeginTurn, D!Emit, D!Durable, D!Begins
  <1>5. \A c \in SubCalls : ~D!Active(c) /\ ~D!Active(c)'
    BY <1>1 DEF D!TurnFits, D!Active
  <1>6. D!TurnFits'
    BY <1>1, <1>5 DEF D!TurnFits, D!LedgerKnowsTheChild
  <1>7. D!PageFits'
    BY <1>1, <1>3, <1>4, <1>5, CallsRest, EventKeepsPage DEF RowExcused, D!Begins, D!Ends
  <1>8. D!DataFits'
    BY <1>1, <1>4, TurnDataKept
  <1> QED
    BY <1>1, <1>6, <1>7, <1>8, CallsRest DEF D!ChildrenInv

\* The messages of a step are stored.
LEMMA StoreKeeps ==
  ASSUME D!ChildrenInv, D!StoreStep
  PROVE  D!ChildrenInv'
  <1> USE ChildrenParts
  <1>1. /\ x2' = x2 /\ x3 \subseteq x3' /\ x5' = x5 /\ x4' = x4
        /\ x6' = x6 /\ x10' = x10 /\ x8' = x8 /\ x1' = x1
    BY DEF D!StoreStep, D!Page
  <1>2. D!TurnFits'
    BY <1>1 DEF D!TurnFits, D!LedgerKnowsTheChild, D!Active, D!InStep
  <1>3. D!PageFits'
    BY <1>1, CallsRest, QuietKeepsPage DEF RowExcused, D!Active
  <1>4. D!DataFits'
    BY <1>1, ChildrenDataKept
  <1> QED
    BY <1>1, <1>2, <1>3, <1>4, CallsRest DEF D!ChildrenInv

\* A step is finished, and its calls leave the record.
LEMMA FinishStepKeeps ==
  ASSUME D!ChildrenInv, D!FinishStep
  PROVE  D!ChildrenInv'
  <1> USE ChildrenParts
  <1>1. /\ x2' = x2 /\ x3' = x3 /\ x5' = D!Cleared /\ x4' = x4
        /\ x6' = x6 /\ x10' = x10 /\ x8' = x8
        /\ x1' = [x1 EXCEPT !.step = @ + 1] /\ x1.state = "running"
        /\ \A c \in SubCalls : D!InStep(c) => x2[c].pc = "result" /\ c \in x3
    BY DEF D!FinishStep, D!Page, D!StepDone
  <1>2. x1'.state = "running"
    BY <1>1 DEF D!DataFits
  <1>3. \A c \in SubCalls : ~D!Active(c) /\ ~D!Active(c)'
    BY <1>1 DEF D!TurnFits, D!Active
  <1>4. D!LedgerKnowsTheChild'
    <2> SUFFICES ASSUME NEW c \in SubCalls, x2[c].announced, c \notin x3
                 PROVE  c \in DOMAIN D!Cleared /\ D!Cleared[c] = x2[c].child
      BY <1>1 DEF D!LedgerKnowsTheChild
    <2>1. c \in DOMAIN x5 /\ x5[c] = x2[c].child /\ ~D!InStep(c)
      BY <1>1 DEF D!TurnFits, D!LedgerKnowsTheChild
    <2> QED
      BY <2>1 DEF D!Cleared, D!Restrict
  <1>5. D!TurnFits'
    BY <1>1, <1>2, <1>3, <1>4 DEF D!TurnFits
  <1>6. D!PageFits'
    BY <1>1, <1>2, <1>3, CallsRest, QuietKeepsPage DEF RowExcused
  <1>7. D!DataFits'
    BY <1>1, <1>2, TurnDataKept
  <1> QED
    BY <1>1, <1>5, <1>6, <1>7, CallsRest DEF D!ChildrenInv

\* The user aborts the turn.
LEMMA AbortKeeps ==
  ASSUME D!ChildrenInv, D!Abort
  PROVE  D!ChildrenInv'
  <1> USE ChildrenParts
  <1>1. /\ x2' = x2 /\ x3' = x3 /\ x5' = x5 /\ x4' = x4
        /\ x6' = x6 /\ x10' = x10 /\ x8' = x8
        /\ x1' = [x1 EXCEPT !.state = "aborting"] /\ x1.state = "running"
    BY DEF D!Abort, D!Page
  <1>2. x1'.state = "aborting" /\ x1'.n = x1.n /\ x1'.step = x1.step
    BY <1>1 DEF D!DataFits
  <1>3. D!TurnFits'
    BY <1>1, <1>2 DEF D!TurnFits, D!LedgerKnowsTheChild, D!Active, D!InStep
  <1>4. D!PageFits'
    BY <1>1, <1>2, CallsRest, QuietKeepsPage DEF RowExcused, D!Active
  <1>5. D!DataFits'
    BY <1>1, <1>2, TurnDataKept
  <1> QED
    BY <1>1, <1>3, <1>4, <1>5, CallsRest DEF D!ChildrenInv

\* The turn ends or fails.
LEMMA EndTurnKeeps ==
  ASSUME D!ChildrenInv, NEW failed \in BOOLEAN, D!EndTurn(failed)
  PROVE  D!ChildrenInv'
  <1> USE ChildrenParts
  <1>1. /\ x2' = x2 /\ x3' = x3 /\ x5' = x5 /\ x4' = x4
        /\ x6' = x6 /\ x10' = x10 /\ x1.state = "running"
        /\ x1' = [x1 EXCEPT !.state = IF failed THEN "failing" ELSE "ending"]
        /\ \A c \in SubCalls : ~D!InStep(c)
    BY DEF D!EndTurn, D!Page
  <1>2. x1'.state \in {"failing", "ending"} /\ x1' = [x1 EXCEPT !.state = x1'.state]
    <2>1. PICK state \in {"failing", "ending"} : x1' = [x1 EXCEPT !.state = state]
      BY <1>1
    <2>2. x1'.state = state
      BY <2>1 DEF D!DataFits
    <2> QED
      BY <2>1, <2>2
  <1>3. \A c \in SubCalls : ~D!Active(c) /\ ~D!Active(c)'
    BY <1>1 DEF D!TurnFits, D!Active
  <1>4. D!TurnFits'
    BY <1>1, <1>2, <1>3 DEF D!TurnFits, D!LedgerKnowsTheChild
  <1>5. CASE failed
    <2>1. /\ D!Event("turn_error", NoValue, NoValue) \in D!Events
          /\ D!Event("turn_error", NoValue, NoValue).type = "turn_error"
      BY DEF D!Event, D!Events
    <2>2. PICK e \in D!Events : e = D!Event("turn_error", NoValue, NoValue) /\ e.type = "turn_error"
      BY <2>1
    <2>3. x8' = Append(x8, e)
      BY <1>5, <2>2 DEF D!EndTurn, D!Emit, D!Durable
    <2>4. D!PageFits'
      BY <1>1, <1>2, <1>3, <2>2, <2>3, CallsRest, EventKeepsPage DEF RowExcused, D!Ends
    <2>5. D!DataFits'
      BY <1>1, <1>2, <2>3, TurnDataKept
    <2> QED
      BY <1>1, <1>4, <2>4, <2>5, CallsRest DEF D!ChildrenInv
  <1>6. CASE ~failed
    <2>1. x8' = x8
      BY <1>6 DEF D!EndTurn
    <2>2. D!PageFits'
      BY <1>1, <1>2, <1>3, <2>1, CallsRest, QuietKeepsPage DEF RowExcused
    <2>3. D!DataFits'
      BY <1>1, <1>2, <2>1, TurnDataKept
    <2> QED
      BY <1>1, <1>4, <2>2, <2>3, CallsRest DEF D!ChildrenInv
  <1> QED
    BY <1>5, <1>6

\* The end of the turn is told.
LEMMA TurnOverKeeps ==
  ASSUME D!ChildrenInv, D!TurnOver
  PROVE  D!ChildrenInv'
  <1> USE ChildrenParts
  <1>1. /\ x2' = x2 /\ x3' = x3 /\ x5' = x5 /\ x4' = x4
        /\ x6' = x6 /\ x10' = x10
        /\ x1' = [x1 EXCEPT !.state = "idle"]
        /\ \A c \in SubCalls : ~D!Active(c)
    BY DEF D!TurnOver, D!Page
  <1>2. x1'.state = "idle" /\ x1' = [x1 EXCEPT !.state = x1'.state]
    BY <1>1 DEF D!DataFits
  <1>3. /\ D!Event("turn_status", NoValue, "idle") \in D!Events
        /\ D!Ends(D!Event("turn_status", NoValue, "idle"))
    BY DEF D!Event, D!Events, D!Ends
  <1>4. PICK e \in D!Events : e = D!Event("turn_status", NoValue, "idle") /\ D!Ends(e)
    BY <1>3
  <1>5. x8' = Append(x8, e)
    BY <1>4 DEF D!TurnOver, D!Emit, D!Durable, D!Ends
  <1>6. \A c \in SubCalls : ~D!Active(c)' /\ D!Clears(e, c)
    BY <1>1, <1>4 DEF D!Active, D!Clears
  <1>7. D!TurnFits'
    BY <1>1, <1>2, <1>6 DEF D!TurnFits, D!LedgerKnowsTheChild
  <1>8. D!PageFits'
    BY <1>1, <1>2, <1>4, <1>5, <1>6, CallsRest, EventKeepsPage DEF D!Ends
  <1>9. D!DataFits'
    BY <1>1, <1>2, <1>5, TurnDataKept
  <1> QED
    BY <1>1, <1>7, <1>8, <1>9, CallsRest DEF D!ChildrenInv

\* The server exits and comes up again.
LEMMA CrashKeeps ==
  ASSUME D!ChildrenInv, D!Crash
  PROVE  D!ChildrenInv'
  <1> USE ChildrenParts
  <1>1. /\ x3' = x3 /\ x5' = x5 /\ x4' = x4
        /\ x6' /\ x10' = x10 /\ x8' = D!Replayed
        /\ x1' = [x1 EXCEPT !.state = "idle"]
        /\ x2' = [c \in SubCalls |-> IF D!Active(c) THEN [x2[c] EXCEPT !.pc = "lost"]
                                     ELSE x2[c]]
    BY DEF D!Crash, D!Page
  <1>2. x1'.state = "idle" /\ x1' \in [n : Nat, step : Nat,
                 state : {"idle", "running", "ending", "failing", "aborting"}]
    BY <1>1 DEF D!DataFits
  <1>3. ASSUME NEW c \in SubCalls
        PROVE  /\ x2'[c] \in D!CallRecords /\ x2'[c].child = x2[c].child
               /\ x2'[c].ok = x2[c].ok /\ x2'[c].announced = x2[c].announced
               /\ x2'[c].pc = IF D!Active(c) THEN "lost" ELSE x2[c].pc
    <2>1. x2[c] \in D!CallRecords
      OBVIOUS
    <2>2. [x2[c] EXCEPT !.pc = "lost"] \in D!CallRecords
      BY <2>1 DEF D!CallRecords
    <2> QED
      BY <1>1, <2>1, <2>2 DEF D!CallRecords
  <1>4. x2' \in [SubCalls -> D!CallRecords]
    BY <1>1, <1>3
  <1>5. \A c \in SubCalls : ~D!Active(c)'
    BY <1>3 DEF D!Active
  <1>6. D!TurnFits'
    <2>1. D!LedgerKnowsTheChild'
      BY <1>1, <1>3 DEF D!TurnFits, D!LedgerKnowsTheChild
    <2>2. ASSUME NEW c \in SubCalls
          PROVE  /\ x2'[c].announced => x2'[c].pc \notin {"none", "ready", "checked"}
                 /\ x2'[c].pc \in {"asked", "running"} => x2'[c].announced
      BY <1>3 DEF D!TurnFits, D!Active
    <2> QED
      BY <1>2, <1>5, <2>1, <2>2 DEF D!TurnFits
  <1>7. D!ChildFits'
    <2>1. ASSUME NEW c \in SubCalls
          PROVE  /\ x2'[c].pc \notin {"checked", "asked", "running"}
                 /\ x2'[c].ok =>
                       /\ x2'[c].pc \in {"ended", "finished", "result", "lost"}
                       /\ x2'[c].child \in D!Children /\ x4[x2'[c].child] = "completed"
      BY <1>3 DEF D!ChildFits, D!Active
    <2>2. ASSUME NEW c \in SubCalls, NEW d \in SubCalls, c # d, x2'[c].child = x2'[d].child
          PROVE  ~(x2'[c].ok /\ x2'[d].ok)
      BY <1>3, <2>2 DEF D!ChildFits
    <2> QED
      BY <1>1, <2>1, <2>2 DEF D!ChildFits
  <1>8. WireGrows /\ Len(x8') = Len(x8) /\ Len(x8) \in Nat
    BY <1>1, WireReplayed
  <1>9. \A i \in DOMAIN x8' : ~(Len(x8) < i)
    BY <1>8 DEF WireGrows
  <1>10. D!PageFits'
    BY <1>1, <1>2, <1>3, <1>8, <1>9, ServerKeepsPage
  <1>11. D!DataFits'
    BY <1>1, <1>2, <1>4, <1>8 DEF D!DataFits, WireGrows
  <1> QED
    BY <1>6, <1>7, <1>10, <1>11 DEF D!ChildrenInv

\* The invariant holds at first,
LEMMA ChildrenInit ==
  ASSUME D!Init, D!Assumptions
  PROVE  D!ChildrenInv
  <1>1. D!Unmade \in D!CallRecords /\ D!Unmade.pc = "none" /\ ~D!Unmade.ok /\ ~D!Unmade.announced
    BY DEF D!Unmade, D!CallRecords
  <1>2. x2 \in [SubCalls -> D!CallRecords] /\ \A c \in SubCalls : x2[c] = D!Unmade
    BY <1>1 DEF D!Init
  <1>3. x8 = <<>> /\ x1.state = "idle" /\ x10.rows = {} /\ x10.sending = FALSE
    BY DEF D!Init
  <1>4. D!DataFits
    BY <1>2 DEF D!Init, D!DataFits
  <1>5. D!TurnFits
    BY <1>1, <1>2 DEF D!Init, D!TurnFits, D!LedgerKnowsTheChild, D!Active
  <1>6. D!ChildFits
    <2>1. \A s \in D!Children : x4[s] = NoValue
      BY DEF D!Init
    <2>2. \A s \in D!Children : x4[s] # "running"
      BY <2>1 DEF D!Assumptions
    <2> QED
      BY <1>1, <1>2, <2>2 DEF D!ChildFits
  <1>7. D!PageFits
    BY <1>3 DEF D!PageFits
  <1> QED
    BY <1>4, <1>5, <1>6, <1>7 DEF D!ChildrenInv

\* is kept by every step,
LEMMA ChildrenNext ==
  ASSUME D!ChildrenInv, D!Assumptions, D!Next
  PROVE  D!ChildrenInv'
  BY AbortKeeps, AnnounceKeeps, BeginTurnKeeps, BreakKeeps, CheckKeeps, CrashKeeps, EndTurnKeeps,
     FinishStepKeeps, FinishedKeeps, ForwardKeeps, GiveUpKeeps, LoadKeeps, MakeCallKeeps,
     ReceiveKeeps, RunTaskKeeps, StoreKeeps, TaskEndsKeeps, TurnOverKeeps DEF D!Next

\* and says that the rows are of calls under way or about to go,
LEMMA RowsGoAway ==
  ASSUME D!ChildrenInv
  PROVE  D!RowsAreOfRunningCalls
  <1>1. D!PageFits /\ x8 \in Seq(D!Events)
    BY ChildrenParts
  <1>2. ASSUME NEW r \in x10.rows
        PROVE  /\ r.child = x2[r.call].child /\ r.detail.args \in {NoValue, r.detail.tool}
               /\ \/ D!Active(r.call) \/ x6 \/ x1.state = "aborting"
                  \/ D!Unread(r.call, {"finished", "result", "turn_status", "turn_error"})
    <2>1. D!RowFits(r)
      BY <1>1 DEF D!PageFits
    <2>2. ASSUME NEW i \in DOMAIN x8, D!Clears(x8[i], r.call)
          PROVE  D!Unread(r.call, {"finished", "result", "turn_status", "turn_error"})
      <3>1. x8[i] \in D!Events
        BY <1>1
      <3>2. /\ x8[i].type \in {"finished", "result", "turn_status", "turn_error"}
            /\ x8[i].call \in {r.call, NoValue}
        BY <2>2, <3>1 DEF D!Clears, D!Ends, D!Events
      <3> QED
        BY <3>2 DEF D!Unread
    <2> QED
      BY <2>1, <2>2 DEF D!RowFits, D!GoesAfter
  <1> QED
    BY <1>1, <1>2 DEF D!RowsAreOfRunningCalls, D!PageFits

\* that a running session has one call,
LEMMA OneCallRuns ==
  ASSUME D!ChildrenInv, D!Assumptions
  PROVE  D!ChildHasOneCall
  <1>1. D!ChildFits
    BY ChildrenParts
  <1>2. ASSUME NEW s \in D!Children, x4[s] = "running", ~x6
        PROVE  D!Cardinality({c \in SubCalls : x2[c].child = s /\ x2[c].pc = "running"}) = 1
    <2>1. PICK c \in SubCalls : x2[c].child = s /\ x2[c].pc = "running"
      BY <1>1, <1>2 DEF D!ChildFits
    <2>2. {d \in SubCalls : x2[d].child = s /\ x2[d].pc = "running"} = {c}
      BY <1>1, <2>1 DEF D!ChildFits
    <2> QED
      BY <2>2, CountOfOne
  <1>3. ASSUME NEW c \in SubCalls, x2[c].ok
        PROVE  /\ x4[x2[c].child] = "completed"
               /\ \A d \in SubCalls \ {c} : x2[d].child = x2[c].child => ~x2[d].ok
    BY <1>1, <1>3 DEF D!ChildFits
  <1> QED
    BY <1>2, <1>3 DEF D!ChildHasOneCall

\* and all that is stated of the sub-agents.
LEMMA ChildrenSafe ==
  ASSUME D!ChildrenInv, D!Assumptions
  PROVE  D!RowsAreOfRunningCalls /\ D!LedgerKnowsTheChild /\ D!ChildHasOneCall
  <1>1. D!LedgerKnowsTheChild
    BY ChildrenParts DEF D!TurnFits
  <1> QED
    BY <1>1, RowsGoAway, OneCallRuns

(* For any calls, sessions and tools, whatever is lost, refused, aborted or *)
(* asked for twice: a row of the page is of a call that is under way or    *)
(* goes with an event still to be read, the stored record knows the child  *)
(* of every call announced whose result is not stored, and a session that  *)
(* runs is run by one call (agent.py: _record_pending_delegated_session,   *)
(* run_delegated_task; chat.ts: applyDelegatedProgress).                   *)
THEOREM SubagentsStayAgreed == PartsSpec => []SubagentsAgree
  <1> USE ConstantsAssumption
  <1> DEFINE Inv == part = "children" => D!ChildrenInv
  <1>1. PartsInit => Inv
    BY ChildrenInit DEF PartsInit, InitCloud, InitOrganizations, InitTerminal, InitConnection,
       InitChildren, InitView
  <1>2. Inv /\ [PartsNext]_partsVars => Inv'
    <2> SUFFICES ASSUME Inv, [PartsNext]_partsVars, part' = "children" PROVE D!ChildrenInv'
      OBVIOUS
    <2>1. part = "children"
      BY DEF PartsNext, partsVars, OfCloud, OfOrganizations, OfTerminal, OfConnection, OfChildren, OfView
    <2>2. CASE UNCHANGED partsVars
      <3>1. UNCHANGED <<x1, x2, x3, x4, x5, x6, x7, x8, x9, x10, x11>>
        BY <2>2 DEF partsVars
      <3>2. D!ChildrenInv /\ x8 \in Seq(D!Events) /\ x10.sending \in BOOLEAN
        BY <2>1 DEF D!ChildrenInv, D!DataFits
      <3>3. D!DataFits' /\ D!TurnFits' /\ D!ChildFits'
        BY <3>1, <3>2, ServerRests DEF D!ChildrenInv, D!Server
      <3>4. D!PageFits'
        BY <3>1, <3>2, QuietKeepsPage DEF D!ChildrenInv, AnnouncedStay, RowExcused, D!Active
      <3> QED
        BY <3>3, <3>4 DEF D!ChildrenInv
    <2>3. CASE PartsNext
      <3>1. D!Next
        BY <2>1, <2>3 DEF PartsNext, OfCloud, OfOrganizations, OfTerminal, OfConnection, OfChildren, OfView
      <3> QED
        BY <2>1, <3>1, ChildrenNext
    <2> QED
      BY <2>2, <2>3
  <1>3. Inv => SubagentsAgree
    BY ChildrenSafe DEF SubagentsAgree
  <1> QED
    BY <1>1, <1>2, <1>3, PTL DEF PartsSpec

-----------------------------------------------------------------------------
(* The rows and the tree of tools.                                         *)

\* Sets are finite, and counted, as in the module.
LEMMA CallsCounted ==
  ASSUME NEW T1
  PROVE  V!Cardinality(T1) = Cardinality(T1) /\ V!IsFiniteSet(T1) = IsFiniteSet(T1)
  BY DEF V!Cardinality, Cardinality, V!IsFiniteSet, IsFiniteSet

LEMMA CallsFinite ==
  ASSUME NEW n \in Nat PROVE V!IsFiniteSet(1..n)
  BY CallsCounted, FS_Interval

LEMMA CallsSome ==
  ASSUME NEW T1, V!IsFiniteSet(T1), NEW T2 \in SUBSET T1 PROVE V!IsFiniteSet(T2)
  BY CallsCounted, FS_Subset

LEMMA CallsCount ==
  ASSUME NEW T1, V!IsFiniteSet(T1) PROVE V!Cardinality(T1) \in Nat
  BY CallsCounted, FS_CardinalityType

LEMMA CallsAdd ==
  ASSUME NEW T1, NEW e, V!IsFiniteSet(T1)
  PROVE  /\ V!IsFiniteSet(T1 \cup {e})
         /\ e \notin T1 => V!Cardinality(T1 \cup {e}) = V!Cardinality(T1) + 1
  BY CallsCounted, FS_AddElement

LEMMA CallsSingle == \A e : V!Cardinality({e}) = 1
  BY CallsCounted, FS_Singleton

\* An event that is sent is the last one.
LEMMA EventSent ==
  ASSUME NEW Els, NEW t \in Seq(Els), NEW e \in Els
  PROVE  /\ Append(t, e) \in Seq(Els) /\ Len(t) \in Nat
         /\ DOMAIN Append(t, e) = 1..(Len(t) + 1) /\ DOMAIN t = 1..Len(t)
         /\ Append(t, e)[Len(t) + 1] = e
         /\ \A j \in DOMAIN t : j \in DOMAIN Append(t, e) /\ Append(t, e)[j] = t[j]
         /\ \A j \in DOMAIN Append(t, e) : j \in DOMAIN t \/ j = Len(t) + 1
         /\ \A j \in DOMAIN t : j < Len(t) + 1
  <1>1. Append(t, e) \in Seq(Els) /\ Len(Append(t, e)) = Len(t) + 1
    OBVIOUS
  <1>2. /\ DOMAIN Append(t, e) = 1..(Len(t) + 1) /\ DOMAIN t = 1..Len(t)
        /\ Len(t) \in Nat
    BY <1>1
  <1>3. Append(t, e)[Len(t) + 1] = e /\ \A j \in DOMAIN t : Append(t, e)[j] = t[j]
    OBVIOUS
  <1>4. \A j \in DOMAIN Append(t, e) : j \in DOMAIN t \/ j = Len(t) + 1
    BY <1>2
  <1>5. \A j \in DOMAIN t : j \in DOMAIN Append(t, e) /\ j < Len(t) + 1
    BY <1>2
  <1> QED
    BY <1>1, <1>2, <1>3, <1>4, <1>5

\* The others move up when the first event is read.
LEMMA EventRead ==
  ASSUME NEW Els, NEW t \in Seq(Els), t # <<>>
  PROVE  /\ Tail(t) \in Seq(Els) /\ 1 \in DOMAIN t /\ Head(t) = t[1] /\ t[1] \in Els
         /\ \A i \in DOMAIN Tail(t) : i \in Nat /\ i + 1 \in DOMAIN t /\ Tail(t)[i] = t[i + 1]
         /\ \A j \in DOMAIN t : /\ j \in Nat /\ 1 <= j
                                /\ j # 1 => j - 1 \in DOMAIN Tail(t) /\ Tail(t)[j - 1] = t[j]
  <1>1. /\ Len(t) \in Nat /\ Len(t) >= 1 /\ DOMAIN t = 1..Len(t)
        /\ Tail(t) \in Seq(Els) /\ Len(Tail(t)) = Len(t) - 1
    OBVIOUS
  <1>2. DOMAIN Tail(t) = 1..(Len(t) - 1)
    BY <1>1
  <1>3. \A i \in 1..(Len(t) - 1) : Tail(t)[i] = t[i + 1]
    BY <1>1
  <1>4. \A i \in DOMAIN Tail(t) : i \in Nat /\ i + 1 \in DOMAIN t /\ Tail(t)[i] = t[i + 1]
    BY <1>1, <1>2, <1>3
  <1>5. ASSUME NEW j \in DOMAIN t, j # 1
        PROVE  j - 1 \in DOMAIN Tail(t) /\ Tail(t)[j - 1] = t[j]
    <2>1. j - 1 \in 1..(Len(t) - 1) /\ (j - 1) + 1 = j
      BY <1>1, <1>5
    <2> QED
      BY <1>2, <1>3, <2>1
  <1>6. 1 \in DOMAIN t /\ Head(t) = t[1] /\ t[1] \in Els
    BY <1>1
  <1>7. \A j \in DOMAIN t : j \in Nat /\ 1 <= j
    BY <1>1
  <1> QED
    BY <1>1, <1>4, <1>5, <1>6, <1>7

\* What an event can be.
LEMMA EventIs ==
  /\ \A v \in BOOLEAN : [type |-> "running", value |-> v] \in V!Events
  /\ [type |-> "text"] \in V!Events /\ [type |-> "gap"] \in V!Events
  /\ \A k \in {"call", "finished", "done"} : \A c \in Nat : [type |-> k, call |-> c] \in V!Events
  /\ \A e \in V!Events : /\ V!OfCall(e) => e.call \in Nat
                         /\ e.type = "running" => e.value \in BOOLEAN
  BY DEF V!Events, V!OfCall

\* The events of calls stay, and their order.
LEMMA EventsKept ==
  ASSUME V!StreamFits, NEW at, x2' = x2, x13' = x13, x4' \in Seq(V!Events),
         \A i \in DOMAIN x4' : V!OfCall(x4'[i]) => at[i] \in DOMAIN x4 /\ x4'[i] = x4[at[i]],
         \A i, j \in DOMAIN x4' : (at[i] <= at[j] => i <= j) /\ (at[i] < at[j] => i < j),
         \A k \in DOMAIN x4 : x4[k].type = "call" =>
            \E i \in DOMAIN x4' : at[i] = k /\ x4'[i] = x4[k]
  PROVE  V!StreamFits' /\ \A c : V!Coming(c)' = V!Coming(c)
  <1>1. \A i \in DOMAIN x4' : \A c : V!IsOf(i, c)' => at[i] \in DOMAIN x4 /\ V!IsOf(at[i], c)
    BY DEF V!IsOf
  <1>2. \A i \in DOMAIN x4' : \A c : V!Announces(i, c)' => at[i] \in DOMAIN x4 /\ V!Announces(at[i], c)
                                                         /\ V!OfCall(x4'[i])
    BY DEF V!Announces, V!OfCall
  <1>3. \A k \in DOMAIN x4 : \A c : V!Announces(k, c) =>
           \E i \in DOMAIN x4' : at[i] = k /\ V!Announces(i, c)' /\ V!OfCall(x4'[i])
    BY DEF V!Announces, V!OfCall
  <1>4. \A c : V!Coming(c)' = V!Coming(c)
    BY <1>2, <1>3 DEF V!Coming
  <1>5. \A a, b : V!Before(a, b)' = V!Before(a, b)
    BY DEF V!Before
  <1>6. ASSUME NEW a \in DOMAIN x2, NEW b \in DOMAIN x2, NEW i \in DOMAIN x4',
               V!Before(a, b)', V!IsOf(i, a)'
        PROVE  \E j \in DOMAIN x4' : i < j /\ V!Announces(j, b)'
    <2>1. at[i] \in DOMAIN x4 /\ V!IsOf(at[i], a) /\ V!OfCall(x4'[i])
      BY <1>1, <1>6 DEF V!IsOf
    <2>2. PICK k \in DOMAIN x4 : at[i] < k /\ V!Announces(k, b)
      BY <1>5, <1>6, <2>1 DEF V!StreamFits
    <2>3. PICK j \in DOMAIN x4' : at[j] = k /\ V!Announces(j, b)' /\ V!OfCall(x4'[j])
      BY <1>3, <2>2
    <2>4. i < j
      BY <2>1, <2>2, <2>3
    <2> QED
      BY <2>3, <2>4
  <1>7. ASSUME NEW a \in DOMAIN x2, NEW i \in DOMAIN x4', NEW j \in DOMAIN x4',
               V!Announces(i, a)', V!IsOf(j, a)'
        PROVE  i <= j
    <2>1. at[i] \in DOMAIN x4 /\ V!Announces(at[i], a) /\ V!OfCall(x4'[i])
      BY <1>2, <1>7
    <2>2. at[j] \in DOMAIN x4 /\ V!IsOf(at[j], a) /\ V!OfCall(x4'[j])
      BY <1>1, <1>7 DEF V!IsOf
    <2>3. at[i] <= at[j]
      BY <2>1, <2>2 DEF V!StreamFits
    <2> QED
      BY <2>1, <2>2, <2>3
  <1>8. \A i \in DOMAIN x4' : V!OfCall(x4'[i]) => x4'[i].call \in DOMAIN x2
    BY DEF V!StreamFits
  <1> QED
    BY <1>4, <1>6, <1>7, <1>8 DEF V!StreamFits, V!OfCall

\* The events of calls keep their places.
LEMMA Unmoved ==
  ASSUME V!StreamFits, x2' = x2, x13' = x13, x4' \in Seq(V!Events),
         \A i \in DOMAIN x4' : V!OfCall(x4'[i]) => i \in DOMAIN x4 /\ x4'[i] = x4[i],
         \A k \in DOMAIN x4 : x4[k].type = "call" => k \in DOMAIN x4' /\ x4'[k] = x4[k]
  PROVE  V!StreamFits' /\ \A c : V!Coming(c)' = V!Coming(c)
  <1>1. PICK at : \A i \in DOMAIN x4' : at[i] = i
    <2>1. \A i \in DOMAIN x4' : [k \in DOMAIN x4' |-> k][i] = i
      OBVIOUS
    <2> QED
      BY <2>1
  <1>2. \A i \in DOMAIN x4' : V!OfCall(x4'[i]) => at[i] \in DOMAIN x4 /\ x4'[i] = x4[at[i]]
    BY <1>1
  <1>3. \A i, j \in DOMAIN x4' : (at[i] <= at[j] => i <= j) /\ (at[i] < at[j] => i < j)
    BY <1>1
  <1>4. \A k \in DOMAIN x4 : x4[k].type = "call" =>
           \E i \in DOMAIN x4' : at[i] = k /\ x4'[i] = x4[k]
    BY <1>1
  <1> QED
    BY <1>2, <1>3, <1>4, EventsKept

\* An event that is not of a call is sent.
LEMMA SentQuiet ==
  ASSUME V!StreamFits, NEW e \in V!Events, ~V!OfCall(e), x4' = Append(x4, e),
         x2' = x2, x13' = x13
  PROVE  V!StreamFits' /\ \A c : V!Coming(c)' = V!Coming(c)
  <1>1. /\ x4' \in Seq(V!Events) /\ x4'[Len(x4) + 1] = e
        /\ \A j \in DOMAIN x4 : j \in DOMAIN x4' /\ x4'[j] = x4[j]
        /\ \A j \in DOMAIN x4' : j \in DOMAIN x4 \/ j = Len(x4) + 1
    BY EventSent DEF V!StreamFits
  <1>2. \A i \in DOMAIN x4' : V!OfCall(x4'[i]) => i \in DOMAIN x4 /\ x4'[i] = x4[i]
    BY <1>1
  <1> QED
    BY <1>1, <1>2, Unmoved

\* The stream breaks: what was not logged is a gap.
LEMMA BrokenQuiet ==
  ASSUME V!StreamFits, x2' = x2, x13' = x13,
         x4' = [i \in DOMAIN x4 |-> IF V!Logged(x4[i]) THEN x4[i] ELSE [type |-> "gap"]]
  PROVE  V!StreamFits' /\ \A c : V!Coming(c)' = V!Coming(c)
  <1>1. x4 \in Seq(V!Events) /\ DOMAIN x4 = 1..Len(x4) /\ Len(x4) \in Nat
    BY DEF V!StreamFits
  <1>2. \A i \in DOMAIN x4 : x4[i] \in V!Events /\ x4'[i] \in V!Events
    BY <1>1, EventIs
  <1>3. x4' \in Seq(V!Events) /\ DOMAIN x4' = DOMAIN x4
    BY <1>1, <1>2
  <1>4. \A i \in DOMAIN x4 : V!OfCall(x4'[i]) => x4'[i] = x4[i]
    BY DEF V!OfCall
  <1>5. \A i \in DOMAIN x4 : x4[i].type = "call" => x4'[i] = x4[i]
    BY DEF V!Logged
  <1>6. \A i \in DOMAIN x4' : V!OfCall(x4'[i]) => i \in DOMAIN x4 /\ x4'[i] = x4[i]
    BY <1>3, <1>4
  <1>7. \A k \in DOMAIN x4 : x4[k].type = "call" => k \in DOMAIN x4' /\ x4'[k] = x4[k]
    BY <1>3, <1>5
  <1>8. x4' \in Seq(V!Events)
    BY <1>3
  <1> QED
    BY <1>6, <1>7, <1>8, Unmoved

\* What the renderer knows stays, as long as no call is announced.
LEMMA RowsQuiet ==
  ASSUME V!RowsFit, x2' = x2, UNCHANGED V!renderer, \A c : V!Coming(c)' = V!Coming(c)
  PROVE  V!RowsFit'
  <1>1. /\ x8' = x8 /\ x9' = x9 /\ x10' = x10 /\ x13' = x13
    BY DEF V!renderer
  <1>2. \A c : V!LastOfId(c)' = V!LastOfId(c) /\ V!LastOfKey(c)' = V!LastOfKey(c)
                 /\ V!Pending(c)' = V!Pending(c)
    BY DEF V!LastOfId, V!LastOfKey, V!Key, V!Pending
  <1> QED
    BY <1>1, <1>2 DEF V!RowsFit

\* The calls stay, in a turn that goes on, ends or is followed by the next.
LEMMA CallsQuiet ==
  ASSUME V!CallsFit, x2' = x2,
         \/ x1' = x1
         \/ /\ DOMAIN x1' = {"number", "owner", "step"} /\ x1'.number \in Nat /\ x1'.step \in Nat
            /\ \/ x1'.number = x1.number + 1
               \/ x1'.number = x1.number /\ x1'.step = x1.step
               \/ /\ x1'.number = x1.number /\ x1'.step = x1.step + 1
                  /\ V!OfTurn("ready") \cup V!OfTurn("finished") = {}
  PROVE  V!CallsFit'
  <1>1. \A c \in DOMAIN x2 : x2[c] \in V!Calls
    BY DEF V!CallsFit
  <1>2. \A c \in DOMAIN x2 : x2[c].turn \in Nat /\ x2[c].step \in Nat
                             /\ x2[c].state \in {"ready", "finished", "done"}
    BY <1>1 DEF V!Calls
  <1>3. /\ \A a, b : V!Before(a, b)' = V!Before(a, b) /\ V!Key(a)' = V!Key(a)
        /\ \A a : V!SameStep(a)' = V!SameStep(a)
    BY DEF V!Before, V!Key, V!SameStep
  <1>4. /\ x1'.number \in Nat /\ x1'.step \in Nat /\ DOMAIN x1' = {"number", "owner", "step"}
        /\ x1.number \in Nat /\ x1.step \in Nat
    BY DEF V!CallsFit
  <1>5. ASSUME NEW c \in DOMAIN x2
        PROVE  /\ x2[c].turn <= x1'.number
               /\ x2[c].turn = x1'.number => x2[c].step <= x1'.step
               /\ x2[c].turn = x1'.number /\ x2[c].state # "done" => x2[c].step = x1'.step
    <2>1. /\ x2[c].turn <= x1.number
          /\ x2[c].turn = x1.number => x2[c].step <= x1.step
          /\ x2[c].turn = x1.number /\ x2[c].state # "done" => x2[c].step = x1.step
      BY DEF V!CallsFit
    <2>2. CASE x1' = x1
      BY <2>1, <2>2
    <2>3. CASE x1'.number = x1.number + 1
      BY <1>2, <1>4, <2>1, <2>3
    <2>4. CASE x1'.number = x1.number /\ x1'.step = x1.step
      BY <2>1, <2>4
    <2>5. CASE /\ x1'.number = x1.number /\ x1'.step = x1.step + 1
               /\ V!OfTurn("ready") \cup V!OfTurn("finished") = {}
      <3>1. x2[c].turn = x1.number => x2[c].state = "done"
        BY <1>2, <2>5 DEF V!OfTurn
      <3> QED
        BY <1>2, <1>4, <2>1, <2>5, <3>1
    <2> QED
      BY <2>2, <2>3, <2>4, <2>5
  <1> QED
    BY <1>3, <1>4, <1>5 DEF V!CallsFit

\* The calls there were are in their places.
PlacesStay ==
  /\ DOMAIN x2 \subseteq DOMAIN x2'
  /\ \A c \in DOMAIN x2 :
        /\ x2'[c].turn = x2[c].turn /\ x2'[c].step = x2[c].step
        /\ x2'[c].index = x2[c].index /\ x2'[c].id = x2[c].id

\* Their places and their order are what they were.
LEMMA PlacesKept ==
  ASSUME PlacesStay
  PROVE  /\ \A a, b \in DOMAIN x2 : V!Before(a, b)' = V!Before(a, b)
         /\ \A a \in DOMAIN x2 : V!Key(a)' = V!Key(a) /\ V!Pending(a)' = V!Pending(a)
  <1>1. \A a \in DOMAIN x2 : V!Key(a)' = V!Key(a)
    BY DEF PlacesStay, V!Key
  <1>2. \A a, b \in DOMAIN x2 : V!Before(a, b)' = V!Before(a, b)
    BY DEF PlacesStay, V!Before
  <1> QED
    BY <1>1, <1>2 DEF V!Pending

\* An event of a call is sent, and of no call of an earlier step.
LEMMA SentOfCall ==
  ASSUME V!StreamFits, PlacesStay, NEW c \in DOMAIN x2', c \in Nat, NEW kind \in {"call", "finished", "done"},
         x4' = Append(x4, [type |-> kind, call |-> c]), x13' = x13,
         x13 \subseteq DOMAIN x2,
         \A b \in DOMAIN x2' : ~V!Before(c, b)',
         \A d \in DOMAIN x2' : d \in DOMAIN x2 \/ (d = c /\ kind = "call"),
         kind = "call" => c \notin DOMAIN x2
  PROVE  /\ V!StreamFits'
         /\ \A d : V!Coming(d)' <=> (V!Coming(d) \/ (d = c /\ kind = "call"))
  <1>1. PICK e \in V!Events : e = [type |-> kind, call |-> c]
    BY EventIs
  <1>2. V!OfCall(e) /\ e.type = kind /\ e.call = c
    BY <1>1 DEF V!OfCall
  <1>3. x4' = Append(x4, e) /\ x4 \in Seq(V!Events)
    BY <1>1 DEF V!StreamFits
  <1>4. PICK last \in Nat : last = Len(x4) + 1
    BY <1>3
  <1>5. /\ x4' \in Seq(V!Events) /\ x4'[last] = e /\ last \in DOMAIN x4'
        /\ \A j \in DOMAIN x4 : j \in DOMAIN x4' /\ x4'[j] = x4[j]
        /\ \A j \in DOMAIN x4' : j \in DOMAIN x4 \/ j = last
        /\ \A j \in DOMAIN x4 : j < last /\ j \in Nat
    <2>1. DOMAIN x4 \subseteq Nat
      BY <1>3
    <2> QED
      BY <1>3, <1>4, <2>1, EventSent
  <1>6. \A j \in DOMAIN x4 : \A d :
           /\ V!IsOf(j, d)' <=> V!IsOf(j, d)
           /\ V!Announces(j, d)' <=> V!Announces(j, d)
    BY <1>5 DEF V!IsOf, V!Announces
  <1>7. \A d : /\ V!IsOf(last, d)' => d = c
               /\ V!Announces(last, d)' <=> (d = c /\ kind = "call")
    BY <1>2, <1>5 DEF V!IsOf, V!Announces
  <1>8. ASSUME NEW d
        PROVE  V!Coming(d)' <=> (V!Coming(d) \/ (d = c /\ kind = "call"))
    <2>1. ASSUME V!Coming(d)' PROVE V!Coming(d) \/ (d = c /\ kind = "call")
      <3>1. PICK i \in DOMAIN x4' : V!Announces(i, d)'
        BY <2>1 DEF V!Coming
      <3>2. CASE i \in DOMAIN x4
        BY <1>5, <3>1, <3>2 DEF V!Coming, V!Announces
      <3>3. CASE i = last
        BY <1>7, <3>1, <3>3
      <3> QED
        BY <1>5, <3>2, <3>3
    <2>2. ASSUME V!Coming(d) PROVE V!Coming(d)'
      <3>1. PICK i \in DOMAIN x4 : V!Announces(i, d)
        BY <2>2 DEF V!Coming
      <3>2. i \in DOMAIN x4' /\ V!Announces(i, d)'
        BY <1>5, <1>6, <3>1
      <3> QED
        BY <3>2 DEF V!Coming
    <2>3. ASSUME d = c, kind = "call" PROVE V!Coming(d)'
      BY <1>5, <1>7, <2>3 DEF V!Coming
    <2> QED
      BY <2>1, <2>2, <2>3
  <1>9. \A i \in DOMAIN x4' : V!OfCall(x4'[i]) => x4'[i].call \in DOMAIN x2'
    <2>1. \A i \in DOMAIN x4 : V!OfCall(x4[i]) => x4[i].call \in DOMAIN x2'
      BY DEF V!StreamFits, PlacesStay
    <2> QED
      BY <1>2, <1>5, <2>1
  <1>10. \A i \in DOMAIN x4 : \A d : V!IsOf(i, d) => d \in DOMAIN x2
    BY DEF V!StreamFits, V!IsOf
  <1>11. ASSUME NEW a \in DOMAIN x2', NEW b \in DOMAIN x2', NEW i \in DOMAIN x4',
                V!Before(a, b)', V!IsOf(i, a)'
         PROVE  \E j \in DOMAIN x4' : i < j /\ V!Announces(j, b)'
    <2>1. i \in DOMAIN x4 /\ V!IsOf(i, a) /\ a \in DOMAIN x2
      <3>1. a # c
        BY <1>11
      <3>2. i # last
        BY <1>7, <1>11, <3>1
      <3>3. i \in DOMAIN x4
        BY <1>5, <3>2
      <3>4. V!IsOf(i, a)
        BY <1>5, <1>11, <3>3 DEF V!IsOf
      <3> QED
        BY <1>10, <3>3, <3>4
    <2>2. CASE b \in DOMAIN x2
      <3>1. V!Before(a, b)
        BY <1>11, <2>1, <2>2, PlacesKept
      <3>2. PICK j \in DOMAIN x4 : i < j /\ V!Announces(j, b)
        BY <2>1, <2>2, <3>1 DEF V!StreamFits
      <3> QED
        BY <1>5, <1>6, <3>2
    <2>3. CASE b = c /\ kind = "call"
      BY <1>5, <1>7, <2>1, <2>3
    <2> QED
      BY <2>2, <2>3
  <1>12. ASSUME NEW a \in DOMAIN x2', NEW i \in DOMAIN x4', NEW j \in DOMAIN x4',
                V!Announces(i, a)', V!IsOf(j, a)'
         PROVE  i <= j
    <2>1. CASE i \in DOMAIN x4 /\ j \in DOMAIN x4
      <3>1. V!Announces(i, a) /\ V!IsOf(j, a)
        BY <1>5, <1>12, <2>1 DEF V!Announces, V!IsOf
      <3>2. a \in DOMAIN x2
        BY <1>10, <2>1, <3>1
      <3> QED
        BY <2>1, <3>1, <3>2 DEF V!StreamFits
    <2>2. CASE j = last
      BY <1>4, <1>5, <2>2
    <2>3. CASE i = last /\ j \in DOMAIN x4
      <3>1. a = c /\ kind = "call"
        BY <1>7, <1>12, <2>3
      <3>2. V!IsOf(j, a)
        BY <1>5, <1>12, <2>3 DEF V!IsOf
      <3>3. a \in DOMAIN x2
        BY <1>10, <2>3, <3>2
      <3> QED
        BY <3>1, <3>3
    <2> QED
      BY <1>5, <2>1, <2>2, <2>3
  <1>13. \A a \in x13' : ~V!Coming(a)'
    BY <1>8 DEF V!StreamFits
  <1>14. x4' \in Seq(V!Events)
    BY <1>5
  <1>15. V!StreamFits'
    BY <1>9, <1>11, <1>12, <1>13, <1>14 DEF V!StreamFits, V!OfCall
  <1> QED
    BY <1>8, <1>15

\* One of a sequence is replaced.
LEMMA SeqSet ==
  ASSUME NEW Els, NEW t \in Seq(Els), NEW i \in DOMAIN t, NEW e \in Els
  PROVE  [t EXCEPT ![i] = e] \in Seq(Els)
  OBVIOUS

\* A result is sent.
LEMMA SentResult ==
  ASSUME V!CallsFit, V!StreamFits, V!RowsFit, NEW c \in DOMAIN x2, NEW to \in {"finished", "done"},
         x2[c].turn = x1.number, x2[c].state # "done", x1' = x1,
         x2' = [x2 EXCEPT ![c].state = to],
         x4' = Append(x4, [type |-> to, call |-> c]), UNCHANGED V!renderer
  PROVE  V!CallsFit' /\ V!StreamFits' /\ V!RowsFit' /\ PlacesStay
  <1>1. /\ x2 \in Seq(V!Calls) /\ DOMAIN x2 \subseteq Nat
        /\ \A a \in DOMAIN x2 : x2[a] \in V!Calls
    BY DEF V!CallsFit
  <1>2. \A a \in DOMAIN x2 : /\ x2[a].turn \in Nat /\ x2[a].step \in Nat
                             /\ x2[a].state \in {"ready", "finished", "done"}
    BY <1>1 DEF V!Calls
  <1>3. /\ x2' \in Seq(V!Calls) /\ DOMAIN x2' = DOMAIN x2
        /\ \A a \in DOMAIN x2 : a # c => x2'[a] = x2[a]
        /\ x2'[c] = [x2[c] EXCEPT !.state = to]
    <2>1. [x2[c] EXCEPT !.state = to] \in V!Calls
      BY <1>1 DEF V!Calls
    <2>2. DOMAIN x2' = DOMAIN x2
      OBVIOUS
    <2>3. \A a \in DOMAIN x2 : a # c => x2'[a] = x2[a]
      OBVIOUS
    <2>4. x2'[c] = [x2[c] EXCEPT !.state = to]
      OBVIOUS
    <2>5. x2' \in Seq(V!Calls)
      <3>1. PICK r \in V!Calls : r = [x2[c] EXCEPT !.state = to]
        BY <2>1
      <3>2. [x2 EXCEPT ![c] = r] \in Seq(V!Calls)
        BY <1>1, SeqSet
      <3>3. x2' = [x2 EXCEPT ![c] = r]
        BY <3>1
      <3> QED
        BY <3>2, <3>3
    <2> QED
      BY <2>2, <2>3, <2>4, <2>5
  <1>4. /\ x2'[c].turn = x2[c].turn /\ x2'[c].step = x2[c].step
        /\ x2'[c].index = x2[c].index /\ x2'[c].id = x2[c].id /\ x2'[c].state = to
    BY <1>1, <1>3 DEF V!Calls
  <1>5. PlacesStay
    BY <1>3, <1>4 DEF PlacesStay
  <1>6. \A a \in DOMAIN x2 : V!SameStep(a)' = V!SameStep(a)
    BY <1>3, <1>5 DEF V!SameStep, PlacesStay
  <1>7. V!CallsFit'
    <2>1. \A a \in DOMAIN x2 : x2'[a].state = x2[a].state \/ a = c
      BY <1>3
    <2>2. ASSUME NEW a \in DOMAIN x2
          PROVE  /\ x2'[a].turn <= x1'.number
                 /\ x2'[a].turn = x1'.number => x2'[a].step <= x1'.step
                 /\ x2'[a].turn = x1'.number /\ x2'[a].state # "done" => x2'[a].step = x1'.step
                 /\ x2'[a].index < V!Cardinality(V!SameStep(a)')
      BY <1>5, <1>6, <2>1 DEF V!CallsFit, PlacesStay
    <2>3. ASSUME NEW a \in DOMAIN x2, NEW b \in DOMAIN x2, a < b,
                 x2'[a].id = x2'[b].id \/ V!Key(a)' = V!Key(b)'
          PROVE  V!Before(a, b)'
      BY <1>5, <2>3, PlacesKept DEF V!CallsFit, PlacesStay
    <2>4. x1'.number \in Nat /\ x1'.step \in Nat /\ DOMAIN x1' = {"number", "owner", "step"}
      BY DEF V!CallsFit
    <2> QED
      BY <1>3, <2>2, <2>3, <2>4 DEF V!CallsFit
  <1>8. x13' = x13 /\ x8' = x8 /\ x9' = x9 /\ x10' = x10
    BY DEF V!renderer
  <1>9. ASSUME NEW b \in DOMAIN x2' PROVE ~V!Before(c, b)'
    <2>1. /\ x2[b].turn <= x1.number
          /\ x2[b].turn = x1.number => x2[b].step <= x1.step
          /\ x2[c].step = x1.step /\ x1.number \in Nat /\ x1.step \in Nat
      BY <1>3 DEF V!CallsFit
    <2>2. ~V!Before(c, b)
      BY <1>2, <1>3, <2>1 DEF V!Before
    <2> QED
      BY <1>3, <1>5, <2>2, PlacesKept
  <1>10. V!StreamFits' /\ \A d : V!Coming(d)' <=> V!Coming(d)
    <2>1. x13 \subseteq DOMAIN x2 /\ c \in Nat /\ to # "call"
      BY <1>1 DEF V!RowsFit
    <2> QED
      BY <1>3, <1>5, <1>8, <1>9, <2>1, SentOfCall
  <1>11. V!RowsFit'
    <2>1. ASSUME NEW d \in DOMAIN x2
          PROVE  (V!LastOfId(d)' <=> V!LastOfId(d)) /\ (V!LastOfKey(d)' <=> V!LastOfKey(d))
      BY <1>3, <1>5, <1>10, PlacesKept DEF V!LastOfId, V!LastOfKey, PlacesStay
    <2>2. ASSUME NEW d \in DOMAIN x2
          PROVE  /\ V!LastOfId(d)' => (x2'[d].id \in x9' <=> d \in x13')
                 /\ V!LastOfKey(d)' /\ d \notin x13' => V!Pending(d)' \in x8'
      BY <1>5, <1>8, <2>1, PlacesKept DEF V!RowsFit, PlacesStay
    <2> QED
      BY <1>3, <1>8, <2>2 DEF V!RowsFit
  <1> QED
    BY <1>5, <1>7, <1>10, <1>11

\* How many calls a step has, when there is one more.
LEMMA StepGrows ==
  ASSUME NEW Els, x2 \in Seq(Els), NEW r \in Els, x2' = Append(x2, r)
  PROVE  /\ \A c \in DOMAIN x2 :
                /\ V!Cardinality(V!SameStep(c)) \in Nat /\ V!Cardinality(V!SameStep(c)') \in Nat
                /\ V!Cardinality(V!SameStep(c)) <= V!Cardinality(V!SameStep(c)')
         /\ \A n : n = Len(x2) + 1 =>
              LET old == {d \in DOMAIN x2 : x2[d].turn = r.turn /\ x2[d].step = r.step}
              IN  V!Cardinality(old) \in Nat /\ V!Cardinality(V!SameStep(n)') = V!Cardinality(old) + 1
  <1>1. PICK n : n = Len(x2) + 1
    OBVIOUS
  <1>2. /\ DOMAIN x2 = 1..Len(x2) /\ Len(x2) \in Nat /\ n \notin DOMAIN x2
        /\ DOMAIN x2' = DOMAIN x2 \cup {n} /\ x2'[n] = r
        /\ \A j \in DOMAIN x2 : x2'[j] = x2[j]
    <2>1. /\ DOMAIN x2 = 1..Len(x2) /\ Len(x2) \in Nat
          /\ DOMAIN x2' = 1..(Len(x2) + 1) /\ x2'[n] = r
          /\ \A j \in DOMAIN x2 : x2'[j] = x2[j]
      BY <1>1, EventSent
    <2> QED
      BY <1>1, <2>1
  <1>3. ASSUME NEW Some, Some \subseteq DOMAIN x2
        PROVE  /\ V!IsFiniteSet(Some) /\ V!Cardinality(Some) \in Nat
               /\ V!Cardinality(Some \cup {n}) = V!Cardinality(Some) + 1 /\ V!IsFiniteSet(Some \cup {n})
    <2>1. Some \in SUBSET (1..Len(x2)) /\ 1 \in Int /\ Len(x2) \in Int
      BY <1>2, <1>3
    <2>2. V!IsFiniteSet(1..Len(x2))
      BY <2>1, CallsFinite
    <2>3. V!IsFiniteSet(Some)
      BY <2>1, <2>2, CallsSome
    <2>4. V!Cardinality(Some \cup {n}) = V!Cardinality(Some) + 1 /\ V!IsFiniteSet(Some \cup {n})
      BY <1>2, <1>3, <2>3, CallsAdd
    <2> QED
      BY <2>3, <2>4, CallsCount
  <1>4. ASSUME NEW c \in DOMAIN x2
        PROVE  /\ V!Cardinality(V!SameStep(c)) \in Nat /\ V!Cardinality(V!SameStep(c)') \in Nat
               /\ V!Cardinality(V!SameStep(c)) <= V!Cardinality(V!SameStep(c)')
    <2>1. V!SameStep(c) \subseteq DOMAIN x2
      BY DEF V!SameStep
    <2>2. V!SameStep(c)' = V!SameStep(c) \/ V!SameStep(c)' = V!SameStep(c) \cup {n}
      BY <1>2 DEF V!SameStep
    <2>3. PICK k \in Nat : k = V!Cardinality(V!SameStep(c)) /\ V!Cardinality(V!SameStep(c) \cup {n}) = k + 1
      BY <1>3, <2>1
    <2>4. CASE V!SameStep(c)' = V!SameStep(c)
      <3>1. V!Cardinality(V!SameStep(c)') = k
        BY <2>3, <2>4
      <3> QED
        BY <2>3, <3>1
    <2>5. CASE V!SameStep(c)' = V!SameStep(c) \cup {n}
      <3>1. V!Cardinality(V!SameStep(c)') = k + 1
        BY <2>3, <2>5
      <3> QED
        BY <2>3, <3>1
    <2> QED
      BY <2>2, <2>4, <2>5
  <1> DEFINE old == {d \in DOMAIN x2 : x2[d].turn = r.turn /\ x2[d].step = r.step}
  <1>5. V!SameStep(n)' = old \cup {n}
    BY <1>2 DEF V!SameStep
  <1>6. V!Cardinality(old) \in Nat /\ V!Cardinality(old \cup {n}) = V!Cardinality(old) + 1
    BY <1>3
  <1> QED
    BY <1>1, <1>4, <1>5, <1>6

\* The model makes a call.
LEMMA SentCall ==
  ASSUME V!CallsFit, V!StreamFits, V!RowsFit, V!Call
  PROVE  V!CallsFit' /\ V!StreamFits' /\ V!RowsFit' /\ PlacesStay
  <1>1. PICK n \in Nat : n = Len(x2) + 1
    BY DEF V!CallsFit
  <1>2. /\ x2 \in Seq(V!Calls) /\ DOMAIN x2 = 1..Len(x2) /\ Len(x2) \in Nat
        /\ x1.number \in Nat /\ x1.step \in Nat /\ x13 \subseteq DOMAIN x2
    BY DEF V!CallsFit, V!RowsFit
  <1>3. PICK index : index = V!Cardinality({d \in DOMAIN x2 : x2[d].turn = x1.number
                                                              /\ x2[d].step = x1.step})
    OBVIOUS
  <1>4. PICK id \in ToolIds :
           /\ \A c \in V!OfTurn("ready") : x2[c].id # id
           /\ x2' = Append(x2, [turn |-> x1.number, step |-> x1.step, index |-> index,
                                id |-> id, state |-> "ready"])
           /\ V!Emit([type |-> "call", call |-> n])
    BY <1>1, <1>3 DEF V!Call
  <1>5. /\ x1' = x1 /\ x13' = x13 /\ x8' = x8 /\ x9' = x9 /\ x10' = x10
        /\ \A c \in V!OfTurn("finished") \cup V!OfTurn("done") : x2[c].step # x1.step
    BY DEF V!Call, V!client, V!renderer
  <1>6. x4' = Append(x4, [type |-> "call", call |-> n])
    BY <1>4 DEF V!Emit
  <1>7. index \in Nat
    <2>1. V!IsFiniteSet(1..Len(x2))
      BY <1>2, CallsFinite
    <2>2. {d \in DOMAIN x2 : x2[d].turn = x1.number /\ x2[d].step = x1.step}
             \in SUBSET (1..Len(x2))
      BY <1>2
    <2> QED
      BY <1>3, <2>1, <2>2, CallsSome, CallsCount
  <1>8. PICK r \in V!Calls : r = [turn |-> x1.number, step |-> x1.step, index |-> index,
                                  id |-> id, state |-> "ready"]
    BY <1>2, <1>7 DEF V!Calls
  <1>9. /\ r.turn = x1.number /\ r.step = x1.step /\ r.index = index /\ r.id = id /\ r.state = "ready"
        /\ x2' = Append(x2, r)
    BY <1>4, <1>8
  <1>10. /\ x2' \in Seq(V!Calls) /\ x2'[n] = r /\ n \in DOMAIN x2' /\ n \notin DOMAIN x2
         /\ \A c \in DOMAIN x2 : c \in DOMAIN x2' /\ x2'[c] = x2[c] /\ c < n /\ c \in Nat
         /\ \A c \in DOMAIN x2' : c \in DOMAIN x2 \/ c = n
    <2>1. /\ x2' \in Seq(V!Calls) /\ x2'[n] = r /\ n \in DOMAIN x2'
          /\ \A c \in DOMAIN x2 : c \in DOMAIN x2' /\ x2'[c] = x2[c] /\ c < n
          /\ \A c \in DOMAIN x2' : c \in DOMAIN x2 \/ c = n
      BY <1>1, <1>2, <1>9, EventSent
    <2> QED
      BY <1>1, <1>2, <2>1
  <1>11. PlacesStay
    BY <1>10 DEF PlacesStay
  <1>12. \A c \in DOMAIN x2 : /\ x2[c].turn \in Nat /\ x2[c].step \in Nat /\ x2[c].index \in Nat
                              /\ x2[c].state \in {"ready", "finished", "done"}
    <2>1. \A c \in DOMAIN x2 : x2[c] \in V!Calls
      BY <1>2
    <2> QED
      BY <2>1 DEF V!Calls
  <1>13. V!CallsFit'
    <2>1. ASSUME NEW c \in DOMAIN x2'
          PROVE  /\ x2'[c].turn <= x1'.number
                 /\ x2'[c].turn = x1'.number => x2'[c].step <= x1'.step
                 /\ x2'[c].turn = x1'.number /\ x2'[c].state # "done" => x2'[c].step = x1'.step
      <3>1. CASE c \in DOMAIN x2
        BY <1>5, <1>10, <3>1 DEF V!CallsFit
      <3>2. CASE c = n
        BY <1>2, <1>5, <1>9, <1>10, <3>2
      <3> QED
        BY <1>10, <3>1, <3>2
    <2>2. ASSUME NEW c \in DOMAIN x2'
          PROVE  x2'[c].index < V!Cardinality(V!SameStep(c)')
      <3>1. CASE c \in DOMAIN x2
        <4>1. PICK k \in Nat, m \in Nat :
                 /\ k = V!Cardinality(V!SameStep(c)) /\ m = V!Cardinality(V!SameStep(c)')
                 /\ k <= m
          BY <1>2, <1>9, <3>1, StepGrows
        <4>2. x2[c].index < k
          BY <3>1, <4>1 DEF V!CallsFit
        <4>3. x2[c].index < m
          BY <1>12, <3>1, <4>1, <4>2
        <4> QED
          BY <1>10, <3>1, <4>1, <4>3
      <3>2. CASE c = n
        <4>1. V!Cardinality(V!SameStep(n)') = index + 1
          BY <1>1, <1>2, <1>3, <1>9, StepGrows
        <4> QED
          BY <1>7, <1>9, <1>10, <3>2, <4>1
      <3> QED
        BY <1>10, <3>1, <3>2
    <2>3. ASSUME NEW a \in DOMAIN x2', NEW b \in DOMAIN x2', a < b,
                 x2'[a].id = x2'[b].id \/ V!Key(a)' = V!Key(b)'
          PROVE  V!Before(a, b)'
      <3>1. CASE b \in DOMAIN x2
        <4>1. a \in DOMAIN x2
          BY <1>1, <1>2, <1>10, <2>3, <3>1
        <4>2. x2[a].id = x2[b].id \/ V!Key(a) = V!Key(b)
          BY <1>11, <2>3, <3>1, <4>1, PlacesKept DEF PlacesStay
        <4>3. V!Before(a, b)
          BY <2>3, <3>1, <4>1, <4>2 DEF V!CallsFit
        <4> QED
          BY <1>11, <3>1, <4>1, <4>3, PlacesKept
      <3>2. CASE b = n
        <4>1. a \in DOMAIN x2 /\ x2'[a] = x2[a]
          BY <1>1, <1>2, <1>10, <2>3, <3>2
        <4>2. /\ x2[a].turn <= x1.number
              /\ x2[a].turn = x1.number => x2[a].step <= x1.step
          BY <4>1 DEF V!CallsFit
        <4>3. ~(x2[a].turn = x1.number /\ x2[a].step = x1.step)
          <5> SUFFICES ASSUME x2[a].turn = x1.number, x2[a].step = x1.step PROVE FALSE
            OBVIOUS
          <5>1. x2[a].state = "ready"
            BY <1>5, <1>12, <4>1 DEF V!OfTurn
          <5>2. x2[a].id # id
            BY <1>4, <4>1, <5>1 DEF V!OfTurn
          <5>3. x2[a].index < index
            <6>1. V!SameStep(a) = {d \in DOMAIN x2 : x2[d].turn = x1.number
                                                     /\ x2[d].step = x1.step}
              BY DEF V!SameStep
            <6>2. x2[a].index < V!Cardinality(V!SameStep(a))
              BY <4>1 DEF V!CallsFit
            <6> QED
              BY <1>3, <6>1, <6>2
          <5>4. V!Key(a)' # V!Key(b)'
            <6>1. V!Key(a)' = <<x2[a].step, x2[a].index>> /\ V!Key(b)' = <<r.step, r.index>>
              BY <1>10, <3>2, <4>1 DEF V!Key
            <6>2. x2[a].index # r.index
              BY <1>7, <1>9, <1>12, <4>1, <5>3
            <6> QED
              BY <6>1, <6>2
          <5> QED
            BY <1>9, <1>10, <2>3, <3>2, <4>1, <5>2, <5>4
        <4>4. /\ x2'[a].turn = x2[a].turn /\ x2'[a].step = x2[a].step
              /\ x2'[b].turn = x1.number /\ x2'[b].step = x1.step
          BY <1>9, <1>10, <3>2, <4>1
        <4> QED
          BY <1>2, <1>12, <4>1, <4>2, <4>3, <4>4 DEF V!Before
      <3> QED
        BY <1>10, <3>1, <3>2
    <2> QED
      BY <1>2, <1>5, <1>10, <2>1, <2>2, <2>3 DEF V!CallsFit
  <1>14. ASSUME NEW b \in DOMAIN x2' PROVE ~V!Before(n, b)'
    <2>1. x2'[n].turn = x1.number /\ x2'[n].step = x1.step
      BY <1>9, <1>10
    <2>2. /\ x2'[b].turn <= x1.number /\ x2'[b].turn \in Nat /\ x2'[b].step \in Nat
          /\ x2'[b].turn = x1.number => x2'[b].step <= x1.step
      <3>1. x2'[b] \in V!Calls
        BY <1>10
      <3>2. /\ x2'[b].turn <= x1'.number
            /\ x2'[b].turn = x1'.number => x2'[b].step <= x1'.step
        BY <1>13 DEF V!CallsFit
      <3> QED
        BY <1>5, <3>1, <3>2 DEF V!Calls
    <2> QED
      BY <1>2, <2>1, <2>2 DEF V!Before
  <1>15. V!StreamFits' /\ \A d : V!Coming(d)' <=> (V!Coming(d) \/ d = n)
    <2>1. \A d \in DOMAIN x2' : d \in DOMAIN x2 \/ d = n
      BY <1>10
    <2> QED
      BY <1>1, <1>2, <1>5, <1>6, <1>10, <1>11, <1>14, <2>1, SentOfCall
  <1>16. V!RowsFit'
    <2>1. ASSUME NEW c \in DOMAIN x2
          PROVE  (V!LastOfId(c)' => V!LastOfId(c)) /\ (V!LastOfKey(c)' => V!LastOfKey(c))
      <3>1. \A d \in DOMAIN x2 : /\ d \in DOMAIN x2' /\ d # n
                                 /\ x2'[d].id = x2[d].id /\ V!Key(d)' = V!Key(d)
        BY <1>10, <1>11, PlacesKept
      <3>2. \A d \in DOMAIN x2 : V!Coming(d)' <=> V!Coming(d)
        BY <1>15, <3>1
      <3> QED
        BY <3>1, <3>2 DEF V!LastOfId, V!LastOfKey
    <2>2. ~V!LastOfId(n)' /\ ~V!LastOfKey(n)'
      BY <1>15 DEF V!LastOfId, V!LastOfKey
    <2>3. ASSUME NEW d \in DOMAIN x2'
          PROVE  /\ V!LastOfId(d)' => (x2'[d].id \in x9' <=> d \in x13')
                 /\ V!LastOfKey(d)' /\ d \notin x13' => V!Pending(d)' \in x8'
      <3>1. CASE d \in DOMAIN x2
        BY <1>5, <1>10, <1>11, <2>1, <3>1, PlacesKept DEF V!RowsFit
      <3>2. CASE d = n
        BY <2>2, <3>2
      <3> QED
        BY <1>10, <3>1, <3>2
    <2>4. x13' \subseteq DOMAIN x2'
      BY <1>2, <1>5, <1>10
    <2> QED
      BY <1>5, <2>3, <2>4 DEF V!RowsFit
  <1> QED
    BY <1>11, <1>13, <1>15, <1>16

\* An event is read: what it announces is no longer on its way.
LEMMA ReadEvent ==
  ASSUME V!CallsFit, V!StreamFits, x4 # <<>>, x4' = Tail(x4), x2' = x2,
         x13' \subseteq x13 \cup {d \in DOMAIN x2 : V!IsOf(1, d)}
  PROVE  /\ V!StreamFits' /\ Head(x4) = x4[1] /\ 1 \in DOMAIN x4
         /\ \A d : V!Coming(d)' => V!Coming(d)
         /\ \A d : V!Coming(d) /\ ~V!Announces(1, d) => V!Coming(d)'
         /\ \A d : V!IsOf(1, d) => d \in DOMAIN x2 /\ ~V!Coming(d)'
         /\ \A d \in DOMAIN x2 : \A e \in DOMAIN x2 :
               V!IsOf(1, d) /\ d < e /\ (x2[d].id = x2[e].id \/ V!Key(d) = V!Key(e)) => V!Coming(e)'
  <1>1. /\ x4' \in Seq(V!Events) /\ Head(x4) = x4[1] /\ 1 \in DOMAIN x4
        /\ \A i \in DOMAIN x4' : i \in Nat /\ i + 1 \in DOMAIN x4 /\ x4'[i] = x4[i + 1]
        /\ \A j \in DOMAIN x4 : j \in Nat /\ 1 <= j
              /\ (j # 1 => j - 1 \in DOMAIN x4' /\ x4'[j - 1] = x4[j])
    <2>1. x4 \in Seq(V!Events)
      BY DEF V!StreamFits
    <2> QED
      BY <2>1, EventRead
  <1>2. \A j \in DOMAIN x4 : \A d : j # 1 /\ V!Announces(j, d) => V!Announces(j - 1, d)'
    BY <1>1 DEF V!Announces
  <1>3. ASSUME NEW d, V!Coming(d)' PROVE V!Coming(d)
    <2>1. PICK i \in DOMAIN x4' : V!Announces(i, d)'
      BY <1>3 DEF V!Coming
    <2>2. i + 1 \in DOMAIN x4 /\ V!Announces(i + 1, d)
      BY <1>1, <2>1 DEF V!Announces
    <2> QED
      BY <2>2 DEF V!Coming
  <1>4. ASSUME NEW d, V!Coming(d), ~V!Announces(1, d) PROVE V!Coming(d)'
    <2>1. PICK j \in DOMAIN x4 : V!Announces(j, d)
      BY <1>4 DEF V!Coming
    <2>2. j # 1 /\ j - 1 \in DOMAIN x4' /\ V!Announces(j - 1, d)'
      BY <1>1, <1>2, <1>4, <2>1
    <2> QED
      BY <2>2 DEF V!Coming
  <1>5. ASSUME NEW d, V!IsOf(1, d) PROVE d \in DOMAIN x2 /\ ~V!Coming(d)'
    <2>1. d \in DOMAIN x2
      BY <1>1, <1>5 DEF V!StreamFits, V!IsOf
    <2>2. ASSUME V!Coming(d)' PROVE FALSE
      <3>1. PICK i \in DOMAIN x4' : V!Announces(i, d)'
        BY <2>2 DEF V!Coming
      <3>2. i \in Nat /\ i + 1 \in DOMAIN x4 /\ V!Announces(i + 1, d)
        BY <1>1, <3>1 DEF V!Announces
      <3>3. i + 1 <= 1
        BY <1>1, <1>5, <2>1, <3>2 DEF V!StreamFits
      <3>4. i >= 1
        BY <1>1
      <3> QED
        BY <3>2, <3>3, <3>4
    <2> QED
      BY <2>1, <2>2
  <1>6. ASSUME NEW d \in DOMAIN x2, NEW e \in DOMAIN x2, V!IsOf(1, d), d < e,
               x2[d].id = x2[e].id \/ V!Key(d) = V!Key(e)
        PROVE  V!Coming(e)'
    <2>1. V!Before(d, e)
      BY <1>6 DEF V!CallsFit
    <2>2. PICK j \in DOMAIN x4 : 1 < j /\ V!Announces(j, e)
      BY <1>1, <1>6, <2>1 DEF V!StreamFits
    <2>3. j # 1 /\ j - 1 \in DOMAIN x4' /\ V!Announces(j - 1, e)'
      BY <1>1, <1>2, <2>2
    <2> QED
      BY <2>3 DEF V!Coming
  <1>7. ASSUME NEW a \in DOMAIN x2, NEW b \in DOMAIN x2, NEW i \in DOMAIN x4',
               V!Before(a, b)', V!IsOf(i, a)'
        PROVE  \E j \in DOMAIN x4' : i < j /\ V!Announces(j, b)'
    <2>1. V!Before(a, b)
      BY <1>7 DEF V!Before
    <2>2. i \in Nat /\ i + 1 \in DOMAIN x4 /\ V!IsOf(i + 1, a)
      BY <1>1, <1>7 DEF V!IsOf
    <2>3. PICK j \in DOMAIN x4 : i + 1 < j /\ V!Announces(j, b)
      BY <2>1, <2>2 DEF V!StreamFits
    <2>4. j \in Nat /\ j # 1 /\ j - 1 \in DOMAIN x4' /\ i < j - 1
      BY <1>1, <2>2, <2>3
    <2>5. V!Announces(j - 1, b)'
      BY <1>2, <2>3, <2>4
    <2> QED
      BY <2>4, <2>5
  <1>8. ASSUME NEW a \in DOMAIN x2, NEW i \in DOMAIN x4', NEW j \in DOMAIN x4',
                V!Announces(i, a)', V!IsOf(j, a)'
         PROVE  i <= j
    <2>1. /\ i \in Nat /\ i + 1 \in DOMAIN x4 /\ V!Announces(i + 1, a)
          /\ j \in Nat /\ j + 1 \in DOMAIN x4 /\ V!IsOf(j + 1, a)
      BY <1>1, <1>8 DEF V!Announces, V!IsOf
    <2>2. i + 1 <= j + 1
      BY <2>1 DEF V!StreamFits
    <2> QED
      BY <2>1, <2>2
  <1>9. \A i \in DOMAIN x4' : V!OfCall(x4'[i]) => x4'[i].call \in DOMAIN x2
    BY <1>1 DEF V!StreamFits
  <1>10. ASSUME NEW a \in x13' PROVE ~V!Coming(a)'
    <2>1. CASE a \in x13
      BY <1>3, <2>1 DEF V!StreamFits
    <2>2. CASE V!IsOf(1, a)
      BY <1>5, <2>2
    <2> QED
      BY <2>1, <2>2
  <1>11. V!StreamFits'
    BY <1>1, <1>7, <1>8, <1>9, <1>10 DEF V!StreamFits, V!OfCall
  <1>12. Head(x4) = x4[1] /\ 1 \in DOMAIN x4
    BY <1>1
  <1> QED
    BY <1>3, <1>4, <1>5, <1>6, <1>11, <1>12

\* An event that is not of a call is read.
LEMMA ReadQuiet ==
  ASSUME V!CallsFit, V!StreamFits, x4 # <<>>, ~V!OfCall(Head(x4)), x4' = Tail(x4),
         x2' = x2, x13' = x13
  PROVE  V!StreamFits' /\ \A c : V!Coming(c)' = V!Coming(c)
  <1>1. x13' \subseteq x13 \cup {d \in DOMAIN x2 : V!IsOf(1, d)}
    OBVIOUS
  <1>2. /\ V!StreamFits' /\ Head(x4) = x4[1]
        /\ \A d : V!Coming(d)' => V!Coming(d)
        /\ \A d : V!Coming(d) /\ ~V!Announces(1, d) => V!Coming(d)'
    BY <1>1, ReadEvent
  <1>3. \A d : ~V!Announces(1, d)
    BY <1>2 DEF V!Announces, V!OfCall
  <1>4. \A d : V!Coming(d)' \in BOOLEAN /\ V!Coming(d) \in BOOLEAN
    BY DEF V!Coming
  <1> QED
    BY <1>2, <1>3, <1>4

\* The calls among which one is the last have no other one that is.
LEMMA OneLast ==
  ASSUME V!CallsFit, NEW c \in DOMAIN x2, NEW d \in DOMAIN x2, c # d
  PROVE  /\ V!LastOfId(c) /\ V!LastOfId(d) => x2[c].id # x2[d].id
         /\ V!LastOfKey(c) /\ V!LastOfKey(d) => V!Key(c) # V!Key(d)
  <1>1. c < d \/ d < c
    <2>1. c \in Nat /\ d \in Nat
      BY DEF V!CallsFit
    <2> QED
      BY <2>1
  <1>2. ASSUME V!LastOfId(c), V!LastOfId(d), x2[c].id = x2[d].id PROVE FALSE
    BY <1>1, <1>2 DEF V!LastOfId
  <1>3. ASSUME V!LastOfKey(c), V!LastOfKey(d), V!Key(c) = V!Key(d) PROVE FALSE
    BY <1>1, <1>3 DEF V!LastOfKey
  <1> QED
    BY <1>2, <1>3

\* The renderer is told about a call.
LEMMA ReadCall ==
  ASSUME V!CallsFit, V!StreamFits, V!RowsFit, x4 # <<>>, x4' = Tail(x4), x2' = x2,
         NEW c, Head(x4).type = "call", Head(x4).call = c,
         V!PendCall(c), x10' = x10, x13' = x13
  PROVE  V!StreamFits' /\ V!RowsFit' /\ c \in DOMAIN x2 /\ c \notin x13
  <1>1. /\ V!StreamFits' /\ Head(x4) = x4[1] /\ 1 \in DOMAIN x4
        /\ \A d : V!Coming(d)' => V!Coming(d)
        /\ \A d : V!Coming(d) /\ ~V!Announces(1, d) => V!Coming(d)'
        /\ \A d : V!IsOf(1, d) => d \in DOMAIN x2 /\ ~V!Coming(d)'
        /\ \A d \in DOMAIN x2 : \A e \in DOMAIN x2 :
               V!IsOf(1, d) /\ d < e /\ (x2[d].id = x2[e].id \/ V!Key(d) = V!Key(e)) => V!Coming(e)'
    BY ReadEvent
  <1>2. V!Announces(1, c) /\ V!IsOf(1, c) /\ \A d : V!Announces(1, d) => d = c
    BY <1>1 DEF V!Announces, V!IsOf, V!OfCall
  <1>3. c \in DOMAIN x2 /\ ~V!Coming(c)' /\ V!Coming(c) /\ c \notin x13
    <2>1. V!Coming(c)
      BY <1>1, <1>2 DEF V!Coming
    <2> QED
      BY <1>1, <1>2, <2>1 DEF V!StreamFits
  <1>4. \A d : V!Key(d)' = V!Key(d) /\ V!Pending(d)' = V!Pending(d)
    BY DEF V!Key, V!Pending
  <1>5. V!LastOfId(c)' /\ V!LastOfKey(c)'
    BY <1>1, <1>2, <1>3, <1>4 DEF V!LastOfId, V!LastOfKey
  <1>6. ASSUME NEW d \in DOMAIN x2, d # c
        PROVE  /\ V!LastOfId(d)' => V!LastOfId(d) /\ x2[d].id # x2[c].id
               /\ V!LastOfKey(d)' => V!LastOfKey(d) /\ V!Key(d) # V!Key(c)
    <2>1. \A e : V!Coming(e)' => V!Coming(e)
      BY <1>1
    <2>2. V!Coming(d) => V!Coming(d)'
      BY <1>1, <1>2, <1>6
    <2>3. V!LastOfId(d)' => V!LastOfId(d)
      BY <2>1, <2>2 DEF V!LastOfId
    <2>4. V!LastOfKey(d)' => V!LastOfKey(d)
      BY <1>4, <2>1, <2>2 DEF V!LastOfKey
    <2>5. c < d \/ d < c
      <3>1. c \in Nat /\ d \in Nat
        BY <1>3 DEF V!CallsFit
      <3> QED
        BY <1>6, <3>1
    <2>6. V!LastOfId(d)' => x2[d].id # x2[c].id
      BY <1>3, <1>5, <2>5 DEF V!LastOfId
    <2>7. V!LastOfKey(d)' => V!Key(d) # V!Key(c)
      BY <1>3, <1>4, <1>5, <2>5 DEF V!LastOfKey
    <2> QED
      BY <2>3, <2>4, <2>6, <2>7
  <1>7. /\ x8' = {p \in x8 : p.key # V!Key(c)} \union {V!Pending(c)}
        /\ x9' = x9 \ {x2[c].id}
    BY DEF V!PendCall
  <1>8. ASSUME NEW d \in DOMAIN x2
        PROVE  /\ V!LastOfId(d)' => (x2[d].id \in x9' <=> d \in x13')
               /\ V!LastOfKey(d)' /\ d \notin x13' => V!Pending(d)' \in x8'
    <2>1. CASE d = c
      BY <1>3, <1>4, <1>7, <2>1
    <2>2. CASE d # c
      <3>1. V!LastOfId(d)' => (x2[d].id \in x9' <=> d \in x13')
        BY <1>6, <1>7, <2>2 DEF V!RowsFit
      <3>2. ASSUME V!LastOfKey(d)', d \notin x13' PROVE V!Pending(d)' \in x8'
        <4>1. V!Pending(d) \in x8 /\ V!Key(d) # V!Key(c)
          BY <1>6, <2>2, <3>2 DEF V!RowsFit
        <4>2. V!Pending(d).key = V!Key(d)
          BY DEF V!Pending
        <4> QED
          BY <1>4, <1>7, <4>1, <4>2
      <3> QED
        BY <3>1, <3>2
    <2> QED
      BY <2>1, <2>2
  <1>9. \A p, q \in x8' : p.key = q.key => p = q
    <2>1. V!Pending(c).key = V!Key(c)
      BY DEF V!Pending
    <2> QED
      BY <1>7, <2>1 DEF V!RowsFit
  <1>10. V!RowsFit'
    BY <1>8, <1>9 DEF V!RowsFit
  <1> QED
    BY <1>1, <1>3, <1>10

\* The renderer is told about a result.
LEMMA ReadResult ==
  ASSUME V!CallsFit, V!StreamFits, V!RowsFit, x4 # <<>>, x4' = Tail(x4), x2' = x2,
         NEW c, Head(x4).type \in {"finished", "done"}, Head(x4).call = c, V!PrintResult(c)
  PROVE  /\ V!StreamFits' /\ V!RowsFit' /\ c \in DOMAIN x2
         /\ x2[c].id \in x9 => c \in x13
  <1>1. V!IsOf(1, c) /\ (\A d : ~V!Announces(1, d)) /\ (\A d : V!IsOf(1, d) => d = c)
    <2>1. Head(x4) = x4[1]
      BY EventRead DEF V!StreamFits
    <2> QED
      BY <2>1 DEF V!Announces, V!IsOf, V!OfCall
  <1>2. c \in DOMAIN x2
    <2>1. x4 \in Seq(V!Events)
      BY DEF V!StreamFits
    <2>2. 1 \in DOMAIN x4
      BY <2>1, EventRead
    <2> QED
      BY <1>1, <2>2 DEF V!StreamFits, V!IsOf
  <1>3. x13' = x13 \cup {c}
    BY DEF V!PrintResult
  <1>4. x13' \subseteq x13 \cup {d \in DOMAIN x2 : V!IsOf(1, d)}
    BY <1>1, <1>2, <1>3
  <1>5. /\ V!StreamFits'
        /\ \A d : V!Coming(d)' => V!Coming(d)
        /\ \A d : V!Coming(d) => V!Coming(d)'
        /\ ~V!Coming(c)'
        /\ \A e \in DOMAIN x2 : c < e /\ (x2[c].id = x2[e].id \/ V!Key(c) = V!Key(e)) => V!Coming(e)'
    BY <1>1, <1>2, <1>4, ReadEvent
  <1>6. \A d : V!Key(d)' = V!Key(d) /\ V!Pending(d)' = V!Pending(d)
                 /\ V!Pending(d).key = V!Key(d) /\ V!Pending(d).call = d
    BY DEF V!Key, V!Pending
  <1>7. \A d \in DOMAIN x2 : (V!LastOfId(d)' => V!LastOfId(d)) /\ (V!LastOfKey(d)' => V!LastOfKey(d))
    BY <1>5, <1>6 DEF V!LastOfId, V!LastOfKey
  <1>8. V!LastOfId(c) /\ V!LastOfKey(c)
    BY <1>5 DEF V!LastOfId, V!LastOfKey
  <1>9. x2[c].id \in x9 <=> c \in x13
    BY <1>2, <1>8 DEF V!RowsFit
  <1>10. CASE x2[c].id \in x9
    <2>1. x13' = x13 /\ x8' = x8 /\ x9' = x9 /\ x10' = x10
      BY <1>3, <1>9, <1>10 DEF V!PrintResult
    <2>2. V!RowsFit'
      BY <1>6, <1>7, <2>1 DEF V!RowsFit
    <2> QED
      BY <1>2, <1>5, <1>9, <2>2
  <1>11. CASE x2[c].id \notin x9
    <2>1. c \notin x13 /\ V!Pending(c) \in x8
      BY <1>2, <1>8, <1>9, <1>11 DEF V!RowsFit
    <2>2. V!Matching(c) = {V!Pending(c)}
      BY <1>6, <2>1 DEF V!Matching, V!RowsFit
    <2>3. V!First(c) = V!Pending(c)
      <3>1. c \in Nat
        BY <1>2 DEF V!CallsFit
      <3>2. \A p \in V!Matching(c) : p = V!Pending(c) /\ p.call <= p.call
        BY <1>6, <2>2, <3>1
      <3> QED
        BY <2>2, <3>2 DEF V!First
    <2>4. /\ x9' = x9 \cup {x2[c].id}
          /\ x10' = Append(x10, [call |-> c, args |-> c])
          /\ x8' = x8 \ {V!Pending(c)}
      <3>1. V!Matching(c) # {} /\ V!Taken(c) = c
        BY <1>6, <2>2, <2>3 DEF V!Taken
      <3> QED
        BY <1>11, <2>3, <3>1 DEF V!PrintResult, V!Printed
    <2>5. PICK row \in [call : Nat, args : Nat] : row = [call |-> c, args |-> c]
      <3>1. c \in Nat
        BY <1>2 DEF V!CallsFit
      <3> QED
        BY <3>1
    <2>6. PICK n : n = Len(x10) + 1
      OBVIOUS
    <2>7. /\ x10' \in Seq([call : Nat, args : Nat]) /\ n \in DOMAIN x10' /\ x10'[n] = row
          /\ \A r \in DOMAIN x10 : r \in DOMAIN x10' /\ x10'[r] = x10[r]
          /\ \A r \in DOMAIN x10' : r \in DOMAIN x10 \/ r = n
      <3>1. x10 \in Seq([call : Nat, args : Nat]) /\ x10' = Append(x10, row)
        BY <2>4, <2>5 DEF V!RowsFit
      <3> QED
        BY <2>6, <3>1, EventSent
    <2>8. row.call = c /\ row.args = c
      BY <2>5
    <2>9. \A r \in DOMAIN x10 : x10[r].call # c
      BY <2>1 DEF V!RowsFit
    <2>10. /\ \A r \in DOMAIN x10' : x10'[r].call \in x13' /\ x10'[r].args = x10'[r].call
           /\ \A r, s \in DOMAIN x10' : x10'[r].call = x10'[s].call => r = s
           /\ \A d \in x13' : \E r \in DOMAIN x10' : x10'[r].call = d
      <3>1. ASSUME NEW r \in DOMAIN x10'
            PROVE  x10'[r].call \in x13' /\ x10'[r].args = x10'[r].call
        BY <1>3, <2>7, <2>8 DEF V!RowsFit
      <3>2. ASSUME NEW r \in DOMAIN x10', NEW s \in DOMAIN x10', x10'[r].call = x10'[s].call
            PROVE  r = s
        <4>1. CASE r \in DOMAIN x10 /\ s \in DOMAIN x10
          BY <2>7, <3>2, <4>1 DEF V!RowsFit
        <4>2. CASE r = n
          BY <2>7, <2>8, <2>9, <3>2, <4>2
        <4>3. CASE s = n
          BY <2>7, <2>8, <2>9, <3>2, <4>3
        <4> QED
          BY <2>7, <4>1, <4>2, <4>3
      <3>3. ASSUME NEW d \in x13' PROVE \E r \in DOMAIN x10' : x10'[r].call = d
        <4>1. CASE d = c
          BY <2>7, <2>8, <4>1
        <4>2. CASE d \in x13
          <5>1. PICK r \in DOMAIN x10 : x10[r].call = d
            BY <4>2 DEF V!RowsFit
          <5> QED
            BY <2>7, <5>1
        <4> QED
          BY <1>3, <4>1, <4>2
      <3> QED
        BY <3>1, <3>2, <3>3
    <2>11. ASSUME NEW d \in DOMAIN x2
           PROVE  /\ V!LastOfId(d)' => (x2[d].id \in x9' <=> d \in x13')
                  /\ V!LastOfKey(d)' /\ d \notin x13' => V!Pending(d)' \in x8'
      <3>1. CASE d = c
        BY <1>3, <2>4, <3>1
      <3>2. CASE d # c
        <4>1. V!LastOfId(d)' => x2[d].id # x2[c].id
          BY <1>2, <1>7, <1>8, <3>2, OneLast
        <4>2. V!LastOfId(d)' => (x2[d].id \in x9' <=> d \in x13')
          BY <1>3, <1>7, <2>4, <3>2, <4>1 DEF V!RowsFit
        <4>3. V!LastOfKey(d)' /\ d \notin x13' => V!Pending(d)' \in x8'
          <5>1. V!Pending(d) # V!Pending(c)
            BY <1>6, <3>2
          <5> QED
            BY <1>3, <1>6, <1>7, <2>4, <5>1 DEF V!RowsFit
        <4> QED
          BY <4>2, <4>3
      <3> QED
        BY <3>1, <3>2
    <2>12. x13' \subseteq DOMAIN x2 /\ \A p, q \in x8' : p.key = q.key => p = q
      BY <1>2, <1>3, <2>4 DEF V!RowsFit
    <2>13. V!RowsFit'
      BY <2>7, <2>10, <2>11, <2>12 DEF V!RowsFit
    <2> QED
      BY <1>2, <1>5, <1>11, <2>13
  <1> QED
    BY <1>10, <1>11

-----------------------------------------------------------------------------
(* The tree.                                                               *)

\* What a controller has is in its place.
ToolsFit(tools, cs) ==
  \A k \in DOMAIN tools :
     /\ tools[k] \in [call : DOMAIN cs, state : {"running", "aborting", "finished"}]
     /\ <<cs[tools[k].call].step, cs[tools[k].call].index>> = k

\* What runs there has no result yet.
ToolsRun(tools, done) == \A k \in V!Running(tools) : tools[k].call \notin done

\* The controller that is told of tools.
Followed(ctl) == IF x5 THEN ctl = "local" ELSE ctl = "shared" /\ x6

\* The tree, by what each controller has.
LEMMA TreeIs ==
  /\ V!TreeFits <=>
        /\ x5 \in BOOLEAN /\ x6 \in BOOLEAN /\ DOMAIN x7 = V!Controllers
        /\ \A ctl \in V!Controllers : /\ ToolsFit(x7[ctl], x2)
                                      /\ Followed(ctl) => ToolsRun(x7[ctl], x13)
  /\ V!TreeFits' <=>
        /\ x5' \in BOOLEAN /\ x6' \in BOOLEAN /\ DOMAIN x7' = V!Controllers
        /\ \A ctl \in V!Controllers : /\ ToolsFit(x7'[ctl], x2')
                                      /\ Followed(ctl)' => ToolsRun(x7'[ctl], x13')
  BY DEF V!TreeFits, V!RunningIsCurrent, ToolsFit, ToolsRun, Followed, V!Key

\* A controller with no tools.
LEMMA NoTools ==
  ASSUME NEW cs, NEW done
  PROVE  ToolsFit(<<>>, cs) /\ ToolsRun(<<>>, done)
  BY DEF ToolsFit, ToolsRun, V!Running

\* A tool that is added runs.
LEMMA UpsertFits ==
  ASSUME NEW tools, ToolsFit(tools, x2), NEW c \in DOMAIN x2
  PROVE  /\ ToolsFit(V!Upsert(tools, c), x2)
         /\ ToolsRun(tools, x13) /\ c \notin x13 => ToolsRun(V!Upsert(tools, c), x13)
  <1>1. PICK tool : /\ tool \in [call : DOMAIN x2, state : {"running", "aborting", "finished"}]
                    /\ tool.call = c /\ V!Upsert(tools, c) = V!With(tools, V!Key(c), tool)
    BY DEF V!Upsert
  <1>2. /\ DOMAIN V!Upsert(tools, c) = DOMAIN tools \cup {V!Key(c)}
        /\ V!Upsert(tools, c)[V!Key(c)] = tool
        /\ \A k \in DOMAIN tools : k # V!Key(c) => V!Upsert(tools, c)[k] = tools[k]
    BY <1>1 DEF V!With
  <1>3. ToolsFit(V!Upsert(tools, c), x2)
    BY <1>1, <1>2 DEF ToolsFit, V!Key
  <1>4. ASSUME ToolsRun(tools, x13), c \notin x13 PROVE ToolsRun(V!Upsert(tools, c), x13)
    BY <1>1, <1>2, <1>4 DEF ToolsRun, V!Running
  <1> QED
    BY <1>3, <1>4

\* A tool that is finished does not run.
LEMMA FinishFits ==
  ASSUME NEW tools, ToolsFit(tools, x2), NEW c \in DOMAIN x2
  PROVE  /\ ToolsFit(V!FinishTool(tools, c), x2)
         /\ ToolsRun(tools, x13) => ToolsRun(V!FinishTool(tools, c), x13 \cup {c})
  <1>1. PICK marked : marked = IF V!Key(c) \notin DOMAIN tools THEN tools
                               ELSE [tools EXCEPT ![V!Key(c)].state = "finished"]
    OBVIOUS
  <1>2. V!FinishTool(tools, c) = <<>> \/ V!FinishTool(tools, c) = marked
    BY <1>1 DEF V!FinishTool
  <1>3. /\ DOMAIN marked = DOMAIN tools
        /\ \A k \in DOMAIN tools : k # V!Key(c) => marked[k] = tools[k]
        /\ V!Key(c) \in DOMAIN tools => marked[V!Key(c)] = [tools[V!Key(c)] EXCEPT !.state = "finished"]
    BY <1>1
  <1>4. ASSUME V!Key(c) \in DOMAIN tools
        PROVE  /\ marked[V!Key(c)] \in [call : DOMAIN x2, state : {"running", "aborting", "finished"}]
               /\ marked[V!Key(c)].call = tools[V!Key(c)].call /\ marked[V!Key(c)].state = "finished"
    BY <1>3, <1>4 DEF ToolsFit
  <1>5. ToolsFit(marked, x2)
    BY <1>3, <1>4 DEF ToolsFit
  <1>6. ASSUME ToolsRun(tools, x13), NEW k \in V!Running(marked)
        PROVE  marked[k].call \notin x13 \cup {c}
    <2>1. k \in DOMAIN tools /\ k # V!Key(c) /\ marked[k] = tools[k] /\ k \in V!Running(tools)
      BY <1>3, <1>4, <1>6 DEF V!Running
    <2>2. tools[k].call # c
      BY <2>1 DEF ToolsFit, V!Key
    <2> QED
      BY <1>6, <2>1, <2>2 DEF ToolsRun
  <1>7. ToolsRun(tools, x13) => ToolsRun(marked, x13 \cup {c})
    BY <1>6 DEF ToolsRun
  <1>8. ToolsFit(<<>>, x2) /\ ToolsRun(<<>>, x13 \cup {c})
    BY NoTools
  <1> QED
    BY <1>2, <1>5, <1>7, <1>8

\* Tools stay or go, and nothing new is followed but what has none.
LEMMA TreeQuiet ==
  ASSUME V!TreeFits, PlacesStay, x13' = x13, x5' \in BOOLEAN, x6' \in BOOLEAN,
         DOMAIN x7' = V!Controllers,
         \A ctl \in V!Controllers : \/ x7'[ctl] = <<>>
                                    \/ x7'[ctl] = x7[ctl] /\ (Followed(ctl)' => Followed(ctl))
  PROVE  V!TreeFits'
  <1>1. ASSUME NEW tools, ToolsFit(tools, x2) PROVE ToolsFit(tools, x2')
    BY <1>1 DEF ToolsFit, PlacesStay
  <1>2. ASSUME NEW ctl \in V!Controllers
        PROVE  ToolsFit(x7'[ctl], x2') /\ (Followed(ctl)' => ToolsRun(x7'[ctl], x13'))
    <2>1. CASE x7'[ctl] = <<>>
      BY <2>1, NoTools
    <2>2. CASE x7'[ctl] = x7[ctl] /\ (Followed(ctl)' => Followed(ctl))
      <3>1. ToolsFit(x7[ctl], x2) /\ (Followed(ctl) => ToolsRun(x7[ctl], x13))
        BY TreeIs
      <3> QED
        BY <1>1, <2>2, <3>1
    <2> QED
      BY <1>2, <2>1, <2>2
  <1> QED
    BY <1>2, TreeIs

\* The tools of the controllers are replaced by others that fit.
LEMMA TreeHooked ==
  ASSUME V!TreeFits, x2' = x2, x5' = x5, x6' = x6, NEW next, V!Hooked(next),
         \A ctl \in V!Controllers : /\ ToolsFit(next[ctl], x2)
                                    /\ ToolsRun(x7[ctl], x13) => ToolsRun(next[ctl], x13')
  PROVE  V!TreeFits'
  <1>1. /\ x5 \in BOOLEAN /\ x6 \in BOOLEAN /\ DOMAIN x7 = V!Controllers
        /\ \A ctl \in V!Controllers : /\ ToolsFit(x7[ctl], x2)
                                      /\ Followed(ctl) => ToolsRun(x7[ctl], x13)
    BY TreeIs
  <1>2. DOMAIN x7' = V!Controllers
    BY <1>1 DEF V!Hooked
  <1>3. ASSUME NEW ctl \in V!Controllers
        PROVE  /\ Followed(ctl) => x7'[ctl] = next[ctl]
               /\ ~Followed(ctl) => x7'[ctl] = x7[ctl]
    BY <1>1, <1>3 DEF V!Hooked, Followed, V!Controllers
  <1>4. ASSUME NEW ctl \in V!Controllers
        PROVE  ToolsFit(x7'[ctl], x2') /\ (Followed(ctl)' => ToolsRun(x7'[ctl], x13'))
    <2>1. Followed(ctl)' <=> Followed(ctl)
      BY DEF Followed
    <2>2. CASE Followed(ctl)
      BY <1>1, <1>3, <2>2
    <2>3. CASE ~Followed(ctl)
      BY <1>1, <1>3, <2>1, <2>3
    <2> QED
      BY <2>2, <2>3
  <1> QED
    BY <1>1, <1>2, <1>4, TreeIs

-----------------------------------------------------------------------------
(* The steps.                                                              *)

\* At the start there is nothing to show.
LEMMA ViewInit ==
  ASSUME V!Init
  PROVE  V!ViewInv
  <1>1. /\ x1 = [number |-> 0, owner |-> NoValue, step |-> 1] /\ x2 = <<>> /\ x4 = <<>>
        /\ x5 = FALSE /\ x6 = FALSE /\ x7 = [ctl \in V!Controllers |-> <<>>]
        /\ x8 = {} /\ x9 = {} /\ x10 = <<>> /\ x13 = {}
    BY DEF V!Init
  <1>2. V!CallsFit
    BY <1>1 DEF V!CallsFit
  <1>3. V!StreamFits
    BY <1>1 DEF V!StreamFits
  <1>4. V!RowsFit
    BY <1>1 DEF V!RowsFit
  <1>5. V!TreeFits
    <2>1. \A ctl \in V!Controllers : x7[ctl] = <<>>
      BY <1>1
    <2>2. \A ctl \in V!Controllers : ToolsFit(x7[ctl], x2) /\ ToolsRun(x7[ctl], x13)
      BY <2>1, NoTools
    <2> QED
      BY <1>1, <2>2, TreeIs
  <1> QED
    BY <1>2, <1>3, <1>4, <1>5 DEF V!ViewInv

\* No call was made.
LEMMA SamePlaces ==
  ASSUME x2' = x2 PROVE PlacesStay
  BY DEF PlacesStay

\* Nothing happens to the tree.
LEMMA TreeSame ==
  ASSUME V!TreeFits, PlacesStay, x13' = x13, x5' = x5, x6' = x6, x7' = x7
  PROVE  V!TreeFits'
  <1>1. \A ctl \in V!Controllers : x7'[ctl] = x7[ctl] /\ (Followed(ctl)' => Followed(ctl))
    BY DEF Followed
  <1>2. x5' \in BOOLEAN /\ x6' \in BOOLEAN /\ DOMAIN x7' = V!Controllers
    BY TreeIs
  <1> QED
    BY <1>1, <1>2, TreeQuiet

\* The server takes a step, or the stream breaks.
LEMMA ServerSteps ==
  ASSUME V!ViewInv, \/ V!Text \/ V!Call \/ V!NextStep \/ V!EndTurn \/ V!Drop \/ V!OnGap
                    \/ \E c \in DOMAIN x2 : V!Finish(c) \/ V!Result(c)
  PROVE  V!ViewInv'
  <1>1. V!CallsFit /\ V!StreamFits /\ V!RowsFit /\ V!TreeFits
    BY DEF V!ViewInv
  <1>2. UNCHANGED V!client
    BY DEF V!Text, V!Call, V!NextStep, V!EndTurn, V!Drop, V!OnGap, V!Finish, V!Result, V!Advance
  <1>3. /\ x5' = x5 /\ x6' = x6 /\ x7' = x7 /\ UNCHANGED V!renderer
        /\ x8' = x8 /\ x9' = x9 /\ x10' = x10 /\ x13' = x13
    BY <1>2 DEF V!client, V!renderer
  <1>4. ASSUME PlacesStay PROVE V!TreeFits'
    BY <1>1, <1>3, <1>4, TreeSame
  <1>5. ASSUME x2' = x2, \A d : V!Coming(d)' = V!Coming(d) PROVE V!RowsFit' /\ V!TreeFits'
    BY <1>1, <1>3, <1>4, <1>5, RowsQuiet, SamePlaces
  <1>6. CASE V!Text
    <2>1. /\ x1' = x1 /\ x2' = x2 /\ [type |-> "text"] \in V!Events /\ ~V!OfCall([type |-> "text"])
          /\ x4' = Append(x4, [type |-> "text"])
      BY <1>6, EventIs DEF V!Text, V!Emit, V!OfCall
    <2>2. V!StreamFits' /\ \A d : V!Coming(d)' = V!Coming(d)
      BY <1>1, <1>3, <2>1, SentQuiet
    <2>3. V!CallsFit'
      BY <1>1, <2>1, CallsQuiet
    <2> QED
      BY <1>5, <2>1, <2>2, <2>3 DEF V!ViewInv
  <1>7. CASE V!Call
    BY <1>1, <1>4, <1>7, SentCall DEF V!ViewInv
  <1>8. CASE V!NextStep
    <2>1. /\ x2' = x2 /\ x4' = x4
          /\ x1' = [x1 EXCEPT !.step = @ + 1] /\ V!OfTurn("ready") \cup V!OfTurn("finished") = {}
      BY <1>8 DEF V!NextStep, V!queues
    <2>2. V!StreamFits' /\ \A d : V!Coming(d)' = V!Coming(d)
      BY <1>1, <1>3, <2>1 DEF V!StreamFits, V!Coming, V!IsOf, V!Announces, V!Before
    <2>3. /\ DOMAIN x1' = {"number", "owner", "step"} /\ x1'.number \in Nat /\ x1'.step \in Nat
          /\ x1'.number = x1.number /\ x1'.step = x1.step + 1
      BY <1>1, <2>1 DEF V!CallsFit
    <2>4. V!CallsFit'
      BY <1>1, <2>1, <2>3, CallsQuiet
    <2> QED
      BY <1>5, <2>1, <2>2, <2>4 DEF V!ViewInv
  <1>9. CASE V!EndTurn
    <2>1. PICK e : e = [type |-> "running", value |-> FALSE]
      OBVIOUS
    <2>2. /\ x2' = x2 /\ x1' = [x1 EXCEPT !.owner = NoValue] /\ e \in V!Events /\ ~V!OfCall(e)
          /\ x4' = Append(x4, e)
      BY <1>9, <2>1, EventIs DEF V!EndTurn, V!Emit, V!OfCall
    <2>3. V!StreamFits' /\ \A d : V!Coming(d)' = V!Coming(d)
      BY <1>1, <1>3, <2>2, SentQuiet
    <2>4. /\ DOMAIN x1' = {"number", "owner", "step"} /\ x1'.number \in Nat /\ x1'.step \in Nat
          /\ x1'.number = x1.number /\ x1'.step = x1.step
      BY <1>1, <2>2 DEF V!CallsFit
    <2>5. V!CallsFit'
      BY <1>1, <2>2, <2>4, CallsQuiet
    <2> QED
      BY <1>5, <2>2, <2>3, <2>5 DEF V!ViewInv
  <1>10. CASE V!Drop
    <2>1. /\ x1' = x1 /\ x2' = x2
          /\ x4' = [i \in DOMAIN x4 |-> IF V!Logged(x4[i]) THEN x4[i] ELSE [type |-> "gap"]]
      BY <1>10 DEF V!Drop, V!server
    <2>2. V!StreamFits' /\ \A d : V!Coming(d)' = V!Coming(d)
      BY <1>1, <1>3, <2>1, BrokenQuiet
    <2>3. V!CallsFit'
      BY <1>1, <2>1, CallsQuiet
    <2> QED
      BY <1>5, <2>1, <2>2, <2>3 DEF V!ViewInv
  <1>11. CASE V!OnGap
    <2>1. /\ x1' = x1 /\ x2' = x2 /\ x4 # <<>> /\ x4' = Tail(x4) /\ ~V!OfCall(Head(x4))
      BY <1>11 DEF V!OnGap, V!Received, V!OfCall, V!server
    <2>2. V!StreamFits' /\ \A d : V!Coming(d)' = V!Coming(d)
      BY <1>1, <1>3, <2>1, ReadQuiet
    <2>3. V!CallsFit'
      BY <1>1, <2>1, CallsQuiet
    <2> QED
      BY <1>5, <2>1, <2>2, <2>3 DEF V!ViewInv
  <1>12. ASSUME NEW c \in DOMAIN x2, V!Finish(c) \/ V!Result(c)
         PROVE  V!ViewInv'
    <2>1. PICK from \in {"ready", "finished"}, to \in {"finished", "done"} : V!Advance(c, from, to)
      BY <1>12 DEF V!Finish, V!Result
    <2>2. /\ x2[c].turn = x1.number /\ x2[c].state # "done" /\ x1' = x1
          /\ x2' = [x2 EXCEPT ![c].state = to]
          /\ x4' = Append(x4, [type |-> to, call |-> c])
      BY <2>1 DEF V!Advance, V!OfTurn, V!Emit
    <2>3. V!CallsFit' /\ V!StreamFits' /\ V!RowsFit' /\ PlacesStay
      BY <1>1, <1>3, <2>2, SentResult
    <2> QED
      BY <1>4, <2>3 DEF V!ViewInv
  <1> QED
    BY <1>6, <1>7, <1>8, <1>9, <1>10, <1>11, <1>12

\* A turn begins, and its events but those of calls are read.
LEMMA QuietSteps ==
  ASSUME V!ViewInv, V!StartTurn \/ V!Abort \/ V!ChatText \/ V!ChatEnd \/ V!OnRunning \/ V!OnText
  PROVE  V!ViewInv'
  <1>1. V!CallsFit /\ V!StreamFits /\ V!RowsFit /\ V!TreeFits
    BY DEF V!ViewInv
  <1>2. x2' = x2 /\ UNCHANGED V!renderer /\ x13' = x13
    BY DEF V!StartTurn, V!Abort, V!ChatText, V!ChatEnd, V!OnRunning, V!OnText, V!server, V!renderer
  <1>3. PlacesStay
    BY <1>2, SamePlaces
  <1>4. x5 \in BOOLEAN /\ x6 \in BOOLEAN /\ DOMAIN x7 = V!Controllers
    BY <1>1 DEF V!TreeFits
  <1>5. V!CallsFit'
    <2>1. CASE V!StartTurn
      <3>1. /\ DOMAIN x1' = {"number", "owner", "step"} /\ x1'.number \in Nat /\ x1'.step \in Nat
            /\ x1'.number = x1.number + 1
        BY <1>1, <2>1 DEF V!StartTurn, V!CallsFit
      <3> QED
        BY <1>1, <1>2, <3>1, CallsQuiet
    <2>2. CASE ~V!StartTurn
      <3>1. x1' = x1
        BY <2>2 DEF V!Abort, V!ChatText, V!ChatEnd, V!OnRunning, V!OnText, V!server
      <3> QED
        BY <1>1, <1>2, <3>1, CallsQuiet
    <2> QED
      BY <2>1, <2>2
  <1>6. V!StreamFits' /\ \A d : V!Coming(d)' = V!Coming(d)
    <2>1. CASE V!StartTurn
      <3>1. PICK e : e = [type |-> "running", value |-> TRUE]
        OBVIOUS
      <3>2. e \in V!Events /\ ~V!OfCall(e) /\ x4' = Append(x4, e)
        BY <2>1, <3>1, EventIs DEF V!StartTurn, V!Emit, V!OfCall
      <3> QED
        BY <1>1, <1>2, <3>2, SentQuiet
    <2>2. CASE V!Abort \/ V!ChatText \/ V!ChatEnd
      <3>1. x4' = x4
        BY <2>2 DEF V!Abort, V!ChatText, V!ChatEnd, V!queues
      <3> QED
        BY <1>1, <1>2, <3>1 DEF V!StreamFits, V!Coming, V!IsOf, V!Announces, V!Before
    <2>3. CASE V!OnRunning \/ V!OnText
      <3>1. x4 # <<>> /\ x4' = Tail(x4) /\ ~V!OfCall(Head(x4))
        BY <2>3 DEF V!OnRunning, V!OnText, V!Received, V!OfCall
      <3> QED
        BY <1>1, <1>2, <3>1, ReadQuiet
    <2> QED
      BY <2>1, <2>2, <2>3
  <1>7. V!RowsFit'
    BY <1>1, <1>2, <1>6, RowsQuiet
  <1>8. V!TreeFits'
    <2>1. CASE V!StartTurn
      <3>1. PICK owner \in {"this", "other"} :
               /\ x5' = (x5 \/ owner = "this") /\ x6' = x6
               /\ x7' = IF owner = "this" THEN [x7 EXCEPT !["local"] = <<>>] ELSE x7
        BY <2>1 DEF V!StartTurn
      <3>2. x5' \in BOOLEAN /\ x6' \in BOOLEAN /\ DOMAIN x7' = V!Controllers
        BY <1>4, <3>1
      <3>3. ASSUME NEW ctl \in V!Controllers
            PROVE  x7'[ctl] = <<>> \/ (x7'[ctl] = x7[ctl] /\ (Followed(ctl)' => Followed(ctl)))
        <4>1. CASE owner = "this"
          <5>1. x5' /\ (ctl = "local" => x7'[ctl] = <<>>) /\ (ctl # "local" => x7'[ctl] = x7[ctl])
            BY <1>4, <3>1, <3>3, <4>1
          <5> QED
            BY <5>1 DEF Followed
        <4>2. CASE owner # "this"
          BY <3>1, <4>2 DEF Followed
        <4> QED
          BY <4>1, <4>2
      <3> QED
        BY <1>1, <1>2, <1>3, <3>2, <3>3, TreeQuiet
    <2>2. CASE V!Abort
      <3>1. PICK ctl \in V!Controllers :
               x7' = [x7 EXCEPT ![ctl] = [k \in DOMAIN @ |->
                     IF @[k].state = "running" THEN [@[k] EXCEPT !.state = "aborting"] ELSE @[k]]]
        BY <2>2 DEF V!Abort, V!Controllers
      <3>2. DOMAIN x7' = V!Controllers /\ x5' = x5 /\ x6' = x6
        BY <1>4, <2>2, <3>1 DEF V!Abort
      <3>3. PICK tools : tools = x7[ctl]
        OBVIOUS
      <3>4. ToolsFit(tools, x2) /\ (Followed(ctl) => ToolsRun(tools, x13))
        BY <1>1, <3>3, TreeIs
      <3>5. PICK next : next = [k \in DOMAIN tools |->
                  IF tools[k].state = "running" THEN [tools[k] EXCEPT !.state = "aborting"] ELSE tools[k]]
        OBVIOUS
      <3>6. /\ x7'[ctl] = next
            /\ \A c \in V!Controllers : c # ctl => x7'[c] = x7[c]
        BY <1>4, <3>1, <3>3, <3>5
      <3>7. /\ DOMAIN next = DOMAIN tools
            /\ \A k \in DOMAIN tools :
                  /\ next[k] \in [call : DOMAIN x2, state : {"running", "aborting", "finished"}]
                  /\ next[k].call = tools[k].call
                  /\ next[k].state = "finished" <=> tools[k].state = "finished"
        BY <3>4, <3>5 DEF ToolsFit
      <3>8. ToolsFit(next, x2)
        BY <3>4, <3>7 DEF ToolsFit
      <3>9. ToolsRun(tools, x13) => ToolsRun(next, x13)
        BY <3>4, <3>7 DEF ToolsRun, V!Running, ToolsFit
      <3>10. ASSUME NEW c \in V!Controllers
             PROVE  ToolsFit(x7'[c], x2') /\ (Followed(c)' => ToolsRun(x7'[c], x13'))
        <4>1. Followed(c)' => Followed(c)
          BY <3>2 DEF Followed
        <4>2. CASE c = ctl
          BY <1>2, <3>4, <3>6, <3>8, <3>9, <4>1, <4>2
        <4>3. CASE c # ctl
          <5>1. ToolsFit(x7[c], x2) /\ (Followed(c) => ToolsRun(x7[c], x13))
            BY <1>1, TreeIs
          <5> QED
            BY <1>2, <3>6, <4>1, <4>3, <5>1
        <4> QED
          BY <4>2, <4>3
      <3> QED
        BY <1>4, <3>2, <3>10, TreeIs
    <2>3. CASE V!ChatText
      <3>1. x5' = x5 /\ x6' = x6 /\ x7' = [x7 EXCEPT !["local"] = <<>>]
        BY <2>3 DEF V!ChatText
      <3>2. \A ctl \in V!Controllers :
              x7'[ctl] = <<>> \/ (x7'[ctl] = x7[ctl] /\ (Followed(ctl)' => Followed(ctl)))
        BY <1>4, <3>1 DEF Followed
      <3>3. DOMAIN x7' = V!Controllers
        BY <1>4, <3>1
      <3> QED
        BY <1>1, <1>2, <1>3, <1>4, <3>1, <3>2, <3>3, TreeQuiet
    <2>4. CASE V!ChatEnd
      <3>1. x5' = FALSE /\ x6' = FALSE /\ x7' = [c \in V!Controllers |-> <<>>]
        BY <2>4 DEF V!ChatEnd
      <3>2. x5' \in BOOLEAN /\ x6' \in BOOLEAN /\ DOMAIN x7' = V!Controllers
            /\ \A ctl \in V!Controllers : x7'[ctl] = <<>>
        BY <3>1
      <3> QED
        BY <1>1, <1>2, <1>3, <3>2, TreeQuiet
    <2>5. CASE V!OnRunning
      <3>1. x4 # <<>> /\ Head(x4).type = "running" /\ x5' = x5 /\ x6' = Head(x4).value
            /\ x7' = IF Head(x4).value /\ x5 THEN x7 ELSE [x7 EXCEPT !["shared"] = <<>>]
        BY <2>5 DEF V!OnRunning, V!Received
      <3>2. x6' \in BOOLEAN
        <4>1. Head(x4) \in V!Events
          BY <1>1, <3>1 DEF V!StreamFits
        <4> QED
          BY <3>1, <4>1, EventIs
      <3>3. \A ctl \in V!Controllers :
              x7'[ctl] = <<>> \/ (x7'[ctl] = x7[ctl] /\ (Followed(ctl)' => Followed(ctl)))
        <4>1. CASE x6' /\ x5
          BY <3>1, <4>1 DEF Followed
        <4>2. CASE ~(x6' /\ x5)
          <5>1. /\ x7'["shared"] = <<>> /\ x7'["local"] = x7["local"]
            BY <1>4, <3>1, <4>2 DEF V!Controllers
          <5>2. Followed("local")' => Followed("local")
            BY <3>1 DEF Followed
          <5> QED
            BY <5>1, <5>2 DEF V!Controllers
        <4> QED
          BY <4>1, <4>2
      <3>4. DOMAIN x7' = V!Controllers
        BY <1>4, <3>1
      <3> QED
        BY <1>1, <1>2, <1>3, <1>4, <3>1, <3>2, <3>3, <3>4, TreeQuiet
    <2>6. CASE V!OnText
      <3>1. x5' = x5 /\ x6' = x6
            /\ x7' = IF x5 THEN x7 ELSE [x7 EXCEPT !["shared"] = <<>>]
        BY <2>6 DEF V!OnText
      <3>2. \A ctl \in V!Controllers :
              x7'[ctl] = <<>> \/ (x7'[ctl] = x7[ctl] /\ (Followed(ctl)' => Followed(ctl)))
        BY <1>4, <3>1 DEF Followed
      <3>3. DOMAIN x7' = V!Controllers
        BY <1>4, <3>1
      <3> QED
        BY <1>1, <1>2, <1>3, <1>4, <3>1, <3>2, <3>3, TreeQuiet
    <2> QED
      BY <2>1, <2>2, <2>3, <2>4, <2>5, <2>6
  <1> QED
    BY <1>5, <1>6, <1>7, <1>8 DEF V!ViewInv

\* A call is announced to the renderer and the tree.
LEMMA CallStep ==
  ASSUME V!ViewInv, V!OnCall
  PROVE  V!ViewInv'
  <1>1. V!CallsFit /\ V!StreamFits /\ V!RowsFit /\ V!TreeFits
    BY DEF V!ViewInv
  <1>2. PICK c : c = Head(x4).call
    OBVIOUS
  <1>3. /\ x4 # <<>> /\ x4' = Tail(x4) /\ Head(x4).type = "call" /\ V!PendCall(c)
        /\ x1' = x1 /\ x2' = x2 /\ x10' = x10 /\ x13' = x13
        /\ x5' = x5 /\ x6' = x6
        /\ V!Hooked([ctl \in V!Controllers |-> V!Upsert(x7[ctl], c)])
    BY <1>2 DEF V!OnCall, V!Received, V!server
  <1>4. V!StreamFits' /\ V!RowsFit' /\ c \in DOMAIN x2 /\ c \notin x13
    BY <1>1, <1>2, <1>3, ReadCall
  <1>5. V!CallsFit'
    BY <1>1, <1>3, CallsQuiet
  <1>6. PICK next : next = [ctl \in V!Controllers |-> V!Upsert(x7[ctl], c)]
    OBVIOUS
  <1>7. ASSUME NEW ctl \in V!Controllers
        PROVE  /\ ToolsFit(next[ctl], x2)
               /\ ToolsRun(x7[ctl], x13) => ToolsRun(next[ctl], x13')
    <2>1. PICK tools : tools = x7[ctl]
      OBVIOUS
    <2>2. ToolsFit(tools, x2) /\ next[ctl] = V!Upsert(tools, c)
      BY <1>1, <1>6, <2>1, TreeIs
    <2> QED
      BY <1>3, <1>4, <2>1, <2>2, UpsertFits
  <1>8. V!TreeFits'
    BY <1>1, <1>3, <1>6, <1>7, TreeHooked
  <1> QED
    BY <1>4, <1>5, <1>8 DEF V!ViewInv

\* A result is given to them.
LEMMA ResultStep ==
  ASSUME V!ViewInv, V!OnResult
  PROVE  V!ViewInv'
  <1>1. V!CallsFit /\ V!StreamFits /\ V!RowsFit /\ V!TreeFits
    BY DEF V!ViewInv
  <1>2. PICK c : c = Head(x4).call
    OBVIOUS
  <1>3. /\ x4 # <<>> /\ x4' = Tail(x4) /\ Head(x4).type \in {"finished", "done"}
        /\ V!PrintResult(c) /\ x1' = x1 /\ x2' = x2 /\ x5' = x5 /\ x6' = x6
        /\ IF x2[c].id \in x9 THEN UNCHANGED x7
           ELSE V!Hooked([ctl \in V!Controllers |-> V!FinishTool(x7[ctl], c)])
    BY <1>2 DEF V!OnResult, V!Received, V!server
  <1>4. /\ V!StreamFits' /\ V!RowsFit' /\ c \in DOMAIN x2
        /\ x2[c].id \in x9 => c \in x13
    BY <1>1, <1>2, <1>3, ReadResult
  <1>5. V!CallsFit'
    BY <1>1, <1>3, CallsQuiet
  <1>6. x13' = x13 \cup {c}
    BY <1>3 DEF V!PrintResult
  <1>7. CASE x2[c].id \in x9
    <2>1. x13' = x13 /\ x7' = x7 /\ PlacesStay
      BY <1>3, <1>4, <1>6, <1>7, SamePlaces
    <2>2. V!TreeFits'
      BY <1>1, <1>3, <2>1, TreeSame
    <2> QED
      BY <1>4, <1>5, <2>2 DEF V!ViewInv
  <1>8. CASE x2[c].id \notin x9
    <2>1. PICK next : next = [ctl \in V!Controllers |-> V!FinishTool(x7[ctl], c)]
      OBVIOUS
    <2>2. V!Hooked(next)
      BY <1>3, <1>8, <2>1
    <2>3. ASSUME NEW ctl \in V!Controllers
          PROVE  /\ ToolsFit(next[ctl], x2)
                 /\ ToolsRun(x7[ctl], x13) => ToolsRun(next[ctl], x13')
      <3>1. PICK tools : tools = x7[ctl]
        OBVIOUS
      <3>2. ToolsFit(tools, x2) /\ next[ctl] = V!FinishTool(tools, c)
        BY <1>1, <2>1, <3>1, TreeIs
      <3> QED
        BY <1>4, <1>6, <3>1, <3>2, FinishFits
    <2>4. V!TreeFits'
      BY <1>1, <1>3, <2>2, <2>3, TreeHooked
    <2> QED
      BY <1>4, <1>5, <2>4 DEF V!ViewInv
  <1> QED
    BY <1>7, <1>8

\* Nothing happens.
LEMMA StutterView ==
  ASSUME V!ViewInv, UNCHANGED V!vars
  PROVE  V!ViewInv'
  <1>1. V!CallsFit /\ V!StreamFits /\ V!RowsFit /\ V!TreeFits
    BY DEF V!ViewInv
  <1>2. /\ x1' = x1 /\ x2' = x2 /\ x4' = x4 /\ x5' = x5 /\ x6' = x6
        /\ x7' = x7 /\ UNCHANGED V!renderer /\ x13' = x13
    BY DEF V!vars, V!server, V!queues, V!client, V!renderer
  <1>3. V!StreamFits' /\ \A d : V!Coming(d)' = V!Coming(d)
    BY <1>1, <1>2 DEF V!StreamFits, V!Coming, V!IsOf, V!Announces, V!Before
  <1>4. V!CallsFit' /\ V!RowsFit' /\ V!TreeFits'
    BY <1>1, <1>2, <1>3, CallsQuiet, RowsQuiet, TreeSame, SamePlaces
  <1> QED
    BY <1>3, <1>4 DEF V!ViewInv

\* Every step keeps what holds.
LEMMA ViewStays ==
  ASSUME V!ViewInv, V!Next
  PROVE  V!ViewInv'
  <1>1. CASE \/ V!Text \/ V!Call \/ V!NextStep \/ V!EndTurn \/ V!Drop \/ V!OnGap
             \/ \E c \in DOMAIN x2 : V!Finish(c) \/ V!Result(c)
    BY <1>1, ServerSteps
  <1>2. CASE V!StartTurn \/ V!Abort \/ V!ChatText \/ V!ChatEnd \/ V!OnRunning \/ V!OnText
    BY <1>2, QuietSteps
  <1>3. CASE V!OnCall
    BY <1>3, CallStep
  <1>4. CASE V!OnResult
    BY <1>4, ResultStep
  <1> QED
    BY <1>1, <1>2, <1>3, <1>4 DEF V!Next

\* The properties are part of the invariant.
LEMMA RowsAreOne ==
  ASSUME V!ViewInv
  PROVE  V!OneRowPerCall /\ V!RunningIsCurrent
  <1>1. V!RowsFit /\ V!RunningIsCurrent
    BY DEF V!ViewInv, V!TreeFits
  <1>2. ASSUME NEW c \in x13
        PROVE  V!Cardinality({r \in DOMAIN x10 : x10[r].call = c}) = 1
    <2>1. PICK r \in DOMAIN x10 : x10[r].call = c
      BY <1>1, <1>2 DEF V!RowsFit
    <2>2. {s \in DOMAIN x10 : x10[s].call = c} = {r}
      BY <1>1, <2>1 DEF V!RowsFit
    <2> QED
      BY <2>2, CallsSingle
  <1> QED
    BY <1>1, <1>2 DEF V!OneRowPerCall, V!RowsFit

(* For any ids, turns and bounds, in any order of the chat response and    *)
(* the event stream, with results sent twice, ids used again, turns        *)
(* cancelled and the stream reopened: a call whose result arrived has one  *)
(* row, with its own arguments, and the tree shows no tool as running      *)
(* whose result was received (tool-activity.ts: renderToolCall,            *)
(* takePendingTool, renderToolResult; activity-status.ts: upsertTool,      *)
(* finishTool; app.ts: createSharedTurnSync, runChatTurn).                 *)
THEOREM RowsStayCurrent == PartsSpec => []RowsAreCurrent
  <1> DEFINE Inv == part = "view" => V!ViewInv
  <1>1. PartsInit => Inv
    BY ViewInit DEF PartsInit, InitCloud, InitOrganizations, InitTerminal, InitConnection,
       InitChildren, InitView
  <1>2. Inv /\ [PartsNext]_partsVars => Inv'
    <2> SUFFICES ASSUME Inv, [PartsNext]_partsVars, part' = "view" PROVE V!ViewInv'
      OBVIOUS
    <2>1. part = "view"
      BY DEF PartsNext, partsVars, OfCloud, OfOrganizations, OfTerminal, OfConnection, OfChildren,
         OfView
    <2>2. CASE UNCHANGED partsVars
      <3>1. UNCHANGED V!vars
        BY <2>2 DEF partsVars, V!vars, V!server, V!queues, V!client, V!renderer
      <3> QED
        BY <2>1, <3>1, StutterView
    <2>3. CASE PartsNext
      <3>1. V!Next
        BY <2>1, <2>3 DEF PartsNext, OfCloud, OfOrganizations, OfTerminal, OfConnection, OfChildren,
         OfView
      <3> QED
        BY <2>1, <3>1, ViewStays
    <2> QED
      BY <2>2, <2>3
  <1>3. Inv => RowsAreCurrent
    BY RowsAreOne DEF RowsAreCurrent
  <1> QED
    BY <1>1, <1>2, <1>3, PTL DEF PartsSpec

-----------------------------------------------------------------------------
(* The chat page of the web client.                                        *)

\* The functions awaiting a task.
LEMMA Prepended ==
  ASSUME NEW f \in Frames, NEW b \in Seq(Frames)
  PROVE  /\ <<f>> \o b \in Seq(Frames) /\ Len(<<f>> \o b) = Len(b) + 1
         /\ (<<f>> \o b)[1] = f /\ 1 \in DOMAIN (<<f>> \o b)
         /\ \A i \in DOMAIN b : i + 1 \in DOMAIN (<<f>> \o b) /\ (<<f>> \o b)[i + 1] = b[i]
         /\ \A i \in DOMAIN (<<f>> \o b) : i = 1 \/ (i - 1 \in DOMAIN b /\ (<<f>> \o b)[i] = b[i - 1])
  <1>1. <<f>> \in Seq(Frames) /\ Len(<<f>>) = 1 /\ <<f>>[1] = f
    OBVIOUS
  <1> DEFINE u == <<f>> \o b
  <1>2. u \in Seq(Frames) /\ Len(u) = Len(b) + 1 /\ Len(b) \in Nat
    BY <1>1
  <1>3. u[1] = f /\ \A i \in 1 .. Len(b) : u[i + 1] = b[i]
    BY <1>1
  <1>4. DOMAIN u = 1 .. Len(b) + 1 /\ DOMAIN b = 1 .. Len(b)
    BY <1>2
  <1> HIDE DEF u
  <1>5. \A i \in DOMAIN u : i = 1 \/ (i - 1 \in DOMAIN b /\ u[i] = b[i - 1])
    <2> SUFFICES ASSUME NEW i \in DOMAIN u, i # 1 PROVE i - 1 \in DOMAIN b /\ u[i] = b[i - 1]
      OBVIOUS
    <2>1. i - 1 \in 1 .. Len(b) /\ i - 1 + 1 = i
      BY <1>2, <1>4
    <2> QED
      BY <2>1, <1>3, <1>4
  <1>6. \A i \in DOMAIN b : i + 1 \in DOMAIN u /\ u[i + 1] = b[i]
    BY <1>2, <1>3, <1>4
  <1>7. 1 \in DOMAIN u
    BY <1>2, <1>4
  <1> QED
    BY <1>2, <1>3, <1>5, <1>6, <1>7 DEF u

LEMMA PrependedFits ==
  ASSUME NEW f \in Frames, NEW b \in Seq(Frames), BackFits(b),
         f.fn \in {"selected", "connected"}, f.fn = "selected" => f.sid \in Sessions
  PROVE  BackFits(<<f>> \o b)
  <1> DEFINE u == <<f>> \o b
  <1>1. /\ Len(u) = Len(b) + 1 /\ u[1] = f /\ Len(b) \in Nat
        /\ \A i \in DOMAIN u : i = 1 \/ (i - 1 \in DOMAIN b /\ u[i] = b[i - 1])
    BY Prepended
  <1> HIDE DEF u
  <1>2. ASSUME NEW i \in DOMAIN u
        PROVE  /\ u[i].fn \notin {"selected", "connected"} => i = Len(u)
               /\ u[i].fn \in {"selected", "typed", "send"} => u[i].sid \in Sessions
    <2>1. CASE i = 1
      BY <2>1, <1>1
    <2>2. CASE i # 1
      <3>1. i - 1 \in DOMAIN b /\ u[i] = b[i - 1]
        BY <2>2, <1>1
      <3>2. u[i].fn \notin {"selected", "connected"} => i - 1 = Len(b)
        BY <3>1 DEF BackFits
      <3>3. i - 1 = Len(b) => i = Len(u)
        <4>1. i \in 1 .. Len(u)
          BY <1>1, <3>1 DEF u
        <4> QED
          BY <4>1, <1>1
      <3> QED
        BY <3>1, <3>2, <3>3 DEF BackFits
    <2> QED
      BY <2>1, <2>2
  <1> QED
    BY <1>2 DEF BackFits, u

LEMMA Single ==
  ASSUME NEW f \in Frames, f.fn \in {"selected", "typed", "send"} => f.sid \in Sessions
  PROVE  <<f>> \in Seq(Frames) /\ BackFits(<<f>>) /\ <<f>>[1] = f /\ DOMAIN <<f>> = {1}
  BY DEF BackFits

LEMMA Empty ==
  /\ <<>> \in Seq(Frames) /\ BackFits(<<>>) /\ DOMAIN <<>> = {}
  BY DEF BackFits

LEMMA Popped ==
  ASSUME NEW b \in Seq(Frames), BackFits(b), b # <<>>
  PROVE  /\ Tail(b) \in Seq(Frames) /\ BackFits(Tail(b))
         /\ Head(b) = b[1] /\ 1 \in DOMAIN b /\ Head(b) \in Frames
         /\ \A i \in DOMAIN Tail(b) : i + 1 \in DOMAIN b /\ Tail(b)[i] = b[i + 1]
         /\ \A i \in DOMAIN b : i = 1 \/ (i - 1 \in DOMAIN Tail(b) /\ Tail(b)[i - 1] = b[i])
         /\ Head(b).fn \notin {"selected", "connected"} => Tail(b) = <<>> /\ DOMAIN b = {1}
  <1> DEFINE u == Tail(b)
  <1>1. /\ u \in Seq(Frames) /\ Len(b) \in Nat /\ Len(b) > 0 /\ Len(u) = Len(b) - 1
        /\ DOMAIN u = 1 .. Len(b) - 1 /\ DOMAIN b = 1 .. Len(b)
        /\ \A i \in 1 .. Len(b) - 1 : u[i] = b[i + 1]
    OBVIOUS
  <1> HIDE DEF u
  <1>2. \A i \in DOMAIN u : i + 1 \in DOMAIN b /\ u[i] = b[i + 1]
    BY <1>1
  <1>3. \A i \in DOMAIN b : i = 1 \/ (i - 1 \in DOMAIN u /\ u[i - 1] = b[i])
    <2> SUFFICES ASSUME NEW i \in DOMAIN b, i # 1 PROVE i - 1 \in DOMAIN u /\ u[i - 1] = b[i]
      OBVIOUS
    <2>1. i - 1 \in DOMAIN u /\ i - 1 + 1 = i
      BY <1>1
    <2> QED
      BY <2>1, <1>1
  <1>4. Head(b) = b[1] /\ 1 \in DOMAIN b /\ Head(b) \in Frames
    BY <1>1
  <1>5. BackFits(u)
    <2> SUFFICES ASSUME NEW i \in DOMAIN u
                 PROVE  /\ u[i].fn \notin {"selected", "connected"} => i = Len(u)
                        /\ u[i].fn \in {"selected", "typed", "send"} => u[i].sid \in Sessions
      BY DEF BackFits
    <2>1. i + 1 \in DOMAIN b /\ u[i] = b[i + 1]
      BY <1>2
    <2>2. u[i].fn \notin {"selected", "connected"} => i + 1 = Len(b)
      BY <2>1 DEF BackFits
    <2>3. i + 1 = Len(b) => i = Len(u)
      BY <1>1
    <2> QED
      BY <2>1, <2>2, <2>3 DEF BackFits
  <1>6. Head(b).fn \notin {"selected", "connected"} => u = <<>> /\ DOMAIN b = {1}
    <2> SUFFICES ASSUME Head(b).fn \notin {"selected", "connected"} PROVE u = <<>> /\ DOMAIN b = {1}
      OBVIOUS
    <2>1. 1 = Len(b)
      BY <1>4 DEF BackFits
    <2> QED
      BY <2>1, <1>1
  <1> QED
    BY <1>1, <1>2, <1>3, <1>4, <1>5, <1>6 DEF u

\* One task goes on,
LEMMA TaskGoesOn ==
  ASSUME TasksFit, NEW t \in Tasks, NEW new \in TaskRecords, TaskFits(new),
         task' = [task EXCEPT ![t] = new],
         \/ request' = request /\ (task[t].pc # "chat" \/ request # t)
         \/ request' = None
         \/ request' = t /\ new.pc = "chat",
         target' = None => target = None /\ active' = active /\ new.pc \in {"idle", "projects", "probe"}
  PROVE  TasksFit' /\ task'[t] = new /\ \A u \in Tasks : u # t => task'[u] = task[u]
  <1>1. /\ task \in [Tasks -> TaskRecords] /\ task' \in [Tasks -> TaskRecords] /\ task'[t] = new
        /\ \A u \in Tasks : u # t => task'[u] = task[u]
    BY DEF TasksFit
  <1>2. \A u \in Tasks : TaskFits(task'[u])
    BY <1>1 DEF TasksFit
  <1>3. (\A u \in Tasks : TaskFits(task[u]))'
    BY <1>2 DEF TaskFits, BackFits
  <1>4. request' # None => task'[request'].pc = "chat"
    <2>1. CASE request' = request /\ (task[t].pc # "chat" \/ request # t)
      <3> SUFFICES ASSUME request # None PROVE task'[request].pc = "chat"
        BY <2>1
      <3>1. task[request].pc = "chat"
        BY DEF TasksFit
      <3>2. request # t
        BY <2>1, <3>1
      <3>3. task'[request] = task[request]
        BY <3>2, <1>1
      <3> QED
        BY <3>1, <3>3
    <2>2. CASE request' = t /\ new.pc = "chat"
      BY <2>2, <1>1
    <2> QED
      BY <2>1, <2>2
  <1>5. target' = None =>
            active' = None /\ \A u \in Tasks : task'[u].pc \in {"idle", "projects", "probe"}
    <2> SUFFICES ASSUME target' = None, NEW u \in Tasks
                 PROVE  active' = None /\ task'[u].pc \in {"idle", "projects", "probe"}
      OBVIOUS
    <2>1. active = None /\ task[u].pc \in {"idle", "projects", "probe"}
      BY DEF TasksFit
    <2> QED
      BY <2>1, <1>1
  <1> QED
    BY <1>1, <1>3, <1>4, <1>5 DEF TasksFit

\* and the flags are kept.
LEMMA FlagsKept ==
  ASSUME TasksFit, FlagsFit, NEW t \in Tasks, NEW new, task' = [task EXCEPT ![t] = new],
         target' = target, generation' = generation, active' = active, lost' = lost,
         health' = health, handle' = handle, streamToken' = streamToken, mounted' = mounted,
         connecting' => connecting, loading' => loading,
         Links(task[t]) => Links(task[t])', Joins(task[t]) => Joins(task[t])'
  PROVE  FlagsFit'
  <1>1. task'[t] = new /\ \A u \in Tasks : u # t => task'[u] = task[u]
    BY DEF TasksFit
  <1>2. ASSUME NEW u \in Tasks, Links(task[u]) PROVE Links(task[u])'
    <2>1. CASE u = t
      BY <1>1, <1>2, <2>1
    <2>2. CASE u # t
      <3>1. task'[u] = task[u]
        BY <1>1, <2>2
      <3> QED
        BY <3>1, <1>2 DEF Links, IsCurrentTarget
    <2> QED
      BY <2>1, <2>2
  <1>3. ASSUME NEW u \in Tasks, Joins(task[u]) PROVE Joins(task[u])'
    <2>1. CASE u = t
      BY <1>1, <1>3, <2>1
    <2>2. CASE u # t
      <3>1. task'[u] = task[u]
        BY <1>1, <2>2
      <3> QED
        BY <3>1, <1>3 DEF Joins, IsCurrentTarget, IsCurrentSelection
    <2> QED
      BY <2>1, <2>2
  <1>4. Linking => Linking'
    BY <1>2 DEF Linking
  <1>5. Joining => Joining'
    BY <1>3 DEF Joining
  <1>6. IsCurrentStream' = IsCurrentStream
    BY DEF IsCurrentStream
  <1> QED
    BY <1>4, <1>5, <1>6 DEF FlagsFit

\* Who clears isConnecting goes on waiting,
LEMMA LinkingKept ==
  ASSUME task \in [Tasks -> TaskRecords], NEW t \in Tasks, NEW new, task' = [task EXCEPT ![t] = new],
         target' = target, generation' = generation, Links(task[t]) => Links(task[t])', Linking
  PROVE  Linking'
  <1>1. task'[t] = new /\ \A u \in Tasks : u # t => task'[u] = task[u]
    OBVIOUS
  <1>2. ASSUME NEW u \in Tasks, Links(task[u]) PROVE Links(task[u])'
    <2>1. CASE u = t
      BY <1>1, <1>2, <2>1
    <2>2. CASE u # t
      <3>1. task'[u] = task[u]
        BY <1>1, <2>2
      <3> QED
        BY <3>1, <1>2 DEF Links, IsCurrentTarget
    <2> QED
      BY <2>1, <2>2
  <1> QED
    BY <1>2 DEF Linking

\* The view is reset,
LEMMA ResetFits ==
  ASSUME StreamFits, ResetView
  PROVE  StreamFits' /\ MessagesFit'
  <1>1. handle' = None /\ streams' = streams \ {handle} /\ view' = Blank
    BY DEF ResetView, StopEvents
  <1>2. OneStreamOpen'
    BY <1>1 DEF StreamFits, OneStreamOpen
  <1>3. StreamFits'
    BY <1>1, <1>2 DEF StreamFits, IsCurrentStream
  <1>4. MessagesFit'
    BY <1>1 DEF MessagesFit, Blank, Views
  <1> QED
    BY <1>3, <1>4

\* or the stream and the messages stay.
LEMMA StreamStays ==
  ASSUME StreamFits, MessagesFit, UNCHANGED <<handle, streams, streamToken, view>>,
         active' = None \/ UNCHANGED <<active, target>>
  PROVE  StreamFits' /\ MessagesFit'
  <1>1. (handle # None => handle \in Handles)' /\ OneStreamOpen'
    BY DEF StreamFits, OneStreamOpen
  <1>2. (IsCurrentStream => handle.tgt = target)'
    <2>1. CASE active' = None
      <3>1. handle # None => handle.sid \in Sessions
        BY DEF StreamFits, Handles
      <3> QED
        BY <2>1, <3>1, TargetsAssumption DEF IsCurrentStream
    <2>2. CASE UNCHANGED <<active, target>>
      BY <2>2 DEF StreamFits, IsCurrentStream
    <2> QED
      BY <2>1, <2>2
  <1>3. MessagesFit'
    BY DEF MessagesFit
  <1> QED
    BY <1>1, <1>2, <1>3 DEF StreamFits

\* The task connects,
LEMMA Connected ==
  ASSUME TasksFit, generation \in Nat, NEW t \in Tasks, NEW tgt \in Targets,
         NEW sid \in SessionsOrNone, NEW turn \in {1, 2}, NEW back \in Seq(Frames), BackFits(back),
         Connect(t, tgt, sid, turn, back), target' = tgt, request' = request, task[t].pc # "chat"
  PROVE  TasksFit' /\ FlagsFit' /\ generation' \in Nat /\ connecting' = TRUE /\ error' = FALSE
  <1> DEFINE new == [pc |-> "connect", tgt |-> tgt, sid |-> sid, gen |-> generation + turn,
                     load |-> 0, back |-> back]
  <1>1. /\ generation' = generation + turn /\ connecting' = TRUE /\ error' = FALSE
        /\ task' = [task EXCEPT ![t] = new]
    BY DEF Connect
  <1>2. generation' \in Nat
    BY <1>1
  <1>3. new \in TaskRecords
    BY <1>1, <1>2 DEF TaskRecords
  <1>4. TaskFits(new)
    BY DEF TaskFits
  <1>5. new.pc = "connect" /\ new.gen = generation' /\ new.tgt = target'
    BY <1>1
  <1> HIDE DEF new
  <1>6. target' # None
    BY TargetsAssumption
  <1>7. TasksFit' /\ task'[t] = new
    BY <1>1, <1>3, <1>4, <1>6, TaskGoesOn
  <1>8. Links(task[t])' /\ Joins(task[t])'
    BY <1>5, <1>7 DEF Links, Joins, IsCurrentTarget
  <1>9. Linking' /\ Joining'
    BY <1>8 DEF Linking, Joining
  <1> QED
    BY <1>1, <1>2, <1>7, <1>9 DEF FlagsFit

\* or selects a session.
LEMMA Selected ==
  ASSUME TasksFit, FlagsFit, StreamFits, generation \in Nat, loadToken \in Nat,
         NEW t \in Tasks, NEW sid \in Sessions, NEW back \in Seq(Frames), BackFits(back),
         SelectSession(t, sid, back), UNCHANGED <<target, generation, connecting, mounted, request>>,
         target \in Targets, task[t].pc # "chat",
         Links(task[t]) => \E i \in DOMAIN back :
             back[i].fn = "linked" \/ (back[i].fn = "connected" /\ IsCurrentTarget(back[i]))
  PROVE  /\ TasksFit' /\ FlagsFit' /\ StreamFits' /\ MessagesFit'
         /\ active' = sid /\ input' = sid /\ loading' = TRUE /\ lost' = FALSE /\ error' = FALSE
         /\ sending' = FALSE /\ compacting' = FALSE /\ loadToken' = loadToken + 1
         /\ streamToken' = streamToken + 1
  <1> DEFINE top == Frame("selected", target, sid, generation)
             all == <<top>> \o back
             new == [pc |-> "load", tgt |-> target, sid |-> sid, gen |-> generation,
                     load |-> loadToken + 1, back |-> all]
  <1>1. /\ active' = sid /\ input' = sid /\ loading' = TRUE /\ lost' = FALSE /\ error' = FALSE
        /\ loadToken' = loadToken + 1 /\ ResetView /\ task' = [task EXCEPT ![t] = new]
    BY DEF SelectSession, Refresh
  <1>2. /\ top \in Frames /\ top.fn = "selected" /\ top.tgt = target /\ top.sid = sid
        /\ top.gen = generation
    BY DEF Frame, Frames, SessionsOrNone
  <1> HIDE DEF top
  <1>3. /\ all \in Seq(Frames) /\ BackFits(all) /\ 1 \in DOMAIN all /\ all[1] = top
        /\ \A i \in DOMAIN back : i + 1 \in DOMAIN all /\ all[i + 1] = back[i]
    BY <1>2, Prepended, PrependedFits
  <1> HIDE DEF all
  <1>4. new \in TaskRecords
    BY <1>3 DEF TaskRecords, SessionsOrNone
  <1>5. TaskFits(new)
    BY <1>3 DEF TaskFits
  <1>6. new.pc = "load" /\ new.back = all
    OBVIOUS
  <1> HIDE DEF new
  <1>7. target' # None
    BY TargetsAssumption
  <1>8. TasksFit' /\ task'[t] = new
    BY <1>1, <1>4, <1>5, <1>7, TaskGoesOn
  <1>9. Joins(task[t])'
    <2>1. task'[t].back = all
      BY <1>6, <1>8
    <2>2. /\ all[1].fn = "selected" /\ all[1].tgt = target' /\ all[1].sid = active'
          /\ all[1].gen = generation'
      BY <1>1, <1>2, <1>3
    <2> QED
      BY <2>1, <2>2, <1>3 DEF Joins, IsCurrentSelection, IsCurrentTarget
  <1>10. Links(task[t]) => Links(task[t])'
    <2> SUFFICES ASSUME Links(task[t]) PROVE Links(task[t])'
      OBVIOUS
    <2>1. PICK i \in DOMAIN back :
              back[i].fn = "linked" \/ (back[i].fn = "connected" /\ IsCurrentTarget(back[i]))
      OBVIOUS
    <2>2. i + 1 \in DOMAIN all /\ all[i + 1] = back[i]
      BY <1>3
    <2>3. task'[t].back = all
      BY <1>6, <1>8
    <2> QED
      BY <2>1, <2>2, <2>3 DEF Links, IsCurrentTarget
  <1>11. Linking => Linking'
    BY <1>1, <1>10, LinkingKept DEF TasksFit
  <1>12. Joining'
    BY <1>9 DEF Joining
  <1>13. FlagsFit'
    BY <1>11, <1>12 DEF FlagsFit
  <1>14. StreamFits' /\ MessagesFit'
    BY <1>1, ResetFits
  <1> QED
    BY <1>1, <1>8, <1>13, <1>14 DEF ResetView

\* What a task is that awaits an answer, or returns.
LEMMA IdleIs ==
  Idle \in TaskRecords /\ Idle.pc = "idle" /\ Idle.back = <<>>
  BY DEF Idle, TaskRecords, SessionsOrNone

LEMMA ResumeIs ==
  ASSUME TasksFit, NEW t \in Tasks, Resume(t)
  PROVE  \E new \in TaskRecords :
            task' = [task EXCEPT ![t] = new] /\ new.pc = "return" /\ new.back = task[t].back
  <1> DEFINE new == [Idle EXCEPT !.pc = "return", !.back = task[t].back]
  <1>1. task[t].back \in Seq(Frames)
    BY DEF TasksFit, TaskRecords
  <1>2. new \in TaskRecords /\ new.pc = "return" /\ new.back = task[t].back
    BY <1>1, IdleIs DEF TaskRecords
  <1>3. task' = [task EXCEPT ![t] = new]
    BY DEF Resume
  <1> QED
    BY <1>2, <1>3

\* A task nothing awaits clears no flag.
LEMMA Unawaited ==
  ASSUME NEW k, k.back = <<>>, k.pc \notin {"connect", "projects", "probe"}
  PROVE  ~Links(k) /\ ~Joins(k)
  <1>1. DOMAIN k.back = {}
    BY Empty
  <1> QED
    BY <1>1 DEF Links, Joins

\* It goes on: to wait for another answer, or to its end.
LEMMA Goes ==
  ASSUME TasksFit, FlagsFit, NEW t \in Tasks, NEW new \in TaskRecords, TaskFits(new),
         task' = [task EXCEPT ![t] = new],
         \/ request' = request /\ (task[t].pc # "chat" \/ request # t)
         \/ request' = None
         \/ request' = t /\ new.pc = "chat",
         UNCHANGED <<target, generation, active, lost, health, handle, streamToken, mounted>>,
         connecting' => connecting, loading' => loading,
         target = None => new.pc \in {"idle", "projects", "probe"},
         ~Links(task[t]), ~Joins(task[t])
  PROVE  TasksFit' /\ FlagsFit'
  <1>1. TasksFit'
    BY TaskGoesOn
  <1>2. FlagsFit'
    BY FlagsKept
  <1> QED
    BY <1>1, <1>2

\* An answer comes, and the functions awaiting it go on awaiting.
LEMMA BackStays ==
  ASSUME TasksFit, FlagsFit, NEW t \in Tasks, NEW new \in TaskRecords,
         new.back = task[t].back, new.pc \in {"load", "scroll", "return"},
         task' = [task EXCEPT ![t] = new], task[t].pc \in {"connect", "load", "scroll", "clear"},
         task[t].pc = "connect" => ~IsCurrentTarget(task[t]),
         UNCHANGED <<target, generation, active, lost, health, handle, streamToken, mounted,
                     connecting, loading, request>>
  PROVE  TasksFit' /\ FlagsFit'
  <1>1. TaskFits(task[t]) /\ target # None
    BY DEF TasksFit
  <1>2. TaskFits(new)
    BY <1>1 DEF TaskFits
  <1>3. TasksFit' /\ task'[t] = new
    BY <1>1, <1>2, TaskGoesOn
  <1>4. Links(task[t]) => Links(task[t])'
    BY <1>3 DEF Links, IsCurrentTarget
  <1>5. Joins(task[t]) => Joins(task[t])'
    BY <1>3 DEF Joins, IsCurrentTarget, IsCurrentSelection
  <1>6. FlagsFit'
    BY <1>4, <1>5, FlagsKept
  <1> QED
    BY <1>3, <1>6

\* What every step begins with.
LEMMA Facts ==
  ASSUME SelectionInv
  PROVE  /\ TypeOK /\ TasksFit /\ ServerFits /\ StreamFits /\ MessagesFit /\ FlagsFit
         /\ target \in Targets \cup {None} /\ active \in SessionsOrNone /\ input \in SessionsOrNone
         /\ health \in Targets \cup {None} /\ listed \subseteq Sessions /\ projects \subseteq Projects
         /\ generation \in Nat /\ loadToken \in Nat /\ streamToken \in Nat
         /\ sending \in BOOLEAN /\ compacting \in BOOLEAN /\ connecting \in BOOLEAN
         /\ loading \in BOOLEAN /\ error \in BOOLEAN /\ mounted \in BOOLEAN
         /\ request \in Tasks \cup {None} /\ Projects \subseteq Targets /\ Direct \in Targets
         /\ Sessions \subseteq SessionsOrNone /\ None \in SessionsOrNone
  BY DEF SelectionInv, TypeOK, Targets, SessionsOrNone

LEMMA TaskFacts ==
  ASSUME SelectionInv, NEW t \in Tasks
  PROVE  /\ task[t] \in TaskRecords /\ TaskFits(task[t]) /\ BackFits(task[t].back)
         /\ task[t].tgt \in Targets \cup {None} /\ task[t].sid \in SessionsOrNone
         /\ task[t].back \in Seq(Frames) /\ task[t].gen \in Nat
         /\ task[t].pc \notin {"idle", "projects", "probe"} => target \in Targets
         /\ task[t].pc \notin {"connect", "load", "scroll", "clear", "return"} => task[t].back = <<>>
  <1>1. task[t] \in TaskRecords /\ TaskFits(task[t]) /\ target \in Targets \cup {None}
        /\ (task[t].pc \notin {"idle", "projects", "probe"} => target # None)
    BY DEF SelectionInv, TasksFit, TypeOK
  <1> QED
    BY <1>1 DEF TaskRecords, TaskFits

LEMMA AtRest ==
  ASSUME SelectionInv, NEW t \in Tasks, Operation(t)
  PROVE  task[t].pc = "idle" /\ task[t].back = <<>> /\ task[t] = Idle
  BY IdleIs DEF Operation

LEMMA TypesBack ==
  ASSUME target' \in Targets \cup {None}, active' \in SessionsOrNone, input' \in SessionsOrNone,
         health' \in Targets \cup {None}, listed' \subseteq Sessions, projects' \subseteq Projects,
         generation' \in Nat, loadToken' \in Nat, streamToken' \in Nat,
         sending' \in BOOLEAN, compacting' \in BOOLEAN, connecting' \in BOOLEAN,
         loading' \in BOOLEAN, error' \in BOOLEAN, mounted' \in BOOLEAN,
         request' \in Tasks \cup {None}
  PROVE  TypeOK'
  BY DEF TypeOK

\* selectProject
LEMMA ProjectSelected ==
  ASSUME SelectionInv, NEW t \in Tasks, NEW p \in Projects, NEW preferred \in SessionsOrNone,
         NEW back \in Seq(Frames), BackFits(back), SelectProject(t, p, preferred, back),
         task[t].pc # "chat", UNCHANGED <<request, mounted, server>>, projects' \subseteq Projects
  PROVE  SelectionInv'
  <1>1. /\ ResetView /\ loadToken' = loadToken + 1 /\ target' = p /\ active' = preferred
        /\ input' = preferred /\ health' = None /\ listed' = {} /\ Connect(t, p, preferred, 2, back)
        /\ UNCHANGED <<loading, lost>>
    BY DEF SelectProject
  <1>2. p \in Targets
    BY Facts
  <1>3. TasksFit' /\ FlagsFit' /\ generation' \in Nat /\ connecting' = TRUE /\ error' = FALSE
    BY <1>1, <1>2, Facts, Connected
  <1>4. StreamFits' /\ MessagesFit'
    BY <1>1, Facts, ResetFits
  <1>5. streamToken' = streamToken + 1 /\ sending' = FALSE /\ compacting' = FALSE
    BY <1>1 DEF ResetView
  <1>6. TypeOK'
    <2>1. /\ target' \in Targets \cup {None} /\ health' \in Targets \cup {None} /\ listed' \subseteq Sessions
          /\ loadToken' \in Nat /\ streamToken' \in Nat
      BY <1>1, <1>2, <1>5, Facts
    <2>2. loading' \in BOOLEAN /\ mounted' \in BOOLEAN
      BY <1>1, Facts
    <2> QED
      BY <1>1, <1>3, <1>5, <2>1, <2>2, Facts, TypesBack
  <1>7. ServerFits'
    BY Facts DEF ServerFits
  <1> QED
    BY <1>3, <1>4, <1>6, <1>7 DEF SelectionInv

LEMMA ChooseProjectHolds ==
  ASSUME SelectionInv, NEW t \in Tasks, ChooseProject(t)
  PROVE  SelectionInv'
  <1>1. /\ Operation(t) /\ UNCHANGED <<projects, request, server, mounted>>
        /\ \E p \in projects : \E preferred \in Known[p] \cup {None} :
              SelectProject(t, p, preferred, <<>>)
    BY DEF ChooseProject
  <1>2. PICK p \in projects : \E preferred \in Known[p] \cup {None} : SelectProject(t, p, preferred, <<>>)
    BY <1>1
  <1>3. PICK preferred \in Known[p] \cup {None} : SelectProject(t, p, preferred, <<>>)
    BY <1>2
  <1>4. p \in Projects /\ p \in Targets
    BY Facts
  <1>5. preferred \in SessionsOrNone
    BY <1>4, KnownAssumption DEF SessionsOrNone
  <1>6. task[t].pc = "idle" /\ projects' \subseteq Projects
    BY <1>1, AtRest, Facts
  <1> QED
    BY <1>1, <1>3, <1>4, <1>5, <1>6, Empty, ProjectSelected

\* Only flags and tasks change.
LEMMA Stays ==
  ASSUME SelectionInv,
         UNCHANGED <<target, active, input, health, projects, generation, streamToken, handle, streams,
                     mounted>>,
         listed' \subseteq Sessions, loadToken' \in Nat, sending' \in BOOLEAN, compacting' \in BOOLEAN,
         connecting' \in BOOLEAN, loading' \in BOOLEAN, error' \in BOOLEAN,
         request' \in Tasks \cup {None}, view' = view \/ MessagesFit', server' = server \/ ServerFits',
         TasksFit', FlagsFit'
  PROVE  SelectionInv'
  <1>1. TypeOK'
    BY Facts, TypesBack
  <1>2. ServerFits'
    BY Facts DEF ServerFits
  <1>3. MessagesFit'
    <2>1. CASE view' = view
      BY <2>1, Facts DEF MessagesFit
    <2> QED
      BY <2>1
  <1>4. StreamFits'
    BY Facts DEF StreamFits, OneStreamOpen, IsCurrentStream
  <1> QED
    BY <1>1, <1>2, <1>3, <1>4 DEF SelectionInv

\* A task nothing awaits begins to wait for an answer,
LEMMA Awaited ==
  ASSUME SelectionInv, NEW t \in Tasks,
         NEW pc \in {"projects", "probe", "register", "create", "chat", "call", "status", "clear", "skill"},
         NEW tgt \in Targets \cup {None}, NEW sid \in SessionsOrNone, Await(t, pc, tgt, sid, <<>>),
         pc = "chat" => sid \in Sessions, pc = "register" => tgt \in Projects,
         \/ request' = request /\ (task[t].pc # "chat" \/ request # t)
         \/ request' = t /\ pc = "chat",
         UNCHANGED <<target, generation, active, lost, health, handle, streamToken, mounted>>,
         connecting' => connecting, loading' => loading,
         target = None => pc \in {"projects", "probe"},
         ~Links(task[t]), ~Joins(task[t])
  PROVE  TasksFit' /\ FlagsFit'
  <1> DEFINE new == [Idle EXCEPT !.pc = pc, !.tgt = tgt, !.sid = sid, !.back = <<>>]
  <1>0. new \in TaskRecords /\ new.pc = pc /\ new.tgt = tgt /\ new.sid = sid /\ new.back = <<>>
    BY IdleIs, Empty DEF TaskRecords
  <1>1. task' = [task EXCEPT ![t] = new]
    BY DEF Await
  <1> HIDE DEF new
  <1>2. TaskFits(new)
    BY <1>0, Empty DEF TaskFits
  <1> QED
    BY <1>0, <1>1, <1>2, Facts, Goes

\* or has ended.
LEMMA Ended ==
  ASSUME SelectionInv, NEW t \in Tasks, task' = [task EXCEPT ![t] = Idle],
         (request' = request /\ (task[t].pc # "chat" \/ request # t)) \/ request' = None,
         UNCHANGED <<target, generation, active, lost, health, handle, streamToken, mounted>>,
         connecting' => connecting, loading' => loading,
         ~Links(task[t]), ~Joins(task[t])
  PROVE  TasksFit' /\ FlagsFit'
  <1>1. TaskFits(Idle)
    BY IdleIs, Empty DEF TaskFits
  <1> QED
    BY <1>1, IdleIs, Facts, Goes

LEMMA RegisterProjectHolds ==
  ASSUME SelectionInv, NEW t \in Tasks, RegisterProject(t)
  PROVE  SelectionInv'
  <1>1. /\ Operation(t) /\ target \in Projects /\ error' = FALSE
        /\ UNCHANGED <<identity, tokens, shown, connecting, loading, stream, request, server, mounted>>
    BY DEF RegisterProject
  <1>2. PICK p \in Projects : Await(t, "register", p, None, <<>>)
    BY DEF RegisterProject
  <1>3. task[t].pc = "idle" /\ task[t].back = <<>> /\ target # None
    BY <1>1, AtRest, TargetsAssumption DEF Targets
  <1>4. UNCHANGED <<target, generation, active, lost, health, handle, streamToken, mounted,
                    connecting, loading,
                    request>>
    BY <1>1 DEF identity, tokens, stream
  <1>5. p \in Targets \cup {None} /\ None \in SessionsOrNone
    BY Facts
  <1>6. TasksFit' /\ FlagsFit'
    BY <1>2, <1>3, <1>4, <1>5, Unawaited, Awaited
  <1> QED
    BY <1>1, <1>6, Facts, Stays DEF identity, tokens, stream, shown

LEMMA JoiningKept ==
  ASSUME task \in [Tasks -> TaskRecords], NEW t \in Tasks, NEW new, task' = [task EXCEPT ![t] = new],
         target' = target, generation' = generation, active' = active,
         Joins(task[t]) => Joins(task[t])', Joining
  PROVE  Joining'
  <1>1. task'[t] = new /\ \A u \in Tasks : u # t => task'[u] = task[u]
    OBVIOUS
  <1>2. ASSUME NEW u \in Tasks, Joins(task[u]) PROVE Joins(task[u])'
    <2>1. CASE u = t
      BY <1>1, <1>2, <2>1
    <2>2. CASE u # t
      <3>1. task'[u] = task[u]
        BY <1>1, <2>2
      <3> QED
        BY <3>1, <1>2 DEF Joins, IsCurrentTarget, IsCurrentSelection
    <2> QED
      BY <2>1, <2>2
  <1> QED
    BY <1>2 DEF Joining

\* The page begins to connect.
LEMMA Begun ==
  ASSUME SelectionInv, NEW t \in Tasks, NEW pc \in {"projects", "probe"},
         NEW tgt \in Targets \cup {None}, NEW sid \in SessionsOrNone, Await(t, pc, tgt, sid, <<>>),
         Operation(t), UNCHANGED <<identity, tokens, shown, loading, stream, request, server, mounted>>,
         connecting' = TRUE, error' = FALSE
  PROVE  SelectionInv'
  <1> DEFINE new == [Idle EXCEPT !.pc = pc, !.tgt = tgt, !.sid = sid, !.back = <<>>]
  <1>0. new \in TaskRecords /\ new.pc = pc /\ new.tgt = tgt /\ new.sid = sid /\ new.back = <<>>
    BY IdleIs, Empty DEF TaskRecords
  <1>1. task' = [task EXCEPT ![t] = new]
    BY DEF Await
  <1> HIDE DEF new
  <1>2. TaskFits(new)
    BY <1>0, Empty DEF TaskFits
  <1>3. UNCHANGED <<target, active, input, health, projects, listed, lost, generation, loadToken,
                    streamToken, view, sending, compacting, loading, handle, streams, request,
                    server, mounted>>
    BY DEF identity, tokens, shown, stream
  <1>4. task[t].pc = "idle" /\ task[t].back = <<>> /\ task \in [Tasks -> TaskRecords]
    BY AtRest, Facts DEF TasksFit
  <1>5. TasksFit' /\ task'[t] = new
    BY <1>0, <1>1, <1>2, <1>3, <1>4, Facts, TaskGoesOn
  <1>6. Linking'
    BY <1>0, <1>1, <1>5 DEF Linking, Links
  <1>7. ~Joins(task[t])
    BY <1>4, Unawaited
  <1>8. Joining => Joining'
    BY <1>1, <1>3, <1>4, <1>7, JoiningKept
  <1>9. FlagsFit'
    BY <1>3, <1>6, <1>8, Facts DEF FlagsFit, IsCurrentStream
  <1> QED
    BY <1>3, <1>5, <1>9, Facts, Stays

LEMMA ConnectToLocalServiceHolds ==
  ASSUME SelectionInv, NEW t \in Tasks, ConnectToLocalService(t)
  PROVE  SelectionInv'
  <1>1. PICK p \in Projects \cup {None} : Await(t, "projects", p, None, <<>>)
    BY DEF ConnectToLocalService
  <1>2. p \in Targets \cup {None} /\ None \in SessionsOrNone
    BY Facts
  <1> QED
    BY <1>1, <1>2, Begun DEF ConnectToLocalService

LEMMA ConnectDirectlyHolds ==
  ASSUME SelectionInv, NEW t \in Tasks, ConnectDirectly(t)
  PROVE  SelectionInv'
  <1>1. PICK preferred \in Known[Direct] \cup {None} : Await(t, "probe", Direct, preferred, <<>>)
    BY DEF ConnectDirectly
  <1>2. Direct \in Targets /\ preferred \in SessionsOrNone
    BY Facts, KnownAssumption DEF SessionsOrNone
  <1> QED
    BY <1>1, <1>2, Begun DEF ConnectDirectly

\* The user's selection of a session that is there,
LEMMA SelectedHolds ==
  ASSUME SelectionInv, NEW t \in Tasks, NEW sid \in Sessions, NEW back \in Seq(Frames), BackFits(back),
         SelectSession(t, sid, back), UNCHANGED <<target, generation, connecting, mounted, request, projects>>,
         health' \in Targets \cup {None}, listed' \subseteq Sessions, server' = server \/ ServerFits',
         target \in Targets, task[t].pc # "chat",
         Links(task[t]) => \E i \in DOMAIN back :
             back[i].fn = "linked" \/ (back[i].fn = "connected" /\ IsCurrentTarget(back[i]))
  PROVE  SelectionInv'
  <1>1. /\ TasksFit' /\ FlagsFit' /\ StreamFits' /\ MessagesFit'
        /\ active' = sid /\ input' = sid /\ loading' = TRUE /\ lost' = FALSE /\ error' = FALSE
        /\ sending' = FALSE /\ compacting' = FALSE /\ loadToken' = loadToken + 1
        /\ streamToken' = streamToken + 1
    BY Facts, Selected
  <1>2. active' \in SessionsOrNone /\ loadToken' \in Nat /\ streamToken' \in Nat
    BY <1>1, Facts
  <1>3. TypeOK'
    BY <1>1, <1>2, Facts, TypesBack
  <1>4. ServerFits'
    BY Facts DEF ServerFits
  <1> QED
    BY <1>1, <1>3, <1>4 DEF SelectionInv

\* by a task that nothing awaits.
LEMMA SelectedAnew ==
  ASSUME SelectionInv, NEW t \in Tasks, NEW sid \in Sessions,
         SelectSession(t, sid, <<>>), UNCHANGED <<target, generation, connecting, mounted, request, health,
                                              projects>>,
         listed' \subseteq Sessions, server' = server \/ ServerFits', target \in Targets,
         task[t].back = <<>>, task[t].pc \notin {"chat", "connect", "projects", "probe"}
  PROVE  SelectionInv'
  <1> DEFINE none == <<>>
  <1>1. none \in Seq(Frames) /\ BackFits(none) /\ SelectSession(t, sid, none)
    BY Empty
  <1> HIDE DEF none
  <1>2. ~Links(task[t])
    BY Unawaited
  <1> QED
    BY <1>1, <1>2, Facts, SelectedHolds

LEMMA ChooseSessionHolds ==
  ASSUME SelectionInv, NEW t \in Tasks, ChooseSession(t)
  PROVE  SelectionInv'
  <1>1. /\ Operation(t) /\ target # None
        /\ UNCHANGED <<target, health, listed, projects, generation, connecting, request,
                       server, mounted>>
    BY DEF ChooseSession
  <1>2. PICK sid \in listed : SelectSession(t, sid, <<>>)
    BY DEF ChooseSession
  <1>3. sid \in Sessions /\ target \in Targets /\ listed' \subseteq Sessions
    BY <1>1, Facts
  <1>4. task[t].pc = "idle" /\ task[t].back = <<>>
    BY <1>1, AtRest
  <1> QED
    BY <1>1, <1>2, <1>3, <1>4, SelectedAnew

\* The page connects to the target it has, for a task that goes on then.
LEMMA Reconnected ==
  ASSUME SelectionInv, NEW t \in Tasks, NEW f \in Frames, f.fn \in {"typed", "fresh", "ensure"},
         f.fn = "typed" => f.sid \in Sessions, Connect(t, target, None, 1, <<f>>), target \in Targets,
         task[t].pc # "chat", input' \in SessionsOrNone,
         UNCHANGED <<target, active, health, listed, projects, lost, loadToken, streamToken,
                     shown, loading,
                     stream, request, server, mounted>>
  PROVE  SelectionInv'
  <1> DEFINE back == <<f>>
  <1>1. back \in Seq(Frames) /\ BackFits(back) /\ Connect(t, target, None, 1, back)
    BY Single
  <1> HIDE DEF back
  <1>2. TasksFit' /\ FlagsFit' /\ generation' \in Nat /\ connecting' = TRUE /\ error' = FALSE
    BY <1>1, Facts, Connected
  <1>3. UNCHANGED <<view, sending, compacting, handle, streams>>
    BY DEF shown, stream
  <1>4. TypeOK'
    BY <1>2, <1>3, Facts, TypesBack
  <1>5. StreamFits' /\ MessagesFit'
    BY <1>3, Facts, StreamStays
  <1>6. ServerFits'
    BY Facts DEF ServerFits
  <1> QED
    BY <1>2, <1>4, <1>5, <1>6 DEF SelectionInv

LEMMA FrameIs ==
  ASSUME NEW fn \in {"selected", "connected", "linked", "typed", "fresh", "ensure", "send", "compacted"},
         NEW tgt \in Targets \cup {None}, NEW sid \in SessionsOrNone, NEW gen \in Nat
  PROVE  /\ Frame(fn, tgt, sid, gen) \in Frames /\ Frame(fn, tgt, sid, gen).fn = fn
         /\ Frame(fn, tgt, sid, gen).sid = sid /\ Frame(fn, tgt, sid, gen).tgt = tgt
         /\ Frame(fn, tgt, sid, gen).gen = gen
  BY DEF Frame, Frames

LEMMA OpenTypedSessionHolds ==
  ASSUME SelectionInv, NEW t \in Tasks, OpenTypedSession(t)
  PROVE  SelectionInv'
  <1>1. Operation(t) /\ target # None /\ UNCHANGED <<request, server, mounted>>
    BY DEF OpenTypedSession
  <1>2. PICK sid \in Known[target] :
          IF health = None
          THEN /\ input' = sid
               /\ Connect(t, target, None, 1, <<Frame("typed", None, sid, 0)>>)
               /\ UNCHANGED <<target, active, health, listed, projects, lost, loadToken, streamToken,
                              shown, loading, stream>>
          ELSE /\ SelectSession(t, sid, <<>>)
               /\ UNCHANGED <<target, health, listed, projects, generation, connecting>>
    BY DEF OpenTypedSession
  <1>3. target \in Targets /\ sid \in Sessions /\ sid \in SessionsOrNone
    BY <1>1, Facts, KnownAssumption
  <1>4. task[t].pc = "idle" /\ task[t].back = <<>>
    BY <1>1, AtRest
  <1>5. CASE health = None
    <2> DEFINE f == Frame("typed", None, sid, 0)
    <2>1. f \in Frames /\ f.fn = "typed" /\ f.sid = sid /\ Connect(t, target, None, 1, <<f>>)
      BY <1>2, <1>3, <1>5, FrameIs
    <2> HIDE DEF f
    <2> QED
      BY <1>1, <1>2, <1>3, <1>4, <1>5, <2>1, Reconnected
  <1>6. CASE health # None
    <2>1. listed' \subseteq Sessions /\ SelectSession(t, sid, <<>>)
          /\ UNCHANGED <<target, health, projects, generation, connecting>>
      BY <1>2, <1>6, Facts
    <2> QED
      BY <1>1, <1>3, <1>4, <2>1, SelectedAnew
  <1> QED
    BY <1>5, <1>6

LEMMA CreateSessionHolds ==
  ASSUME SelectionInv, NEW t \in Tasks, CreateSession(t)
  PROVE  SelectionInv'
  <1>1. Operation(t) /\ target \in Targets /\ UNCHANGED <<request, server, mounted>>
    BY Facts DEF CreateSession
  <1>2. task[t].pc = "idle" /\ task[t].back = <<>>
    BY <1>1, AtRest
  <1>3. CASE /\ target \in Projects /\ Await(t, "create", target, None, <<>>)
             /\ UNCHANGED <<identity, tokens, shown, flags, stream>>
    <2>1. UNCHANGED <<target, active, input, health, projects, listed, lost, generation, loadToken,
                      streamToken, view, sending, compacting, connecting, loading, error, handle, streams,
                      request, server,
                      mounted>>
      BY <1>1, <1>3 DEF identity, tokens, shown, flags, stream
    <2>2. target # None /\ None \in SessionsOrNone
      BY <1>1, TargetsAssumption, Facts
    <2>3. TasksFit' /\ FlagsFit'
      BY <1>1, <1>2, <1>3, <2>1, <2>2, Unawaited, Awaited
    <2> QED
      BY <2>1, <2>3, Facts, Stays
  <1>4. CASE /\ health = None
             /\ Connect(t, target, None, 1, <<Frame("fresh", None, None, 0)>>)
             /\ UNCHANGED <<identity, loadToken, streamToken, shown, loading, stream>>
    <2> DEFINE f == Frame("fresh", None, None, 0)
    <2>1. f \in Frames /\ f.fn = "fresh"
      BY Facts DEF Frame, Frames
    <2>3. Connect(t, target, None, 1, <<f>>)
      BY <1>4
    <2> HIDE DEF f
    <2>2. /\ UNCHANGED <<target, active, health, listed, projects, lost, loadToken, streamToken,
                         shown, loading,
                         stream>>
          /\ input' \in SessionsOrNone
      BY <1>4, Facts DEF identity
    <2> QED
      BY <1>1, <1>2, <2>1, <2>2, <2>3, Reconnected
  <1>5. CASE /\ health # None
             /\ \E sid \in FreshIds : listed' = listed \cup {sid} /\ SelectSession(t, sid, <<>>)
             /\ UNCHANGED <<target, health, projects, generation, connecting>>
    <2>1. PICK sid \in FreshIds : listed' = listed \cup {sid} /\ SelectSession(t, sid, <<>>)
      BY <1>5
    <2>2. sid \in Sessions /\ listed' \subseteq Sessions
      BY <2>1, Facts DEF FreshIds
    <2> QED
      BY <1>1, <1>2, <1>5, <2>1, <2>2, SelectedAnew
  <1> QED
    BY <1>3, <1>4, <1>5 DEF CreateSession

\* submitResolvedPrompt
LEMMA SendHolds ==
  ASSUME SelectionInv, NEW t \in Tasks, NEW tgt \in Targets \cup {None}, NEW sid \in Sessions,
         Send(t, tgt, sid), task[t].pc # "chat", ~Links(task[t]), ~Joins(task[t]), target # None,
         UNCHANGED <<identity, tokens, view, compacting, connecting, loading, stream, server, mounted>>
  PROVE  SelectionInv'
  <1>1. UNCHANGED <<target, active, input, health, projects, listed, lost, generation, loadToken,
                    streamToken, view, compacting, connecting, loading, handle, streams, server, mounted>>
    BY DEF identity, tokens, stream
  <1>2. sid \in SessionsOrNone /\ error' = FALSE
    BY Facts DEF Send
  <1>3. CASE sending
    <2>1. Await(t, "call", tgt, sid, <<>>) /\ sending' = sending /\ request' = request
      BY <1>3 DEF Send
    <2>2. TasksFit' /\ FlagsFit'
      BY <1>1, <1>2, <2>1, Awaited
    <2> QED
      BY <1>1, <1>2, <2>1, <2>2, Facts, Stays
  <1>4. CASE ~sending
    <2>1. Await(t, "chat", tgt, sid, <<>>) /\ sending' = TRUE /\ request' = t
      BY <1>4 DEF Send
    <2>2. TasksFit' /\ FlagsFit'
      BY <1>1, <1>2, <2>1, Awaited, SMTT(20)
    <2> QED
      BY <1>1, <1>2, <2>1, <2>2, Facts, Stays
  <1> QED
    BY <1>3, <1>4

LEMMA SubmitToHolds ==
  ASSUME SelectionInv, NEW t \in Tasks, NEW tgt \in Targets \cup {None}, SubmitTo(t, tgt),
         target \in Targets, task[t].pc \in {"idle", "skill"}, task[t].back = <<>>,
         UNCHANGED <<server, mounted>>
  PROVE  SelectionInv'
  <1>1. ~Links(task[t]) /\ ~Joins(task[t]) /\ target # None
    BY Unawaited, TargetsAssumption
  <1>2. CASE /\ active # None /\ Send(t, tgt, active)
             /\ UNCHANGED <<identity, tokens, view, compacting, connecting, loading, stream>>
    <2>1. active \in Sessions
      BY <1>2, Facts DEF SessionsOrNone
    <2> QED
      BY <1>1, <1>2, <2>1, SendHolds
  <1>3. CASE /\ Connect(t, target, None, 1, <<Frame("ensure", tgt, None, 0)>>)
             /\ UNCHANGED <<identity, loadToken, streamToken, shown, loading, stream, request>>
    <2> DEFINE f == Frame("ensure", tgt, None, 0)
    <2>1. f \in Frames /\ f.fn = "ensure"
      BY Facts DEF Frame, Frames
    <2>3. Connect(t, target, None, 1, <<f>>)
      BY <1>3
    <2> HIDE DEF f
    <2>2. /\ UNCHANGED <<target, active, health, listed, projects, lost, loadToken, streamToken,
                         shown, loading,
                         stream, request>>
          /\ input' \in SessionsOrNone
      BY <1>3, Facts DEF identity
    <2> QED
      BY <2>1, <2>2, <2>3, Reconnected
  <1>4. CASE /\ \E sid \in FreshIds :
                   listed' = listed \cup {sid} /\ SelectSession(t, sid, <<Frame("send", tgt, sid, 0)>>)
             /\ UNCHANGED <<target, health, projects, generation, connecting, request>>
    <2>1. PICK sid \in FreshIds :
             listed' = listed \cup {sid} /\ SelectSession(t, sid, <<Frame("send", tgt, sid, 0)>>)
      BY <1>4
    <2>2. sid \in Sessions /\ sid \in SessionsOrNone /\ listed' \subseteq Sessions
      BY <2>1, Facts DEF FreshIds
    <2> DEFINE f == Frame("send", tgt, sid, 0)
               back == <<f>>
    <2>3. f \in Frames /\ f.fn = "send" /\ f.sid = sid
      BY <2>2 DEF Frame, Frames
    <2> HIDE DEF f
    <2>4. back \in Seq(Frames) /\ BackFits(back) /\ SelectSession(t, sid, back)
      BY <2>1, <2>2, <2>3, Single DEF f
    <2> HIDE DEF back
    <2> QED
      BY <1>1, <1>4, <2>1, <2>2, <2>4, Facts, SelectedHolds
  <1> QED
    BY <1>2, <1>3, <1>4 DEF SubmitTo

LEMMA SubmitHolds ==
  ASSUME SelectionInv, NEW t \in Tasks, Submit(t)
  PROVE  SelectionInv'
  <1>1. target \in Targets /\ Operation(t) /\ SubmitTo(t, target) /\ UNCHANGED <<server, mounted>>
    BY Facts DEF Submit
  <1>2. task[t].pc = "idle" /\ task[t].back = <<>>
    BY <1>1, AtRest
  <1> QED
    BY <1>1, <1>2, SubmitToHolds

\* A call that is only waited for.
LEMMA CallIs ==
  ASSUME NEW tgt \in Targets \cup {None}, NEW sid \in SessionsOrNone
  PROVE  /\ Call(tgt, sid) \in TaskRecords /\ Call(tgt, sid).pc = "call" /\ Call(tgt, sid).back = <<>>
         /\ TaskFits(Call(tgt, sid))
  <1>1. /\ Call(tgt, sid) \in TaskRecords /\ Call(tgt, sid).pc = "call" /\ Call(tgt, sid).back = <<>>
    BY IdleIs DEF Call, TaskRecords
  <1> QED
    BY <1>1, Empty DEF TaskFits

\* The turn is aborted: the request of the page ends as the call begins.
LEMMA AbortTurnHolds ==
  ASSUME SelectionInv, NEW t \in Tasks, AbortTurn(t)
  PROVE  SelectionInv'
  <1> DEFINE own == request # None /\ (request # None => task[request].sid = active)
             Ends(u) == own /\ u = request
             call == Call(target, active)
  <1>1. /\ Operation(t) /\ target # None /\ active # None /\ error' = FALSE
        /\ task' = [u \in Tasks |-> IF u = t THEN call ELSE IF Ends(u) THEN Idle ELSE task[u]]
        /\ request' = IF own THEN None ELSE request
        /\ UNCHANGED <<target, active, input, health, projects, listed, lost, generation, loadToken,
                       streamToken, view, sending, compacting, connecting, loading, handle,
                       streams, server,
                       mounted>>
    BY DEF AbortTurn, identity, tokens, shown, stream
  <1>2. call \in TaskRecords /\ call.pc = "call" /\ call.back = <<>> /\ TaskFits(call)
    BY Facts, CallIs
  <1>3. task[t].pc = "idle" /\ task[t].back = <<>>
    BY <1>1, AtRest
  <1>4. Idle \in TaskRecords /\ Idle.pc = "idle" /\ Idle.back = <<>> /\ TaskFits(Idle)
    BY IdleIs, Empty DEF TaskFits
  <1>5. ASSUME NEW u \in Tasks, u = t \/ Ends(u) PROVE ~Links(task[u]) /\ ~Joins(task[u])
    <2>1. task[u].pc \in {"idle", "chat"}
      BY <1>3, <1>5, Facts DEF TasksFit
    <2>2. task[u].back = <<>>
      BY <2>1, TaskFacts
    <2> QED
      BY <2>1, <2>2, Unawaited
  <1>6. request # None => request # t /\ task[request].pc = "chat" /\ request \in Tasks
    BY <1>3, Facts DEF TasksFit
  <1> HIDE DEF call, own
  <1>7. ASSUME NEW u \in Tasks
        PROVE  task'[u] = IF u = t THEN call ELSE IF Ends(u) THEN Idle ELSE task[u]
    BY <1>1
  <1>8. task' \in [Tasks -> TaskRecords]
    BY <1>1, <1>2, <1>4, Facts DEF TasksFit
  <1>9. ASSUME NEW u \in Tasks PROVE TaskFits(task[u])'
    <2>1. TaskFits(task'[u])
      BY <1>2, <1>4, <1>7, TaskFacts
    <2> QED
      BY <2>1 DEF TaskFits, BackFits
  <1>10. request' # None => task'[request'].pc = "chat"
    <2> SUFFICES ASSUME request' # None PROVE task'[request'].pc = "chat"
      OBVIOUS
    <2>1. ~own /\ request' = request
      BY <1>1
    <2> QED
      BY <2>1, <1>6, <1>7
  <1>11. TasksFit'
    BY <1>1, <1>8, <1>9, <1>10 DEF TasksFit
  <1>12. ASSUME NEW u \in Tasks
         PROVE  (Links(task[u]) => Links(task[u])') /\ (Joins(task[u]) => Joins(task[u])')
    <2>1. CASE u = t \/ Ends(u)
      BY <2>1, <1>5
    <2>2. CASE u # t /\ ~Ends(u)
      <3>1. task'[u] = task[u]
        BY <2>2, <1>7
      <3> QED
        BY <3>1, <1>1 DEF Links, Joins, IsCurrentTarget, IsCurrentSelection
    <2> QED
      BY <2>1, <2>2
  <1>13. (Linking => Linking') /\ (Joining => Joining')
    BY <1>12 DEF Linking, Joining
  <1>14. FlagsFit'
    BY <1>1, <1>13, Facts DEF FlagsFit, IsCurrentStream
  <1>15. request' \in Tasks \cup {None}
    BY <1>1, Facts
  <1> QED
    BY <1>1, <1>11, <1>14, <1>15, Facts, Stays

LEMMA DeleteSteeringHolds ==
  ASSUME SelectionInv, NEW t \in Tasks, DeleteSteering(t)
  PROVE  SelectionInv'
  <1> DEFINE call == Call(target, active)
  <1>1. /\ Operation(t) /\ target # None /\ error' = FALSE /\ task' = [task EXCEPT ![t] = call]
        /\ UNCHANGED <<target, active, input, health, projects, listed, lost, generation, loadToken,
                       streamToken, view, sending, compacting, connecting, loading, handle, streams, request,
                       server, mounted>>
    BY DEF DeleteSteering, identity, tokens, shown, stream
  <1>2. call \in TaskRecords /\ call.pc = "call" /\ call.back = <<>> /\ TaskFits(call)
    BY Facts, CallIs
  <1> HIDE DEF call
  <1>3. task[t].pc = "idle" /\ task[t].back = <<>>
    BY <1>1, AtRest
  <1>4. TasksFit' /\ FlagsFit'
    BY <1>1, <1>2, <1>3, Facts, Unawaited, Goes
  <1> QED
    BY <1>1, <1>4, Facts, Stays

LEMMA RunCommandHolds ==
  ASSUME SelectionInv, NEW t \in Tasks, RunCommand(t)
  PROVE  SelectionInv'
  <1>1. /\ Operation(t) /\ target # None /\ active # None
        /\ UNCHANGED <<target, active, input, health, projects, listed, lost, generation, loadToken,
                       streamToken, view, sending, connecting, loading, error, handle, streams, request,
                       server, mounted>>
    BY DEF RunCommand, identity, tokens, flags, stream
  <1>2. task[t].pc = "idle" /\ task[t].back = <<>> /\ ~Links(task[t]) /\ ~Joins(task[t])
    BY <1>1, AtRest, Unawaited
  <1>3. CASE /\ \E pc \in {"status", "clear", "skill"} : Await(t, pc, target, active, <<>>)
             /\ UNCHANGED compacting
    <2>1. PICK pc \in {"status", "clear", "skill"} : Await(t, pc, target, active, <<>>)
      BY <1>3
    <2>2. TasksFit' /\ FlagsFit'
      BY <1>1, <1>2, <2>1, Facts, Awaited
    <2> QED
      BY <1>1, <1>3, <2>2, Facts, Stays
  <1>4. CASE /\ Await(t, "clear", target, active, <<Frame("compacted", None, None, 0)>>)
             /\ compacting' = TRUE
    <2> DEFINE f == Frame("compacted", None, None, 0)
               back == <<f>>
               new == [Idle EXCEPT !.pc = "clear", !.tgt = target, !.sid = active, !.back = back]
    <2>1. f \in Frames /\ f.fn = "compacted"
      BY Facts DEF Frame, Frames
    <2>2. task' = [task EXCEPT ![t] = new]
      BY <1>4 DEF Await
    <2> HIDE DEF f
    <2>3. back \in Seq(Frames) /\ BackFits(back)
      BY <2>1, Single
    <2> HIDE DEF back
    <2>4. new \in TaskRecords /\ new.pc = "clear" /\ new.back = back
      BY <2>3, IdleIs, Facts DEF TaskRecords
    <2> HIDE DEF new
    <2>5. TaskFits(new)
      BY <2>3, <2>4 DEF TaskFits
    <2>6. TasksFit' /\ FlagsFit'
      BY <1>1, <1>2, <2>2, <2>4, <2>5, Facts, Goes
    <2> QED
      BY <1>1, <1>4, <2>6, Facts, Stays
  <1> QED
    BY <1>3, <1>4 DEF RunCommand

LEMMA ListSessionsHolds ==
  ASSUME SelectionInv, NEW t \in Tasks, ListSessions(t)
  PROVE  SelectionInv'
  <1> DEFINE new == [Idle EXCEPT !.pc = "list", !.tgt = target, !.gen = generation]
  <1>1. /\ Operation(t) /\ target # None /\ task' = [task EXCEPT ![t] = new]
        /\ UNCHANGED <<target, active, input, health, projects, listed, lost, generation, loadToken,
                       streamToken, view, sending, compacting, connecting, loading, error, handle, streams,
                       request, server, mounted>>
    BY DEF ListSessions, identity, tokens, shown, flags, stream
  <1>2. new \in TaskRecords /\ new.pc = "list" /\ new.tgt = target /\ new.back = <<>>
    BY IdleIs, Facts DEF TaskRecords
  <1> HIDE DEF new
  <1>3. TaskFits(new)
    BY <1>1, <1>2, Empty, Facts DEF TaskFits
  <1>4. task[t].pc = "idle" /\ task[t].back = <<>>
    BY <1>1, AtRest
  <1>5. TasksFit' /\ FlagsFit'
    BY <1>1, <1>2, <1>3, <1>4, Facts, Unawaited, Goes
  <1> QED
    BY <1>1, <1>5, Facts, Stays

LEMMA UnmountHolds ==
  ASSUME SelectionInv, Unmount
  PROVE  SelectionInv'
  <1>1. /\ mounted' = FALSE /\ generation' = generation + 1 /\ loadToken' = loadToken + 1
        /\ handle' = None /\ streams' = streams \ {handle} /\ request' = None
        /\ task' = IF request = None THEN task ELSE [task EXCEPT ![request] = Idle]
        /\ UNCHANGED <<target, active, input, health, projects, listed, lost, streamToken, view, sending,
                       compacting, connecting, loading, error, server>>
    BY DEF Unmount, StopEvents, identity, shown, flags
  <1>2. generation' \in Nat /\ loadToken' \in Nat
    BY <1>1, Facts
  <1>3. TypeOK'
    BY <1>1, <1>2, Facts, TypesBack
  <1>4. TasksFit'
    <2>1. CASE request = None
      <3>1. task' = task
        BY <1>1, <2>1
      <3> QED
        BY <1>1, <3>1, Facts DEF TasksFit, TaskFits, BackFits
    <2>2. CASE request # None
      <3>1. TaskFits(Idle)
        BY IdleIs, Empty DEF TaskFits
      <3> QED
        BY <1>1, <2>2, <3>1, IdleIs, Facts, TaskGoesOn
    <2> QED
      BY <2>1, <2>2
  <1>5. OneStreamOpen'
    BY <1>1, Facts DEF StreamFits, OneStreamOpen
  <1>6. StreamFits'
    BY <1>1, <1>5 DEF StreamFits, IsCurrentStream
  <1>7. MessagesFit' /\ ServerFits'
    BY <1>1, Facts DEF MessagesFit, ServerFits
  <1>8. FlagsFit'
    BY <1>1 DEF FlagsFit
  <1> QED
    BY <1>3, <1>4, <1>6, <1>7, <1>8 DEF SelectionInv

\* The end of connectToServer when no session is selected.
LEMMA ConnectEndsHolds ==
  ASSUME SelectionInv, NEW t \in Tasks, task[t].pc = "connect", ConnectEnds(t),
         active' = None \/ lost' = TRUE, health' \in Targets \cup {None}, listed' \subseteq Sessions,
         error' \in BOOLEAN, UNCHANGED <<request, server, mounted>>
  PROVE  SelectionInv'
  <1>1. /\ ResetView /\ active' = (IF active \in listed' THEN active ELSE None) /\ connecting' = FALSE
        /\ Resume(t) /\ UNCHANGED <<target, input, projects, generation, loadToken, loading>>
    BY DEF ConnectEnds
  <1>2. /\ streamToken' \in Nat /\ sending' = FALSE /\ compacting' = FALSE
        /\ active' \in SessionsOrNone
    BY <1>1, Facts DEF ResetView
  <1>3. TypeOK'
    BY <1>1, <1>2, Facts, TypesBack
  <1>4. PICK new \in TaskRecords :
           task' = [task EXCEPT ![t] = new] /\ new.pc = "return" /\ new.back = task[t].back
    BY <1>1, Facts, ResumeIs
  <1>5. TaskFits(new) /\ target \in Targets
    BY <1>4, TaskFacts DEF TaskFits
  <1>6. TasksFit'
    BY <1>1, <1>4, <1>5, TargetsAssumption, Facts, TaskGoesOn
  <1>7. FlagsFit'
    BY <1>1 DEF FlagsFit
  <1>8. StreamFits' /\ MessagesFit'
    BY <1>1, Facts, ResetFits
  <1>9. ServerFits'
    BY Facts DEF ServerFits
  <1> QED
    BY <1>3, <1>6, <1>7, <1>8, <1>9 DEF SelectionInv

LEMMA PreferredIs ==
  ASSUME SelectionInv, NEW t \in Tasks, task[t].pc = "connect", NEW sid \in Preferred(task[t])
  PROVE  /\ sid \in SessionsOrNone /\ server[task[t].tgt] \subseteq Sessions /\ task[t].tgt \in Targets
         /\ sid = None => active = None \/ server[task[t].tgt] = {}
  <1>1. task[t].tgt \in Targets /\ server[task[t].tgt] \subseteq Sessions
    BY Facts DEF TasksFit, TaskFits, ServerFits
  <1>2. task[t].sid \in SessionsOrNone /\ active \in SessionsOrNone /\ input \in SessionsOrNone
    BY Facts, TaskFacts
  <1>3. CASE task[t].back # <<>> /\ Head(task[t].back).fn \in {"typed", "fresh", "ensure"}
    <2>1. sid = IF active # None THEN active ELSE input
      BY <1>3 DEF Preferred
    <2> QED
      BY <1>1, <1>2, <2>1
  <1>4. CASE ~(task[t].back # <<>> /\ Head(task[t].back).fn \in {"typed", "fresh", "ensure"})
    <2>1. sid \in (IF task[t].sid # None THEN {task[t].sid}
                   ELSE IF server[task[t].tgt] = {} THEN {None} ELSE server[task[t].tgt])
      BY <1>4 DEF Preferred
    <2>2. None \notin Sessions
      BY TargetsAssumption
    <2> QED
      BY <1>1, <1>2, <2>1, <2>2 DEF SessionsOrNone
  <1> QED
    BY <1>3, <1>4

LEMMA AnswerConnectHolds ==
  ASSUME SelectionInv, NEW t \in Tasks, AnswerConnect(t)
  PROVE  SelectionInv'
  <1> DEFINE k == task[t]
  <1>1. k.pc = "connect" /\ UNCHANGED <<request, server, mounted>>
    BY DEF AnswerConnect, Waiting
  <1>2. CASE ~IsCurrentTarget(k) /\ Resume(t) /\ UNCHANGED <<identity, tokens, shown, flags, stream>>
    <2>1. UNCHANGED <<target, active, input, health, projects, listed, lost, generation, loadToken,
                      streamToken, view, sending, compacting, connecting, loading, error, handle, streams,
                      request, server, mounted>>
      BY <1>1, <1>2 DEF identity, tokens, shown, flags, stream
    <2>2. PICK new \in TaskRecords :
             task' = [task EXCEPT ![t] = new] /\ new.pc = "return" /\ new.back = task[t].back
      BY <1>2, Facts, ResumeIs
    <2>3. TasksFit' /\ FlagsFit'
      BY <1>1, <1>2, <2>1, <2>2, Facts, BackStays
    <2> QED
      BY <2>1, <2>3, Facts, Stays
  <1>3. CASE /\ IsCurrentTarget(k) /\ health' = k.tgt /\ listed' = server[k.tgt]
             /\ \E sid \in Preferred(k) :
                \/ /\ sid = None /\ ConnectEnds(t) /\ UNCHANGED <<error, lost>>
                \/ /\ sid # None
                   /\ SelectSession(t, sid, <<Frame("connected", k.tgt, None, k.gen)>> \o k.back)
                   /\ UNCHANGED <<target, projects, generation, connecting>>
    <2>1. PICK sid \in Preferred(k) :
                \/ /\ sid = None /\ ConnectEnds(t) /\ UNCHANGED <<error, lost>>
                \/ /\ sid # None
                   /\ SelectSession(t, sid, <<Frame("connected", k.tgt, None, k.gen)>> \o k.back)
                   /\ UNCHANGED <<target, projects, generation, connecting>>
      BY <1>3
    <2>2. /\ sid \in SessionsOrNone /\ listed' \subseteq Sessions /\ health' \in Targets
          /\ sid = None => active = None \/ listed' = {}
      BY <1>1, <1>3, PreferredIs
    <2>3. CASE sid = None
      <3>1. ConnectEnds(t) /\ UNCHANGED <<error, lost>>
        BY <2>1, <2>3
      <3>2. active' = None
        BY <2>2, <2>3, <3>1 DEF ConnectEnds
      <3>3. error' \in BOOLEAN
        BY <3>1, Facts
      <3> QED
        BY <1>1, <2>2, <3>1, <3>2, <3>3, ConnectEndsHolds
    <2>4. CASE sid # None
      <3> DEFINE f == Frame("connected", k.tgt, None, k.gen)
                 back == <<f>> \o k.back
      <3>1. /\ SelectSession(t, sid, back) /\ sid \in Sessions
            /\ UNCHANGED <<target, projects, generation, connecting>>
        BY <2>1, <2>2, <2>4 DEF SessionsOrNone
      <3>2. /\ f \in Frames /\ f.fn = "connected" /\ f.tgt = k.tgt /\ f.gen = k.gen
        BY TaskFacts, Facts DEF Frame, Frames
      <3> HIDE DEF f
      <3>3. k.back \in Seq(Frames) /\ BackFits(k.back) /\ target \in Targets
        BY <1>1, TaskFacts
      <3>4. back \in Seq(Frames) /\ BackFits(back) /\ 1 \in DOMAIN back /\ back[1] = f
        BY <3>2, <3>3, Prepended, PrependedFits
      <3>5. IsCurrentTarget(back[1])
        BY <1>3, <3>2, <3>4 DEF IsCurrentTarget
      <3> HIDE DEF back
      <3>6. \E i \in DOMAIN back :
                back[i].fn = "linked" \/ (back[i].fn = "connected" /\ IsCurrentTarget(back[i]))
        BY <3>2, <3>4, <3>5
      <3> QED
        BY <1>1, <2>2, <3>1, <3>3, <3>4, <3>6, SelectedHolds
    <2> QED
      BY <2>3, <2>4
  <1>4. CASE error' = TRUE /\ lost' = TRUE /\ UNCHANGED <<health, listed>> /\ ConnectEnds(t)
    BY <1>1, <1>4, Facts, ConnectEndsHolds
  <1> QED
    BY <1>2, <1>3, <1>4 DEF AnswerConnect

LEMMA AnswerLoadHolds ==
  ASSUME SelectionInv, NEW t \in Tasks, AnswerLoad(t)
  PROVE  SelectionInv'
  <1> DEFINE k == task[t]
  <1>1. /\ k.pc = "load"
        /\ UNCHANGED <<target, active, input, health, projects, listed, lost, generation, loadToken,
                       streamToken, compacting, connecting, loading, handle, streams, request,
                       server, mounted>>
    BY DEF AnswerLoad, Waiting, identity, tokens, stream
  <1>2. CASE Resume(t) /\ UNCHANGED <<view, sending>> /\ error' \in {error, TRUE}
    <2>1. PICK new \in TaskRecords :
             task' = [task EXCEPT ![t] = new] /\ new.pc = "return" /\ new.back = task[t].back
      BY <1>2, Facts, ResumeIs
    <2>2. TasksFit' /\ FlagsFit'
      BY <1>1, <2>1, Facts, BackStays
    <2> QED
      BY <1>1, <1>2, <2>2, Facts, Stays
  <1>3. CASE /\ IsCurrentSessionLoad(k)
             /\ view' = [messages |-> Owner(k.tgt, k.sid), status |-> Owner(k.tgt, k.sid)]
             /\ sending' \in BOOLEAN /\ task' = [task EXCEPT ![t].pc = "scroll"] /\ UNCHANGED error
    <2> DEFINE new == [k EXCEPT !.pc = "scroll"]
    <2>1. new \in TaskRecords /\ new.pc = "scroll" /\ new.back = k.back
      BY TaskFacts DEF TaskRecords
    <2>2. task' = [task EXCEPT ![t] = new]
      BY <1>3, Facts DEF TasksFit
    <2> HIDE DEF new
    <2>3. TasksFit' /\ FlagsFit'
      BY <1>1, <2>1, <2>2, Facts, BackStays
    <2>4. view' \in Views /\ view'.messages = Owner(target, active)
      BY <1>3, Facts, TaskFacts
         DEF IsCurrentSessionLoad, IsCurrentSelection, IsCurrentTarget, Views, Owner
    <2>5. MessagesFit'
      BY <1>1, <2>4 DEF MessagesFit, Owner
    <2> QED
      BY <1>1, <1>3, <2>3, <2>5, Facts, Stays
  <1> QED
    BY <1>2, <1>3 DEF AnswerLoad

LEMMA FrameDrawnHolds ==
  ASSUME SelectionInv, NEW t \in Tasks, FrameDrawn(t)
  PROVE  SelectionInv'
  <1>1. /\ task[t].pc = "scroll" /\ Resume(t)
        /\ UNCHANGED <<target, active, input, health, projects, listed, lost, generation, loadToken,
                       streamToken, view, sending, compacting, connecting, loading, error, handle, streams,
                       request, server, mounted>>
    BY DEF FrameDrawn, Waiting, identity, tokens, shown, flags, stream
  <1>2. PICK new \in TaskRecords :
           task' = [task EXCEPT ![t] = new] /\ new.pc = "return" /\ new.back = task[t].back
    BY <1>1, Facts, ResumeIs
  <1>3. TasksFit' /\ FlagsFit'
    BY <1>1, <1>2, Facts, BackStays
  <1> QED
    BY <1>1, <1>3, Facts, Stays

\* A task that nothing awaits ends with an answer that changes no more than the error.
LEMMA EndedHolds ==
  ASSUME SelectionInv, NEW t \in Tasks, task' = [task EXCEPT ![t] = Idle],
         task[t].pc # "chat", ~Links(task[t]), ~Joins(task[t]), error' \in BOOLEAN,
         UNCHANGED <<identity, tokens, shown, connecting, loading, stream, request, server, mounted>>
  PROVE  SelectionInv'
  <1>1. UNCHANGED <<target, active, input, health, projects, listed, lost, generation, loadToken,
                    streamToken, view, sending, compacting, connecting, loading, handle, streams, request,
                    server, mounted>>
    BY DEF identity, tokens, shown, stream
  <1>2. TasksFit' /\ FlagsFit'
    <2>1. /\ UNCHANGED <<target, generation, active, lost, health, handle, streamToken, mounted>>
          /\ (connecting' => connecting) /\ (loading' => loading)
          /\ request' = request /\ (task[t].pc # "chat" \/ request # t)
      BY <1>1
    <2> QED
      BY <2>1, Ended
  <1> QED
    BY <1>1, <1>2, Facts, Stays

\* The page could not connect.
LEMMA LinkFails ==
  ASSUME SelectionInv, NEW t \in Tasks, task[t].pc \in {"projects", "probe"},
         task' = [task EXCEPT ![t] = Idle], error' = TRUE, connecting' = FALSE,
         UNCHANGED <<identity, tokens, shown, loading, stream, request, server, mounted>>
  PROVE  SelectionInv'
  <1>1. UNCHANGED <<target, active, input, health, projects, listed, lost, generation, loadToken,
                    streamToken, view, sending, compacting, loading, handle, streams, request,
                    server, mounted>>
    BY DEF identity, tokens, shown, stream
  <1>2. task[t].back = <<>> /\ task \in [Tasks -> TaskRecords]
    BY TaskFacts, Facts DEF TasksFit
  <1>3. ~Joins(task[t])
    <2>1. DOMAIN task[t].back = {}
      BY <1>2, Empty
    <2> QED
      BY <2>1 DEF Joins
  <1>4. TaskFits(Idle)
    BY IdleIs, Empty DEF TaskFits
  <1>5. TasksFit'
    BY <1>1, <1>4, IdleIs, Facts, TaskGoesOn
  <1>6. Joining => Joining'
    BY <1>1, <1>2, <1>3, JoiningKept
  <1>7. FlagsFit'
    BY <1>1, <1>6, Facts DEF FlagsFit, IsCurrentStream
  <1> QED
    BY <1>1, <1>5, <1>7, Facts, Stays

LEMMA AnswerProjectsHolds ==
  ASSUME SelectionInv, NEW t \in Tasks, AnswerProjects(t)
  PROVE  SelectionInv'
  <1> DEFINE f == Frame("linked", None, None, 0)
             back == <<f>>
  <1>1. task[t].pc = "projects" /\ UNCHANGED <<request, server, mounted>>
    BY DEF AnswerProjects, Waiting
  <1>2. f \in Frames /\ f.fn = "linked"
    BY Facts DEF Frame, Frames
  <1>3. CASE \E offered \in {{}, Projects} :
             /\ projects' = offered
             /\ \/ \E p \in offered : \E preferred \in Known[p] \cup {None} :
                      SelectProject(t, p, preferred, back)
                \/ /\ target' = Direct /\ active' = None /\ input' = None
                   /\ ResetView
                   /\ generation' = generation + 1 /\ loadToken' = loadToken + 1
                   /\ health' = None /\ listed' = {}
                   /\ connecting' = FALSE
                   /\ task' = [task EXCEPT ![t] = Idle]
                   /\ UNCHANGED <<loading, error, lost>>
    <2>1. PICK offered \in {{}, Projects} :
             /\ projects' = offered
             /\ \/ \E p \in offered : \E preferred \in Known[p] \cup {None} :
                      SelectProject(t, p, preferred, back)
                \/ /\ target' = Direct /\ active' = None /\ input' = None
                   /\ ResetView
                   /\ generation' = generation + 1 /\ loadToken' = loadToken + 1
                   /\ health' = None /\ listed' = {}
                   /\ connecting' = FALSE
                   /\ task' = [task EXCEPT ![t] = Idle]
                   /\ UNCHANGED <<loading, error, lost>>
      BY <1>3
    <2>2. offered \subseteq Projects
      OBVIOUS
    <2>3. CASE \E p \in offered : \E preferred \in Known[p] \cup {None} :
                  SelectProject(t, p, preferred, back)
      <3>1. PICK p \in offered : \E preferred \in Known[p] \cup {None} : SelectProject(t, p, preferred, back)
        BY <2>3
      <3>2. PICK preferred \in Known[p] \cup {None} : SelectProject(t, p, preferred, back)
        BY <3>1
      <3> HIDE DEF f
      <3>3. back \in Seq(Frames) /\ BackFits(back)
        BY <1>2, Single
      <3>4. p \in Projects /\ p \in Targets
        BY <2>2, Facts
      <3>5. preferred \in SessionsOrNone
        BY <3>4, KnownAssumption DEF SessionsOrNone
      <3> HIDE DEF back
      <3> QED
        BY <1>1, <2>1, <2>2, <3>2, <3>3, <3>4, <3>5, ProjectSelected
    <2>4. CASE /\ target' = Direct /\ active' = None /\ input' = None
               /\ ResetView
               /\ generation' = generation + 1 /\ loadToken' = loadToken + 1
               /\ health' = None /\ listed' = {}
               /\ connecting' = FALSE
               /\ task' = [task EXCEPT ![t] = Idle]
               /\ UNCHANGED <<loading, error, lost>>
      <3>1. /\ generation' \in Nat /\ loadToken' \in Nat /\ streamToken' \in Nat
            /\ sending' = FALSE /\ compacting' = FALSE /\ target' \in Targets /\ target' # None
        BY <2>4, Facts, TargetsAssumption DEF ResetView
      <3>2. projects' \subseteq Projects
        BY <2>1, <2>2
      <3>3. TypeOK'
        BY <1>1, <2>4, <3>1, <3>2, Facts, TypesBack
      <3>4. TaskFits(Idle)
        BY IdleIs, Empty DEF TaskFits
      <3>5. TasksFit'
        BY <1>1, <2>4, <3>1, <3>4, IdleIs, Facts, TaskGoesOn
      <3>6. FlagsFit'
        BY <2>4 DEF FlagsFit
      <3>7. StreamFits' /\ MessagesFit'
        BY <2>4, Facts, ResetFits
      <3>8. ServerFits'
        BY <1>1, Facts DEF ServerFits
      <3> QED
        BY <3>3, <3>5, <3>6, <3>7, <3>8 DEF SelectionInv
    <2> QED
      BY <2>1, <2>3, <2>4
  <1>4. CASE /\ error' = TRUE /\ connecting' = FALSE /\ task' = [task EXCEPT ![t] = Idle]
             /\ UNCHANGED <<identity, tokens, shown, loading, stream>>
    BY <1>1, <1>4, LinkFails
  <1> QED
    BY <1>3, <1>4 DEF AnswerProjects

LEMMA AnswerProbeHolds ==
  ASSUME SelectionInv, NEW t \in Tasks, AnswerProbe(t)
  PROVE  SelectionInv'
  <1> DEFINE f == Frame("linked", None, None, 0)
             back == <<f>>
  <1>1. task[t].pc = "probe" /\ UNCHANGED <<request, server, mounted>>
    BY DEF AnswerProbe, Waiting
  <1>2. f \in Frames /\ f.fn = "linked"
    BY Facts DEF Frame, Frames
  <1>3. CASE /\ target' = Direct /\ projects' = {} /\ active' = None /\ input' = None
             /\ Connect(t, Direct, task[t].sid, 1, back)
             /\ UNCHANGED <<health, listed, lost, loadToken, streamToken, shown, loading, stream>>
    <2> HIDE DEF f
    <2>1. back \in Seq(Frames) /\ BackFits(back)
      BY <1>2, Single
    <2> HIDE DEF back
    <2>2. task[t].sid \in SessionsOrNone
      BY TaskFacts
    <2>3. TasksFit' /\ FlagsFit' /\ generation' \in Nat /\ connecting' = TRUE /\ error' = FALSE
      BY <1>1, <1>3, <2>1, <2>2, Facts, Connected
    <2>4. UNCHANGED <<view, sending, compacting, handle, streams>>
      BY <1>3 DEF shown, stream
    <2>5. TypeOK'
      BY <1>1, <1>3, <2>3, <2>4, Facts, TypesBack
    <2>6. StreamFits' /\ MessagesFit'
      BY <1>3, <2>4, Facts, StreamStays
    <2>7. ServerFits'
      BY <1>1, Facts DEF ServerFits
    <2> QED
      BY <2>3, <2>5, <2>6, <2>7 DEF SelectionInv
  <1>4. CASE /\ error' = TRUE /\ connecting' = FALSE /\ task' = [task EXCEPT ![t] = Idle]
             /\ UNCHANGED <<identity, tokens, shown, loading, stream>>
    BY <1>1, <1>4, LinkFails
  <1> QED
    BY <1>3, <1>4 DEF AnswerProbe

LEMMA AnswerRegisterHolds ==
  ASSUME SelectionInv, NEW t \in Tasks, AnswerRegister(t)
  PROVE  SelectionInv'
  <1>1. task[t].pc = "register" /\ UNCHANGED <<request, server, mounted>>
    BY DEF AnswerRegister, Waiting
  <1>2. task[t].tgt \in Projects /\ task[t].back = <<>>
    BY <1>1, Facts, TaskFacts DEF TaskFits
  <1>3. CASE projects' = projects \cup {task[t].tgt} /\ SelectProject(t, task[t].tgt, None, <<>>)
    <2>1. projects' \subseteq Projects
      BY <1>2, <1>3, Facts
    <2> QED
      BY <1>1, <1>2, <1>3, <2>1, Facts, Empty, ProjectSelected
  <1>4. CASE /\ error' = TRUE /\ task' = [task EXCEPT ![t] = Idle]
             /\ UNCHANGED <<identity, tokens, shown, connecting, loading, stream>>
    <2>1. ~Links(task[t]) /\ ~Joins(task[t])
      BY <1>1, <1>2, Unawaited
    <2> QED
      BY <1>1, <1>4, <2>1, EndedHolds
  <1> QED
    BY <1>3, <1>4 DEF AnswerRegister

LEMMA AnswerCreateHolds ==
  ASSUME SelectionInv, NEW t \in Tasks, AnswerCreate(t)
  PROVE  SelectionInv'
  <1>1. task[t].pc = "create" /\ UNCHANGED <<request, mounted>>
    BY DEF AnswerCreate, Waiting
  <1>2. task[t].back = <<>> /\ target \in Targets
    BY <1>1, TaskFacts
  <1>3. CASE \E sid \in FreshIds :
             /\ server' = [server EXCEPT ![task[t].tgt] = @ \cup {sid}]
             /\ listed' = listed \cup {sid}
             /\ SelectSession(t, sid, <<>>)
             /\ UNCHANGED <<target, health, projects, generation, connecting>>
    <2>1. PICK sid \in FreshIds :
             /\ server' = [server EXCEPT ![task[t].tgt] = @ \cup {sid}]
             /\ listed' = listed \cup {sid}
             /\ SelectSession(t, sid, <<>>)
             /\ UNCHANGED <<target, health, projects, generation, connecting>>
      BY <1>3
    <2>2. sid \in Sessions /\ listed' \subseteq Sessions
      BY <2>1, Facts DEF FreshIds
    <2>3. ServerFits'
      BY <2>1, <2>2, Facts DEF ServerFits
    <2> QED
      BY <1>1, <1>2, <2>1, <2>2, <2>3, SelectedAnew
  <1>4. CASE /\ error' = TRUE /\ task' = [task EXCEPT ![t] = Idle]
             /\ UNCHANGED <<identity, tokens, shown, connecting, loading, stream, server>>
    <2>1. ~Links(task[t]) /\ ~Joins(task[t])
      BY <1>1, <1>2, Unawaited
    <2> QED
      BY <1>1, <1>4, <2>1, EndedHolds
  <1> QED
    BY <1>3, <1>4 DEF AnswerCreate

LEMMA AnswerChatHolds ==
  ASSUME SelectionInv, NEW t \in Tasks, AnswerChat(t)
  PROVE  SelectionInv'
  <1>1. /\ task[t].pc = "chat" /\ task' = [task EXCEPT ![t] = Idle]
        /\ request' = (IF request = t THEN None ELSE request)
        /\ UNCHANGED <<target, active, input, health, projects, listed, lost, generation, loadToken,
                       streamToken, view, compacting, connecting, loading, handle, streams, mounted>>
    BY DEF AnswerChat, Waiting, identity, tokens, stream
  <1>2. /\ sending' = (sending /\ active # task[t].sid)
        /\ error' \in {error, error \/ active = task[t].sid}
        /\ server' = [server EXCEPT ![task[t].tgt] = @ \cup {task[t].sid}]
    BY DEF AnswerChat
  <1>3. sending' \in BOOLEAN /\ error' \in BOOLEAN
    BY <1>2, Facts
  <1>4. task[t].back = <<>> /\ task[t].sid \in Sessions
    BY <1>1, TaskFacts DEF TaskFits
  <1>5. ServerFits'
    BY <1>2, <1>4, Facts DEF ServerFits
  <1>6. ~Links(task[t]) /\ ~Joins(task[t])
    BY <1>1, <1>4, Unawaited
  <1>7. TasksFit' /\ FlagsFit'
    BY <1>1, <1>6, Ended
  <1>8. request' \in Tasks \cup {None}
    BY <1>1, Facts
  <1> QED
    BY <1>1, <1>3, <1>5, <1>7, <1>8, Facts, Stays

LEMMA AnswerCallHolds ==
  ASSUME SelectionInv, NEW t \in Tasks, AnswerCall(t)
  PROVE  SelectionInv'
  <1>1. /\ task[t].pc = "call" /\ task' = [task EXCEPT ![t] = Idle] /\ error' \in BOOLEAN
        /\ UNCHANGED <<identity, tokens, shown, connecting, loading, stream, request, server, mounted>>
    BY Facts DEF AnswerCall, Waiting
  <1>2. ~Links(task[t]) /\ ~Joins(task[t])
    BY <1>1, TaskFacts, Unawaited
  <1> QED
    BY <1>1, <1>2, EndedHolds

LEMMA AnswerStatusHolds ==
  ASSUME SelectionInv, NEW t \in Tasks, AnswerStatus(t)
  PROVE  SelectionInv'
  <1>1. /\ task[t].pc = "status" /\ task' = [task EXCEPT ![t] = Idle]
        /\ view' \in {view, [view EXCEPT !.status = Owner(task[t].tgt, task[t].sid)]}
        /\ UNCHANGED <<target, active, input, health, projects, listed, lost, generation, loadToken,
                       streamToken, sending, compacting, connecting, loading, error, handle, streams, request,
                       server, mounted>>
    BY DEF AnswerStatus, Waiting, identity, tokens, flags, stream
  <1>2. ~Links(task[t]) /\ ~Joins(task[t])
    BY <1>1, TaskFacts, Unawaited
  <1>3. TasksFit' /\ FlagsFit'
    BY <1>1, <1>2, Ended
  <1>4. Owner(task[t].tgt, task[t].sid) \in (Targets \cup {None}) \X SessionsOrNone
    BY TaskFacts DEF Owner
  <1>5. MessagesFit'
    BY <1>1, <1>4, Facts DEF MessagesFit, Views, Owner
  <1> QED
    BY <1>1, <1>3, <1>5, Facts, Stays

LEMMA AnswerClearHolds ==
  ASSUME SelectionInv, NEW t \in Tasks, AnswerClear(t)
  PROVE  SelectionInv'
  <1>1. /\ task[t].pc = "clear"
        /\ UNCHANGED <<target, active, input, health, projects, listed, lost, generation,
                       streamToken, view,
                       sending, compacting, connecting, loading, handle, streams, request,
                       server, mounted>>
    BY DEF AnswerClear, Waiting, identity, shown, stream
  <1>2. CASE active # None /\ Refresh(t, active, task[t].back)
    <2> DEFINE new == [pc |-> "load", tgt |-> target, sid |-> active, gen |-> generation,
                       load |-> loadToken + 1, back |-> task[t].back]
    <2>1. loadToken' = loadToken + 1 /\ error' = FALSE /\ task' = [task EXCEPT ![t] = new]
      BY <1>2 DEF Refresh
    <2>2. new \in TaskRecords /\ new.pc = "load" /\ new.back = task[t].back
      BY TaskFacts, Facts DEF TaskRecords
    <2> HIDE DEF new
    <2>3. TasksFit' /\ FlagsFit'
      BY <1>1, <2>1, <2>2, Facts, BackStays
    <2>4. loadToken' \in Nat
      BY <2>1, Facts
    <2>5. error' \in BOOLEAN
      BY <2>1
    <2> QED
      BY <1>1, <2>3, <2>4, <2>5, Facts, Stays
  <1>3. CASE Resume(t) /\ UNCHANGED <<loadToken, error>>
    <2>1. PICK new \in TaskRecords :
             task' = [task EXCEPT ![t] = new] /\ new.pc = "return" /\ new.back = task[t].back
      BY <1>3, Facts, ResumeIs
    <2>2. TasksFit' /\ FlagsFit'
      BY <1>1, <2>1, Facts, BackStays
    <2> QED
      BY <1>1, <1>3, <2>2, Facts, Stays
  <1> QED
    BY <1>2, <1>3 DEF AnswerClear

LEMMA AnswerSkillHolds ==
  ASSUME SelectionInv, NEW t \in Tasks, AnswerSkill(t)
  PROVE  SelectionInv'
  <1>1. /\ task[t].pc = "skill" /\ UNCHANGED <<server, mounted>>
    BY DEF AnswerSkill, Waiting
  <1>2. task[t].back = <<>> /\ target \in Targets /\ task[t].tgt \in Targets \cup {None}
    BY <1>1, TaskFacts
  <1>3. CASE SubmitTo(t, task[t].tgt)
    BY <1>1, <1>2, <1>3, SubmitToHolds
  <1>4. CASE task' = [task EXCEPT ![t] = Idle] /\ UNCHANGED <<identity, tokens, shown, flags, stream, request>>
    <2>1. ~Links(task[t]) /\ ~Joins(task[t])
      BY <1>1, <1>2, Unawaited
    <2>2. error' \in BOOLEAN /\ UNCHANGED <<connecting, loading>>
      BY <1>4, Facts DEF flags
    <2> QED
      BY <1>1, <1>4, <2>1, <2>2, EndedHolds
  <1> QED
    BY <1>3, <1>4 DEF AnswerSkill

LEMMA AnswerListHolds ==
  ASSUME SelectionInv, NEW t \in Tasks, AnswerList(t)
  PROVE  SelectionInv'
  <1>1. /\ task[t].pc = "list" /\ task' = [task EXCEPT ![t] = Idle]
        /\ UNCHANGED <<target, active, input, health, projects, lost, generation, loadToken,
                       streamToken, view,
                       sending, compacting, connecting, loading, handle, streams, request,
                       server, mounted>>
    BY DEF AnswerList, Waiting, tokens, shown, stream
  <1>2. listed' \in {listed, server[task[t].tgt]} /\ error' \in {error, TRUE}
    BY DEF AnswerList
  <1>3. task[t].tgt \in Targets
    BY <1>1, TaskFacts DEF TaskFits
  <1>4. listed' \subseteq Sessions
    BY <1>2, <1>3, Facts DEF ServerFits
  <1>5. ~Links(task[t]) /\ ~Joins(task[t])
    BY <1>1, TaskFacts, Unawaited
  <1>6. TasksFit' /\ FlagsFit'
    BY <1>1, <1>5, Ended
  <1> QED
    BY <1>1, <1>2, <1>4, <1>6, Facts, Stays

\* A function returns to the one that awaits it,
LEMMA PopIs ==
  ASSUME SelectionInv, NEW t \in Tasks, task[t].pc = "return", task[t].back # <<>>, Pop(t),
         UNCHANGED <<target, generation, active, request>>
  PROVE  /\ TasksFit'
         /\ \E new \in TaskRecords : task' = [task EXCEPT ![t] = new]
         /\ Links(task[t]) => \/ Links(task[t])' \/ Top(t).fn = "linked"
                              \/ Top(t).fn = "connected" /\ IsCurrentTarget(Top(t))
         /\ Joins(task[t]) => \/ Joins(task[t])' \/ Top(t).fn = "typed"
                              \/ Top(t).fn = "selected" /\ IsCurrentSelection(Top(t))
  <1> DEFINE b == task[t].back
             new == [task[t] EXCEPT !.back = Tail(b)]
  <1>1. b \in Seq(Frames) /\ BackFits(b) /\ b # <<>> /\ target \in Targets /\ task[t] \in TaskRecords
    BY TaskFacts
  <1>2. /\ Tail(b) \in Seq(Frames) /\ BackFits(Tail(b)) /\ Head(b) = b[1]
        /\ \A i \in DOMAIN b : i = 1 \/ (i - 1 \in DOMAIN Tail(b) /\ Tail(b)[i - 1] = b[i])
    BY <1>1, Popped
  <1>3. new \in TaskRecords /\ new.pc = "return" /\ new.back = Tail(b)
    BY <1>1, <1>2 DEF TaskRecords
  <1>4. task' = [task EXCEPT ![t] = new]
    BY Facts DEF Pop, TasksFit
  <1> HIDE DEF new
  <1>5. TaskFits(new)
    BY <1>2, <1>3 DEF TaskFits
  <1>6. TasksFit' /\ task'[t] = new
    BY <1>1, <1>3, <1>4, <1>5, TargetsAssumption, Facts, TaskGoesOn
  <1>7. Links(task[t]) => \/ Links(task[t])' \/ Top(t).fn = "linked"
                          \/ Top(t).fn = "connected" /\ IsCurrentTarget(Top(t))
    <2> SUFFICES ASSUME Links(task[t])
                 PROVE  \/ Links(task[t])' \/ Top(t).fn = "linked"
                        \/ Top(t).fn = "connected" /\ IsCurrentTarget(Top(t))
      OBVIOUS
    <2>1. PICK i \in DOMAIN b : b[i].fn = "linked" \/ (b[i].fn = "connected" /\ IsCurrentTarget(b[i]))
      BY DEF Links
    <2>2. CASE i = 1
      BY <1>2, <2>1, <2>2 DEF Top
    <2>3. CASE i # 1
      <3>1. i - 1 \in DOMAIN Tail(b) /\ Tail(b)[i - 1] = b[i] /\ task'[t].back = Tail(b)
        BY <1>2, <1>3, <1>6, <2>3
      <3> QED
        BY <2>1, <3>1 DEF Links, IsCurrentTarget
    <2> QED
      BY <2>2, <2>3
  <1>8. Joins(task[t]) => \/ Joins(task[t])' \/ Top(t).fn = "typed"
                          \/ Top(t).fn = "selected" /\ IsCurrentSelection(Top(t))
    <2> SUFFICES ASSUME Joins(task[t])
                 PROVE  \/ Joins(task[t])' \/ Top(t).fn = "typed"
                        \/ Top(t).fn = "selected" /\ IsCurrentSelection(Top(t))
      OBVIOUS
    <2>1. PICK i \in DOMAIN b : b[i].fn = "typed" \/ (b[i].fn = "selected" /\ IsCurrentSelection(b[i]))
      BY DEF Joins
    <2>2. CASE i = 1
      BY <1>2, <2>1, <2>2 DEF Top
    <2>3. CASE i # 1
      <3>1. i - 1 \in DOMAIN Tail(b) /\ Tail(b)[i - 1] = b[i] /\ task'[t].back = Tail(b)
        BY <1>2, <1>3, <1>6, <2>3
      <3> QED
        BY <2>1, <3>1 DEF Joins, IsCurrentTarget, IsCurrentSelection
    <2> QED
      BY <2>2, <2>3
  <1> QED
    BY <1>3, <1>4, <1>6, <1>7, <1>8

\* which may be the last.
LEMMA LastFrame ==
  ASSUME SelectionInv, NEW t \in Tasks, task[t].pc = "return", task[t].back # <<>>,
         Top(t).fn \notin {"selected", "connected", "linked"}
  PROVE  /\ ~Links(task[t]) /\ (Top(t).fn # "typed" => ~Joins(task[t]))
         /\ Tail(task[t].back) = <<>>
         /\ Top(t) \in Frames /\ (Top(t).fn \in {"typed", "send"} => Top(t).sid \in Sessions)
  <1> DEFINE b == task[t].back
  <1>1. b \in Seq(Frames) /\ BackFits(b) /\ b # <<>>
    BY TaskFacts
  <1>2. /\ Head(b) = b[1] /\ Head(b) \in Frames /\ Tail(b) = <<>> /\ DOMAIN b = {1}
    BY <1>1, Popped DEF Top
  <1>3. Top(t) = b[1] /\ 1 \in DOMAIN b
    BY <1>2 DEF Top
  <1>4. Top(t).fn \in {"typed", "send"} => Top(t).sid \in Sessions
    BY <1>1, <1>3 DEF BackFits
  <1>5. ~Links(task[t]) /\ (Top(t).fn # "typed" => ~Joins(task[t]))
    BY <1>2, <1>3 DEF Links, Joins
  <1> QED
    BY <1>2, <1>3, <1>4, <1>5 DEF Top

LEMMA ReturnDoneHolds ==
  ASSUME SelectionInv, NEW t \in Tasks, ReturnDone(t)
  PROVE  SelectionInv'
  <1>1. /\ task[t].pc = "return" /\ task[t].back = <<>> /\ task' = [task EXCEPT ![t] = Idle]
        /\ UNCHANGED <<identity, tokens, shown, flags, stream, request, server, mounted>>
    BY DEF ReturnDone
  <1>2. error' \in BOOLEAN /\ UNCHANGED <<connecting, loading>>
    BY <1>1, Facts DEF flags
  <1>3. ~Links(task[t]) /\ ~Joins(task[t])
    BY <1>1, Unawaited
  <1> QED
    BY <1>1, <1>2, <1>3, EndedHolds

\* selectSession joins the session if it is still the one shown.
LEMMA ReturnSelectedHolds ==
  ASSUME SelectionInv, NEW t \in Tasks, ReturnSelected(t)
  PROVE  SelectionInv'
  <1> DEFINE top == Top(t)
  <1>1. /\ task[t].pc = "return" /\ task[t].back # <<>> /\ top.fn = "selected" /\ Pop(t)
        /\ UNCHANGED <<target, active, input, health, projects, listed, lost, generation, loadToken, view,
                       sending, compacting, connecting, error, request, server, mounted>>
    BY DEF ReturnSelected, Returning, Top, identity, shown
  <1>2. /\ TasksFit'
        /\ \E new \in TaskRecords : task' = [task EXCEPT ![t] = new]
        /\ Links(task[t]) => Links(task[t])'
        /\ Joins(task[t]) => Joins(task[t])' \/ IsCurrentSelection(top)
    BY <1>1, PopIs
  <1>3. PICK new \in TaskRecords : task' = [task EXCEPT ![t] = new]
    BY <1>2
  <1>4. top \in Frames /\ top.sid \in Sessions
    <2>1. task[t].back \in Seq(Frames) /\ BackFits(task[t].back)
      BY TaskFacts
    <2>2. top = task[t].back[1] /\ 1 \in DOMAIN task[t].back /\ top \in Frames
      BY <1>1, <2>1, Popped DEF Top
    <2> QED
      BY <1>1, <2>1, <2>2 DEF BackFits
  <1>5. CASE IsCurrentSelection(top)
    <2> DEFINE next == [tgt |-> target, sid |-> top.sid, token |-> streamToken + 1]
    <2>1. /\ loading' = FALSE /\ streamToken' = streamToken + 1 /\ handle' = next
          /\ streams' = (streams \ {handle}) \cup {next}
      BY <1>5 DEF ReturnSelected, OpenSessionStream
    <2>2. next \in Handles /\ next.tgt = target /\ next.sid = top.sid /\ next.token = streamToken + 1
      BY <1>4, Facts DEF Handles
    <2>3. next # None /\ active = top.sid
      BY <1>5, <2>2, StreamsAssumption DEF IsCurrentSelection
    <2> HIDE DEF next
    <2>4. streamToken' \in Nat
      BY <2>1, Facts
    <2>5. TypeOK'
      BY <1>1, <2>1, <2>4, Facts, TypesBack
    <2>6. OneStreamOpen'
      BY <2>1, <2>3, Facts DEF StreamFits, OneStreamOpen
    <2>7. StreamFits'
      BY <1>1, <2>1, <2>2, <2>6 DEF StreamFits
    <2>8. IsCurrentStream'
      BY <1>1, <2>1, <2>2, <2>3 DEF IsCurrentStream
    <2>9. Linking => Linking'
      BY <1>1, <1>2, <1>3, Facts, LinkingKept DEF TasksFit
    <2>10. FlagsFit'
      BY <1>1, <2>1, <2>8, <2>9, Facts DEF FlagsFit
    <2>11. MessagesFit' /\ ServerFits'
      BY <1>1, Facts DEF MessagesFit, ServerFits
    <2> QED
      BY <1>2, <2>5, <2>7, <2>10, <2>11 DEF SelectionInv
  <1>6. CASE ~IsCurrentSelection(top)
    <2>1. UNCHANGED <<loading, streamToken, handle, streams>>
      BY <1>6 DEF ReturnSelected, stream
    <2>2. FlagsFit'
      BY <1>1, <1>2, <1>3, <1>6, <2>1, Facts, FlagsKept
    <2> QED
      BY <1>1, <1>2, <2>1, <2>2, Facts, Stays
  <1> QED
    BY <1>5, <1>6

\* The finally blocks of connectToServer,
LEMMA ReturnConnectedHolds ==
  ASSUME SelectionInv, NEW t \in Tasks, ReturnConnected(t)
  PROVE  SelectionInv'
  <1>1. /\ task[t].pc = "return" /\ task[t].back # <<>> /\ Top(t).fn = "connected" /\ Pop(t)
        /\ connecting' = (connecting /\ ~IsCurrentTarget(Top(t)))
        /\ UNCHANGED <<target, active, input, health, projects, listed, lost, generation, loadToken,
                       streamToken, view, sending, compacting, loading, error, handle, streams, request,
                       server, mounted>>
    BY DEF ReturnConnected, Returning, Top, identity, tokens, shown, stream
  <1>2. /\ TasksFit'
        /\ \E new \in TaskRecords : task' = [task EXCEPT ![t] = new]
        /\ Links(task[t]) => Links(task[t])' \/ IsCurrentTarget(Top(t))
        /\ Joins(task[t]) => Joins(task[t])'
    BY <1>1, PopIs
  <1>3. PICK new \in TaskRecords : task' = [task EXCEPT ![t] = new]
    BY <1>2
  <1>4. Joining => Joining'
    BY <1>1, <1>2, <1>3, Facts, JoiningKept DEF TasksFit
  <1>5. connecting' /\ mounted => Linking'
    <2> SUFFICES ASSUME connecting', mounted PROVE Linking'
      OBVIOUS
    <2>1. connecting /\ ~IsCurrentTarget(Top(t))
      BY <1>1
    <2>2. Linking
      BY <2>1, Facts DEF FlagsFit
    <2> QED
      BY <1>1, <1>2, <1>3, <2>1, <2>2, Facts, LinkingKept DEF TasksFit
  <1>6. FlagsFit'
    BY <1>1, <1>4, <1>5, Facts DEF FlagsFit, IsCurrentStream
  <1>7. connecting' \in BOOLEAN
    BY <1>1, Facts
  <1> QED
    BY <1>1, <1>2, <1>6, <1>7, Facts, Stays

\* and of connectToLocalService and connectDirectly.
LEMMA ReturnLinkedHolds ==
  ASSUME SelectionInv, NEW t \in Tasks, ReturnLinked(t)
  PROVE  SelectionInv'
  <1>1. /\ task[t].pc = "return" /\ task[t].back # <<>> /\ Top(t).fn = "linked" /\ Pop(t)
        /\ connecting' = FALSE
        /\ UNCHANGED <<target, active, input, health, projects, listed, lost, generation, loadToken,
                       streamToken, view, sending, compacting, loading, error, handle, streams, request,
                       server, mounted>>
    BY DEF ReturnLinked, Returning, Top, identity, tokens, shown, stream
  <1>2. /\ TasksFit'
        /\ \E new \in TaskRecords : task' = [task EXCEPT ![t] = new]
        /\ Joins(task[t]) => Joins(task[t])'
    BY <1>1, PopIs
  <1>3. PICK new \in TaskRecords : task' = [task EXCEPT ![t] = new]
    BY <1>2
  <1>4. Joining => Joining'
    BY <1>1, <1>2, <1>3, Facts, JoiningKept DEF TasksFit
  <1>5. FlagsFit'
    BY <1>1, <1>4, Facts DEF FlagsFit, IsCurrentStream
  <1> QED
    BY <1>1, <1>2, <1>5, Facts, Stays

LEMMA ReturnTypedHolds ==
  ASSUME SelectionInv, NEW t \in Tasks, ReturnTyped(t)
  PROVE  SelectionInv'
  <1>1. /\ task[t].pc = "return" /\ task[t].back # <<>> /\ Top(t).fn = "typed"
        /\ SelectSession(t, Top(t).sid, Tail(task[t].back))
        /\ UNCHANGED <<target, health, listed, projects, generation, connecting, request,
                       server, mounted>>
    BY DEF ReturnTyped, Returning, Top
  <1>2. ~Links(task[t]) /\ Tail(task[t].back) = <<>> /\ Top(t).sid \in Sessions
    BY <1>1, LastFrame
  <1>3. target \in Targets /\ task[t].back \in Seq(Frames) /\ BackFits(task[t].back)
    BY <1>1, TaskFacts
  <1>4. Tail(task[t].back) \in Seq(Frames) /\ BackFits(Tail(task[t].back))
    BY <1>1, <1>3, Popped
  <1> QED
    BY <1>1, <1>2, <1>3, <1>4, Facts, SelectedHolds

\* createFreshSession and ensureActiveSession
LEMMA ReturnFreshHolds ==
  ASSUME SelectionInv, NEW t \in Tasks, ReturnFresh(t)
  PROVE  SelectionInv'
  <1>1. /\ task[t].pc = "return" /\ task[t].back # <<>> /\ Top(t).fn \in {"fresh", "ensure"}
        /\ UNCHANGED <<target, health, projects, generation, connecting, request, server, mounted>>
    BY DEF ReturnFresh, Returning, Top
  <1>2. PICK sid \in FreshIds :
          /\ listed' = listed \cup {sid}
          /\ SelectSession(t, sid, IF Top(t).fn = "ensure"
                                   THEN <<Frame("send", Top(t).tgt, sid, 0)>> ELSE <<>>)
    BY DEF ReturnFresh
  <1>3. ~Links(task[t]) /\ Top(t) \in Frames
    BY <1>1, LastFrame
  <1>4. sid \in Sessions /\ listed' \subseteq Sessions /\ sid \in SessionsOrNone
    BY <1>2, Facts DEF FreshIds
  <1>5. target \in Targets
    BY <1>1, TaskFacts
  <1>6. CASE Top(t).fn = "ensure"
    <2> DEFINE f == Frame("send", Top(t).tgt, sid, 0)
               back == <<f>>
    <2>1. f \in Frames /\ f.fn = "send" /\ f.sid = sid
      BY <1>3, <1>4 DEF Frame, Frames
    <2>2. SelectSession(t, sid, back)
      BY <1>2, <1>6
    <2> HIDE DEF f
    <2>3. back \in Seq(Frames) /\ BackFits(back)
      BY <1>4, <2>1, Single
    <2> HIDE DEF back
    <2> QED
      BY <1>1, <1>3, <1>4, <1>5, <2>2, <2>3, Facts, SelectedHolds
  <1>7. CASE Top(t).fn # "ensure"
    <2> DEFINE none == <<>>
    <2>1. SelectSession(t, sid, none) /\ none \in Seq(Frames) /\ BackFits(none)
      BY <1>2, <1>7, Empty
    <2> HIDE DEF none
    <2> QED
      BY <1>1, <1>3, <1>4, <1>5, <2>1, Facts, SelectedHolds
  <1> QED
    BY <1>6, <1>7

LEMMA ReturnWithoutHealthHolds ==
  ASSUME SelectionInv, NEW t \in Tasks, ReturnWithoutHealth(t)
  PROVE  SelectionInv'
  <1>1. /\ task[t].pc = "return" /\ task[t].back # <<>> /\ Top(t).fn \in {"fresh", "ensure"}
        /\ task' = [task EXCEPT ![t] = Idle]
        /\ UNCHANGED <<identity, tokens, shown, flags, stream, request, server, mounted>>
    BY DEF ReturnWithoutHealth, Returning, Top
  <1>2. error' \in BOOLEAN /\ UNCHANGED <<connecting, loading>>
    BY <1>1, Facts DEF flags
  <1>3. ~Links(task[t]) /\ ~Joins(task[t])
    BY <1>1, LastFrame
  <1> QED
    BY <1>1, <1>2, <1>3, EndedHolds

LEMMA ReturnSendHolds ==
  ASSUME SelectionInv, NEW t \in Tasks, ReturnSend(t)
  PROVE  SelectionInv'
  <1>1. /\ task[t].pc = "return" /\ task[t].back # <<>> /\ Top(t).fn = "send"
        /\ Send(t, Top(t).tgt, Top(t).sid)
        /\ UNCHANGED <<identity, tokens, view, compacting, connecting, loading, stream, server, mounted>>
    BY DEF ReturnSend, Returning, Top
  <1>2. ~Links(task[t]) /\ ~Joins(task[t]) /\ Top(t) \in Frames /\ Top(t).sid \in Sessions
    BY <1>1, LastFrame
  <1>3. Top(t).tgt \in Targets \cup {None}
    BY <1>2 DEF Frames
  <1>4. target # None
    BY <1>1, TaskFacts, TargetsAssumption
  <1> QED
    BY <1>1, <1>2, <1>3, <1>4, SendHolds

LEMMA ReturnCompactedHolds ==
  ASSUME SelectionInv, NEW t \in Tasks, ReturnCompacted(t)
  PROVE  SelectionInv'
  <1>1. /\ task[t].pc = "return" /\ task[t].back # <<>> /\ Top(t).fn = "compacted" /\ Pop(t)
        /\ compacting' = FALSE
        /\ UNCHANGED <<target, active, input, health, projects, listed, lost, generation, loadToken,
                       streamToken, view, sending, connecting, loading, error, handle, streams, request,
                       server, mounted>>
    BY DEF ReturnCompacted, Returning, Top, identity, tokens, flags, stream
  <1>2. /\ TasksFit'
        /\ \E new \in TaskRecords : task' = [task EXCEPT ![t] = new]
        /\ Links(task[t]) => Links(task[t])'
        /\ Joins(task[t]) => Joins(task[t])'
    BY <1>1, PopIs
  <1>3. PICK new \in TaskRecords : task' = [task EXCEPT ![t] = new]
    BY <1>2
  <1>4. FlagsFit'
    BY <1>1, <1>2, <1>3, Facts, FlagsKept
  <1> QED
    BY <1>1, <1>2, <1>4, Facts, Stays

LEMMA StatusEventHolds ==
  ASSUME SelectionInv, StatusEvent
  PROVE  SelectionInv'
  <1>1. /\ handle # None /\ sending' \in BOOLEAN
        /\ view' = [view EXCEPT !.status = Owner(handle.tgt, handle.sid)]
        /\ UNCHANGED <<target, active, input, health, projects, listed, lost, generation, loadToken,
                       streamToken, compacting, connecting, loading, error, handle, streams, request, task,
                       server, mounted>>
    BY DEF StatusEvent, IsCurrentStream, identity, tokens, flags, stream
  <1>2. TasksFit' /\ FlagsFit'
    BY <1>1, Facts DEF TasksFit, TaskFits, BackFits, FlagsFit, Linking, Joining, Links, Joins,
                       IsCurrentStream, IsCurrentTarget, IsCurrentSelection
  <1>3. Owner(handle.tgt, handle.sid) \in (Targets \cup {None}) \X SessionsOrNone
    BY <1>1, Facts DEF Owner, StreamFits, Handles
  <1>4. MessagesFit'
    BY <1>1, <1>3, Facts DEF MessagesFit, Views, Owner
  <1> QED
    BY <1>1, <1>2, <1>4, Facts, Stays

LEMMA InitHolds == Init => SelectionInv
  <1> SUFFICES ASSUME Init PROVE SelectionInv
    OBVIOUS
  <1>1. /\ generation = 0 /\ loadToken = 0 /\ streamToken = 0
        /\ health = None /\ listed = {} /\ projects = {} /\ view = Blank
        /\ loading = FALSE /\ sending = FALSE /\ compacting = FALSE /\ error = FALSE
        /\ handle = None /\ streams = {} /\ request = None
        /\ server = Known /\ mounted = TRUE /\ lost = FALSE /\ input = active
    BY DEF Init
  <1>2. PICK first \in Tasks :
          \/ /\ target = Direct /\ active \in Known[Direct] \cup {None}
             /\ connecting = TRUE
             /\ task = [t \in Tasks |-> IF t = first THEN [Idle EXCEPT !.pc = "probe", !.tgt = Direct]
                                                     ELSE Idle]
          \/ /\ target \in Targets /\ active = None
             /\ connecting = TRUE
             /\ task = [t \in Tasks |-> IF t = first THEN [Idle EXCEPT !.pc = "projects"] ELSE Idle]
          \/ /\ target = None /\ active = None
             /\ connecting = FALSE
             /\ task = [t \in Tasks |-> Idle]
    BY DEF Init
  <1> DEFINE probe == [Idle EXCEPT !.pc = "probe", !.tgt = Direct]
             list == [Idle EXCEPT !.pc = "projects"]
  <1>3. Direct \in Targets /\ Known[Direct] \subseteq Sessions
    BY KnownAssumption DEF Targets
  <1>4. /\ probe \in TaskRecords /\ probe.pc = "probe" /\ probe.back = <<>>
        /\ list \in TaskRecords /\ list.pc = "projects" /\ list.back = <<>>
        /\ Idle \in TaskRecords /\ Idle.pc = "idle" /\ Idle.back = <<>>
    BY <1>3, IdleIs DEF TaskRecords
  <1> HIDE DEF probe, list
  <1>5. TaskFits(probe) /\ TaskFits(list) /\ TaskFits(Idle)
    BY <1>4, Empty DEF TaskFits
  <1>6. /\ task \in [Tasks -> TaskRecords]
        /\ \A t \in Tasks : task[t] \in {probe, list, Idle}
        /\ target \in Targets \cup {None} /\ active \in SessionsOrNone /\ connecting \in BOOLEAN
        /\ target = None => active = None
        /\ connecting => task[first] \in {probe, list}
    <2>1. CASE /\ target = Direct /\ active \in Known[Direct] \cup {None} /\ connecting = TRUE
               /\ task = [t \in Tasks |-> IF t = first THEN probe ELSE Idle]
      BY <1>3, <1>4, <2>1, TargetsAssumption DEF SessionsOrNone
    <2>2. CASE /\ target \in Targets /\ active = None /\ connecting = TRUE
               /\ task = [t \in Tasks |-> IF t = first THEN list ELSE Idle]
      BY <1>4, <2>2 DEF SessionsOrNone
    <2>3. CASE /\ target = None /\ active = None /\ connecting = FALSE
               /\ task = [t \in Tasks |-> Idle]
      BY <1>4, <2>3 DEF SessionsOrNone
    <2> QED
      BY <1>2, <2>1, <2>2, <2>3 DEF probe, list
  <1>7. TypeOK
    BY <1>1, <1>6 DEF TypeOK
  <1>8. TasksFit
    <2>1. ASSUME NEW t \in Tasks PROVE TaskFits(task[t]) /\ task[t].pc \in {"idle", "projects", "probe"}
      BY <1>4, <1>5, <1>6
    <2> QED
      BY <1>1, <1>6, <2>1 DEF TasksFit
  <1>9. ServerFits
    BY <1>1, KnownAssumption DEF ServerFits
  <1>10. StreamFits
    BY <1>1 DEF StreamFits, OneStreamOpen, IsCurrentStream
  <1>11. MessagesFit
    BY <1>1 DEF MessagesFit, Views, Blank
  <1>12. connecting => Linking
    BY <1>4, <1>6 DEF Linking, Links
  <1>13. health = target => active = None
    BY <1>1, <1>6
  <1>14. FlagsFit
    BY <1>1, <1>12, <1>13 DEF FlagsFit
  <1> QED
    BY <1>7, <1>8, <1>9, <1>10, <1>11, <1>14 DEF SelectionInv

LEMMA NextHolds ==
  ASSUME SelectionInv, [Next]_vars
  PROVE  SelectionInv'
  <1>1. CASE \E t \in Tasks :
                \/ ChooseProject(t) \/ RegisterProject(t) \/ ConnectToLocalService(t) \/ ConnectDirectly(t)
                \/ ChooseSession(t) \/ OpenTypedSession(t) \/ CreateSession(t) \/ Submit(t) \/ AbortTurn(t)
                \/ DeleteSteering(t) \/ RunCommand(t) \/ ListSessions(t)
    BY <1>1, ChooseProjectHolds, RegisterProjectHolds, ConnectToLocalServiceHolds, ConnectDirectlyHolds,
       ChooseSessionHolds, OpenTypedSessionHolds, CreateSessionHolds, SubmitHolds, AbortTurnHolds,
       DeleteSteeringHolds, RunCommandHolds, ListSessionsHolds
  <1>2. CASE \E t \in Tasks :
                \/ AnswerConnect(t) \/ AnswerLoad(t) \/ FrameDrawn(t) \/ AnswerProjects(t) \/ AnswerProbe(t)
                \/ AnswerRegister(t) \/ AnswerCreate(t) \/ AnswerChat(t) \/ AnswerCall(t) \/ AnswerStatus(t)
                \/ AnswerClear(t) \/ AnswerSkill(t) \/ AnswerList(t)
    BY <1>2, AnswerConnectHolds, AnswerLoadHolds, FrameDrawnHolds, AnswerProjectsHolds, AnswerProbeHolds,
       AnswerRegisterHolds, AnswerCreateHolds, AnswerChatHolds, AnswerCallHolds, AnswerStatusHolds,
       AnswerClearHolds, AnswerSkillHolds, AnswerListHolds
  <1>3. CASE \E t \in Tasks :
                \/ ReturnDone(t) \/ ReturnSelected(t) \/ ReturnConnected(t) \/ ReturnLinked(t)
                \/ ReturnTyped(t) \/ ReturnFresh(t) \/ ReturnWithoutHealth(t) \/ ReturnSend(t)
                \/ ReturnCompacted(t)
    BY <1>3, ReturnDoneHolds, ReturnSelectedHolds, ReturnConnectedHolds, ReturnLinkedHolds,
       ReturnTypedHolds, ReturnFreshHolds, ReturnWithoutHealthHolds, ReturnSendHolds, ReturnCompactedHolds
  <1>4. CASE Unmount \/ StatusEvent
    BY <1>4, UnmountHolds, StatusEventHolds
  <1>5. CASE UNCHANGED vars
    <2>1. UNCHANGED <<target, active, input, health, projects, listed, lost, generation, loadToken,
                      streamToken, view, sending, compacting, connecting, loading, error, handle, streams,
                      request, task,
                      server, mounted>>
      BY <1>5 DEF vars, identity, tokens, shown, flags, stream
    <2>2. TasksFit' /\ FlagsFit'
      BY <2>1, Facts DEF TasksFit, TaskFits, BackFits, FlagsFit, Linking, Joining, Links, Joins,
                         IsCurrentStream, IsCurrentTarget, IsCurrentSelection
    <2> QED
      BY <2>1, <2>2, Facts, Stays
  <1> QED
    BY <1>1, <1>2, <1>3, <1>4, <1>5 DEF Next, UserNext, TaskNext

\* The invariant says what the page promises.
LEMMA InvSaysSelection == SelectionInv => SelectionHolds
  <1> SUFFICES ASSUME SelectionInv PROVE SelectionHolds
    OBVIOUS
  <1>1. TypeOK /\ ShowsTheActiveSession /\ OneStreamOpen
    BY Facts DEF ShowsTheActiveSession, MessagesFit, StreamFits
  <1>2. FlagsAreAwaited
    <2>1. ASSUME connecting, mounted
          PROVE  \E t \in Tasks :
                    \/ task[t].pc \in {"projects", "probe"}
                    \/ task[t].pc = "connect" /\ IsCurrentTarget(task[t])
                    \/ Awaits(t, LAMBDA k : k.fn = "linked" \/ (k.fn = "connected" /\ IsCurrentTarget(k)))
      <3>1. PICK t \in Tasks : Links(task[t])
        BY <2>1, Facts DEF FlagsFit, Linking
      <3> QED
        BY <3>1 DEF Links, Awaits
    <2>2. ASSUME loading, active # None, mounted, ~lost
          PROVE  \E t \in Tasks :
                    \/ task[t].pc = "connect" /\ IsCurrentTarget(task[t])
                    \/ Awaits(t, LAMBDA k : k.fn = "typed" \/ (k.fn = "selected" /\ IsCurrentSelection(k)))
      <3>1. PICK t \in Tasks : Joins(task[t])
        BY <2>2, Facts DEF FlagsFit, Joining
      <3> QED
        BY <3>1 DEF Joins, Awaits
    <2> QED
      BY <2>1, <2>2 DEF FlagsAreAwaited
  <1>3. SettlesJoined
    <2> SUFFICES ASSUME \A t \in Tasks : task[t] = Idle, mounted, active # None, health = target, ~lost
                 PROVE  IsCurrentStream /\ handle.tgt = target
      BY DEF SettlesJoined
    <2>1. ASSUME NEW t \in Tasks PROVE ~Joins(task[t])
      BY IdleIs, Unawaited
    <2>2. ~Joining
      BY <2>1 DEF Joining
    <2> QED
      BY <2>2, Facts DEF FlagsFit, StreamFits
  <1> QED
    BY <1>1, <1>2, <1>3 DEF SelectionHolds

(* Whatever operations of the user overlap, in whatever order their        *)
(* answers come and whichever fail, the chat page is about one session.    *)
THEOREM PageIsAboutOneSession == Spec => []SelectionHolds
  <1>1. Init => SelectionInv
    BY InitHolds
  <1>2. SelectionInv /\ [Next]_vars => SelectionInv'
    BY NextHolds
  <1>3. SelectionInv => SelectionHolds
    BY InvSaysSelection
  <1> QED
    BY <1>1, <1>2, <1>3, PTL DEF Spec

=============================================================================
