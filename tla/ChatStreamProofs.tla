-------------------------- MODULE ChatStreamProofs --------------------------
(***************************************************************************)
(* Proofs about ChatStream. With an upstream that does not break after the *)
(* end of its answer, the client reads a stream that follows the Responses *)
(* protocol (ProtocolKept), a failed answer is never told as completed     *)
(* (AnswerInvariance), and a completed stream tells the answer that        *)
(* converting the whole message would have told (WholeAnswer).             *)
(*                                                                         *)
(* The argument has four layers: what one more event does to a log; that   *)
(* every operator on the converter keeps Whole, which says what the log    *)
(* tells of each item, and makes the log grow legally (Step); the          *)
(* invariant AnswerInv of the loop, which relates the converter to the     *)
(* blocks it has handled; and what the converter holds of the texts and    *)
(* calls of those blocks (Reflects), however the text around a think tag   *)
(* was cut: what is still to be told, when the stream completes, makes the *)
(* answer whole (FinalizeIsWhole).                                         *)
(***************************************************************************)
EXTENDS ChatStream, SequenceTheorems, WellFoundedInduction, TLAPS

\* What the constants are is known everywhere.
USE StreamAssumption

-----------------------------------------------------------------------------
(* Numbers and logs *)

LEMMA Least ==
  ASSUME NEW T, T \subseteq Nat, T # {}
  PROVE  \E x \in T : \A y \in T : x <= y
<1> DEFINE R == OpToRel(<, Nat)
<1>1. IsWellFoundedOn(R, Nat)
  BY NatLessThanWellFounded, Zenon
<1>2. \A x \in Nat, y \in Nat : x < y => <<x, y>> \in R
  BY DEF OpToRel
<1> HIDE DEF R
<1>3. PICK x \in T : \A y \in T : ~(<<y, x>> \in R)
  BY <1>1, WFMin
<1>4. ASSUME NEW y \in T PROVE x <= y
  <2>1. x \in Nat /\ y \in Nat /\ ~(y < x)
    BY <1>2, <1>3
  <2> QED BY <2>1
<1> QED BY <1>4

(* A log is a sequence, of whatever events. *)
Log(s) == s \in Seq(Range(s))

LEMMA LogFacts ==
  ASSUME NEW s, Log(s)
  PROVE  /\ Len(s) \in Nat /\ DOMAIN s = 1 .. Len(s)
         /\ s = [n \in 1 .. Len(s) |-> s[n]]
BY DEF Log

LEMMA LogAppend ==
  ASSUME NEW s, Log(s), NEW e
  PROVE  LET t == Append(s, e)
         IN  /\ Log(t) /\ Len(t) = Len(s) + 1 /\ DOMAIN t = 1 .. Len(s) + 1
             /\ \A n \in 1 .. Len(s) : t[n] = s[n]
             /\ t[Len(s) + 1] = e
             /\ SubSeq(t, 1, Len(s)) = s
<1> DEFINE S == Range(s) \cup {e}
           t == Append(s, e)
<1>1. s \in Seq(S) /\ e \in S
  BY SeqMonotonic DEF Log
<1> HIDE DEF S
<1>2. /\ t \in Seq(S) /\ Len(t) = Len(s) + 1 /\ \A n \in 1 .. Len(s) : t[n] = s[n]
      /\ t[Len(s) + 1] = e
  BY <1>1
<1>3. Log(t)
  BY <1>2, SeqOfRange DEF Log
<1>4. SubSeq(t, 1, Len(s)) = s
  BY <1>1
<1>5. DOMAIN t = 1 .. Len(s) + 1
  BY <1>2
<1> QED BY <1>2, <1>3, <1>4, <1>5

LEMMA LogJoined ==
  ASSUME NEW s, NEW t, Log(s), Log(t)
  PROVE  Log(s \o t) /\ (t # <<>> => s \o t # <<>>) /\ <<>> \o t = t /\ s \o <<>> = s
<1> DEFINE S == Range(s) \cup Range(t)
           u == s \o t
<1>1. s \in Seq(S) /\ t \in Seq(S)
  BY SeqMonotonic DEF Log
<1> HIDE DEF S
<1>2. u \in Seq(S) /\ Len(u) = Len(s) + Len(t) /\ <<>> \o t = t /\ s \o <<>> = s
  BY <1>1
<1>3. Log(u)
  BY <1>2, SeqOfRange DEF Log
<1>4. t # <<>> => u # <<>>
  <2>1. t # <<>> => Len(t) > 0
    BY <1>1
  <2>2. Len(s) \in Nat /\ Len(t) \in Nat
    BY <1>1
  <2> HIDE DEF u
  <2>3. t # <<>> => Len(u) # 0
    BY <1>2, <2>1, <2>2
  <2> QED BY <2>3
<1> QED BY <1>2, <1>3, <1>4

LEMMA EmptyLog == Log(<<>>) /\ Len(<<>>) = 0 /\ DOMAIN <<>> = {}
BY DEF Log

-----------------------------------------------------------------------------
(* What deltas make together, step by step. *)

NextMade(f, history, i, n) ==
  IF n = 0 THEN <<>>
  ELSE IF history[n].type = "delta" /\ history[n].index = i
  THEN f[n - 1] \o history[n].piece
  ELSE f[n - 1]

Makes(f, history, i, m) == f = [n \in 0 .. m |-> NextMade(f, history, i, n)]

LEMMA MakesExists ==
  ASSUME NEW h, NEW i, NEW m \in Nat
  PROVE  \E f : Makes(f, h, i, m)
<1> DEFINE T == {k \in Nat : ~ \E f : Makes(f, h, i, k)}
<1>1. SUFFICES ASSUME T # {} PROVE FALSE
  OBVIOUS
<1>2. PICK k \in T : \A l \in T : k <= l
  <2>1. T \subseteq Nat
    OBVIOUS
  <2> HIDE DEF T
  <2> QED BY <1>1, <2>1, Least
<1>3. k \in Nat /\ ~ \E f : Makes(f, h, i, k)
  OBVIOUS
<1>4. CASE k = 0
  <2> DEFINE f == [n \in 0 .. 0 |-> <<>>]
  <2>1. \A n \in 0 .. 0 : n = 0
    OBVIOUS
  <2>2. \A n \in 0 .. 0 : NextMade(f, h, i, n) = <<>>
    BY <2>1 DEF NextMade
  <2>3. f = [n \in 0 .. 0 |-> NextMade(f, h, i, n)]
    BY <2>2
  <2> QED BY <1>3, <1>4, <2>3 DEF Makes
<1>5. CASE k # 0
  <2>1. k - 1 \in Nat /\ k - 1 \notin T
    <3> HIDE DEF T
    <3>1. k - 1 \in Nat /\ ~(k <= k - 1)
      BY <1>3, <1>5
    <3> QED BY <1>2, <3>1
  <2>2. PICK g : Makes(g, h, i, k - 1)
    BY <2>1
  <2>3. g = [n \in 0 .. (k - 1) |-> NextMade(g, h, i, n)]
    BY <2>2 DEF Makes
  <2> DEFINE f == [n \in 0 .. k |-> IF n = k THEN NextMade(g, h, i, k) ELSE g[n]]
  <2>4. \A n \in 0 .. (k - 1) : f[n] = g[n]
    BY <1>3
  <2>5. f[k] = NextMade(g, h, i, k)
    BY <1>3
  <2>6. f = [n \in 0 .. k |-> f[n]]
    OBVIOUS
  <2> HIDE DEF f
  <2>7. ASSUME NEW n \in 0 .. k PROVE f[n] = NextMade(f, h, i, n)
    <3>1. n # 0 => n - 1 \in 0 .. (k - 1) /\ f[n - 1] = g[n - 1]
      BY <1>3, <2>4
    <3>2. NextMade(f, h, i, n) = NextMade(g, h, i, n)
      BY <3>1 DEF NextMade
    <3>3. CASE n = k
      BY <2>5, <3>2, <3>3
    <3>4. CASE n # k
      <4>1. n \in 0 .. (k - 1)
        BY <1>3, <3>4
      <4>2. g[n] = NextMade(g, h, i, n)
        BY <2>3, <4>1
      <4> QED BY <2>4, <3>2, <4>1, <4>2
    <3> QED BY <3>3, <3>4
  <2>8. Makes(f, h, i, k)
    BY <2>6, <2>7 DEF Makes
  <2> QED BY <1>3, <2>8
<1> QED BY <1>4, <1>5

(* From a log and a longer one that agrees with it the same is made. *)
LEMMA MakesSame ==
  ASSUME NEW h, NEW g, NEW i, NEW k \in Nat, NEW e, NEW f,
         Makes(e, h, i, k), Makes(f, g, i, k + 1), \A n \in 1 .. k : h[n] = g[n]
  PROVE  e[k] = f[k]
<1> DEFINE T == {n \in 0 .. k : e[n] # f[n]}
<1>1. SUFFICES ASSUME T # {} PROVE FALSE
  OBVIOUS
<1>2. PICK n \in T : \A o \in T : n <= o
  <2>1. T \subseteq Nat
    OBVIOUS
  <2> HIDE DEF T
  <2> QED BY <1>1, <2>1, Least
<1>3. n \in 0 .. k /\ e[n] # f[n]
  OBVIOUS
<1>4. n \in 0 .. k + 1
  BY <1>3
<1>5. e[n] = NextMade(e, h, i, n) /\ f[n] = NextMade(f, g, i, n)
  <2>1. e = [o \in 0 .. k |-> NextMade(e, h, i, o)]
    BY DEF Makes
  <2>2. f = [o \in 0 .. k + 1 |-> NextMade(f, g, i, o)]
    BY DEF Makes
  <2> QED BY <1>3, <1>4, <2>1, <2>2
<1>6. CASE n = 0
  BY <1>3, <1>5, <1>6 DEF NextMade
<1>7. CASE n # 0
  <2>1. n - 1 \in 0 .. k /\ ~(n <= n - 1)
    BY <1>3, <1>7
  <2>2. e[n - 1] = f[n - 1]
    BY <1>2, <2>1
  <2>3. h[n] = g[n]
    BY <1>3, <1>7
  <2> QED BY <1>3, <1>5, <2>2, <2>3 DEF NextMade
<1> QED BY <1>6, <1>7

LEMMA AssembledMakes ==
  ASSUME NEW h, Len(h) \in Nat, NEW i
  PROVE  \E f : Makes(f, h, i, Len(h)) /\ RS!Assembled(h, i) = f[Len(h)]
<1> DEFINE f == CHOOSE f : Makes(f, h, i, Len(h))
<1>1. Makes(f, h, i, Len(h))
  BY MakesExists
<1>2. RS!Assembled(h, i) = f[Len(h)]
  BY DEF RS!Assembled, Makes, NextMade
<1> QED BY <1>1, <1>2

LEMMA AssembledOfNone ==
  ASSUME NEW i
  PROVE  RS!Assembled(<<>>, i) = <<>>
<1>1. PICK f : Makes(f, <<>>, i, 0) /\ RS!Assembled(<<>>, i) = f[0]
  BY EmptyLog, AssembledMakes
<1>2. f[0] = NextMade(f, <<>>, i, 0)
  <2>1. f = [n \in 0 .. 0 |-> NextMade(f, <<>>, i, n)]
    BY <1>1 DEF Makes
  <2>2. 0 \in 0 .. 0
    OBVIOUS
  <2> QED BY <2>1, <2>2
<1> QED BY <1>1, <1>2 DEF NextMade

(* One more event adds its piece if it is a delta of the item. *)
LEMMA AssembledGrows ==
  ASSUME NEW h, Log(h), NEW e, NEW i
  PROVE  RS!Assembled(Append(h, e), i)
           = IF e.type = "delta" /\ e.index = i THEN RS!Assembled(h, i) \o e.piece
             ELSE RS!Assembled(h, i)
<1> DEFINE t == Append(h, e)
           m == Len(h)
<1>1. /\ m \in Nat /\ Len(t) = m + 1 /\ \A n \in 1 .. m : t[n] = h[n]
      /\ t[m + 1] = e
  BY LogFacts, LogAppend
<1> HIDE DEF t
<1>2. PICK f : Makes(f, h, i, m) /\ RS!Assembled(h, i) = f[m]
  BY <1>1, AssembledMakes
<1>3. PICK g : Makes(g, t, i, m + 1) /\ RS!Assembled(t, i) = g[m + 1]
  <2>1. Len(t) \in Nat
    BY <1>1
  <2>2. \E g : Makes(g, t, i, Len(t)) /\ RS!Assembled(t, i) = g[Len(t)]
    BY <2>1, AssembledMakes
  <2> QED BY <1>1, <2>2
<1> HIDE DEF m
<1>4. g[m] = f[m]
  <2>1. m \in Nat /\ \A n \in 1 .. m : h[n] = t[n]
    BY <1>1
  <2>2. Makes(f, h, i, m) /\ Makes(g, t, i, m + 1)
    BY <1>2, <1>3
  <2>3. f[m] = g[m]
    BY <2>1, <2>2, MakesSame
  <2> QED BY <2>3
<1>5. g[m + 1] = NextMade(g, t, i, m + 1)
  <2>1. g = [n \in 0 .. m + 1 |-> NextMade(g, t, i, n)]
    BY <1>3 DEF Makes
  <2>2. m + 1 \in 0 .. m + 1
    BY <1>1
  <2> QED BY <2>1, <2>2
<1>6. m + 1 # 0 /\ (m + 1) - 1 = m
  BY <1>1
<1>7. RS!Assembled(t, i) = IF e.type = "delta" /\ e.index = i THEN RS!Assembled(h, i) \o e.piece
                           ELSE RS!Assembled(h, i)
  BY <1>1, <1>2, <1>3, <1>4, <1>5, <1>6 DEF NextMade
<1> QED BY <1>7 DEF t

-----------------------------------------------------------------------------
(* What one more event changes about a log. *)

DoneItems(h) ==
  {[index |-> h[n].index, content |-> h[n].content] : n \in RS!Events(h, "done")}

LEMMA EventsGrow ==
  ASSUME NEW h, Log(h), NEW e, NEW type
  PROVE  LET t == Append(h, e)
         IN  /\ RS!Events(t, type) = RS!Events(h, type)
                  \cup (IF e.type = type THEN {Len(h) + 1} ELSE {})
             /\ \A n \in RS!Events(h, type) : n \in DOMAIN h /\ t[n] = h[n]
             /\ t[Len(h) + 1] = e
<1> DEFINE t == Append(h, e)
<1>1. /\ Len(h) \in Nat /\ DOMAIN h = 1 .. Len(h) /\ DOMAIN t = 1 .. Len(h) + 1
      /\ \A n \in 1 .. Len(h) : t[n] = h[n]
      /\ t[Len(h) + 1] = e
  BY LogFacts, LogAppend
<1> HIDE DEF t
<1>2. 1 .. Len(h) + 1 = (1 .. Len(h)) \cup {Len(h) + 1}
  BY <1>1
<1>3. RS!Events(t, type) = RS!Events(h, type) \cup (IF e.type = type THEN {Len(h) + 1} ELSE {})
  <2>1. ASSUME NEW n
        PROVE  n \in RS!Events(t, type) <=>
                 n \in RS!Events(h, type) \cup (IF e.type = type THEN {Len(h) + 1} ELSE {})
    <3>1. CASE n \in 1 .. Len(h)
      <4>1. n # Len(h) + 1
        BY <1>1, <3>1
      <4> QED BY <1>1, <1>2, <3>1, <4>1 DEF RS!Events
    <3>2. CASE n = Len(h) + 1
      <4>1. n \notin 1 .. Len(h)
        BY <1>1, <3>2
      <4> QED BY <1>1, <1>2, <3>2, <4>1 DEF RS!Events
    <3>3. CASE n \notin 1 .. Len(h) + 1
      BY <1>1, <1>2, <3>3 DEF RS!Events
    <3> QED BY <1>2, <3>1, <3>2, <3>3
  <2> QED BY <2>1
<1>4. \A n \in RS!Events(h, type) : n \in DOMAIN h /\ t[n] = h[n]
  BY <1>1 DEF RS!Events
<1>5. RS!Events(t, type) = RS!Events(h, type) \cup (IF e.type = type THEN {Len(h) + 1} ELSE {})
      /\ (\A n \in RS!Events(h, type) : n \in DOMAIN h /\ t[n] = h[n])
      /\ t[Len(h) + 1] = e
  BY <1>1, <1>3, <1>4
<1> QED BY <1>5 DEF t

LEMMA AddedGrows ==
  ASSUME NEW h, Log(h), NEW e
  PROVE  RS!Added(Append(h, e)) =
           RS!Added(h) \cup (IF e.type = "added" THEN {e.index} ELSE {})
<1> DEFINE t == Append(h, e)
<1>1. /\ RS!Events(t, "added") = RS!Events(h, "added")
              \cup (IF e.type = "added" THEN {Len(h) + 1} ELSE {})
      /\ \A n \in RS!Events(h, "added") : t[n] = h[n]
      /\ t[Len(h) + 1] = e
  BY EventsGrow
<1> HIDE DEF t
<1>2. RS!Added(t) = RS!Added(h) \cup (IF e.type = "added" THEN {e.index} ELSE {})
  BY <1>1 DEF RS!Added
<1> QED BY <1>2 DEF t

LEMMA NothingAnnounced ==
  ASSUME NEW h, Log(h), NEW e, e.type # "added"
  PROVE  /\ RS!Added(Append(h, e)) = RS!Added(h)
         /\ RS!Events(Append(h, e), "added") = RS!Events(h, "added")
         /\ \A n \in RS!Events(h, "added") : Append(h, e)[n] = h[n]
<1> DEFINE t == Append(h, e)
<1>1. /\ RS!Events(t, "added") = RS!Events(h, "added")
      /\ \A n \in RS!Events(h, "added") : t[n] = h[n]
  <2>1. /\ RS!Events(t, "added") = RS!Events(h, "added")
              \cup (IF e.type = "added" THEN {Len(h) + 1} ELSE {})
        /\ \A n \in RS!Events(h, "added") : t[n] = h[n]
    BY ONLY Log(h), EventsGrow
  <2> HIDE DEF t
  <2> QED BY <2>1
<1> HIDE DEF t
<1>2. RS!Added(t) = RS!Added(h)
  BY <1>1 DEF RS!Added
<1>3. /\ RS!Added(t) = RS!Added(h)
      /\ RS!Events(t, "added") = RS!Events(h, "added")
      /\ \A n \in RS!Events(h, "added") : t[n] = h[n]
  BY <1>1, <1>2
<1> QED BY <1>3 DEF t

LEMMA DoneGrows ==
  ASSUME NEW h, Log(h), NEW e
  PROVE  RS!Done(Append(h, e)) =
           RS!Done(h) \cup (IF e.type = "done" THEN {e.index} ELSE {})
<1> DEFINE t == Append(h, e)
<1>1. /\ RS!Events(t, "done") = RS!Events(h, "done")
              \cup (IF e.type = "done" THEN {Len(h) + 1} ELSE {})
      /\ \A n \in RS!Events(h, "done") : t[n] = h[n]
      /\ t[Len(h) + 1] = e
  BY EventsGrow
<1> HIDE DEF t
<1>2. RS!Done(t) = RS!Done(h) \cup (IF e.type = "done" THEN {e.index} ELSE {})
  BY <1>1 DEF RS!Done
<1> QED BY <1>2 DEF t

LEMMA DoneItemsGrow ==
  ASSUME NEW h, Log(h), NEW e
  PROVE  DoneItems(Append(h, e)) =
           DoneItems(h) \cup (IF e.type = "done"
                              THEN {[index |-> e.index, content |-> e.content]} ELSE {})
<1> DEFINE t == Append(h, e)
<1>1. /\ RS!Events(t, "done") = RS!Events(h, "done")
              \cup (IF e.type = "done" THEN {Len(h) + 1} ELSE {})
      /\ \A n \in RS!Events(h, "done") : t[n] = h[n]
      /\ t[Len(h) + 1] = e
  BY EventsGrow
<1> HIDE DEF t
<1>2. DoneItems(t) = DoneItems(h) \cup (IF e.type = "done"
                              THEN {[index |-> e.index, content |-> e.content]} ELSE {})
  BY <1>1 DEF DoneItems
<1> QED BY <1>2 DEF t

LEMMA OverGrows ==
  ASSUME NEW h, Log(h), NEW e
  PROVE  RS!Over(Append(h, e)) <=> RS!Over(h) \/ e.type \in {"completed", "failed"}
<1> DEFINE t == Append(h, e)
<1>1. /\ Len(h) \in Nat /\ DOMAIN h = 1 .. Len(h) /\ DOMAIN t = 1 .. Len(h) + 1
      /\ \A n \in 1 .. Len(h) : t[n] = h[n]
      /\ t[Len(h) + 1] = e
  BY LogFacts, LogAppend
<1> HIDE DEF t
<1>2. 1 .. Len(h) + 1 = (1 .. Len(h)) \cup {Len(h) + 1}
  BY <1>1
<1>3. RS!Over(t) <=> RS!Over(h) \/ e.type \in {"completed", "failed"}
  BY <1>1, <1>2 DEF RS!Over, RS!Terminal
<1> QED BY <1>3 DEF t

SameAnnouncements(h, t) ==
  /\ RS!Events(t, "added") = RS!Events(h, "added")
  /\ \A n \in RS!Events(h, "added") : t[n] = h[n]

SameTexts(h, t) == \A i : RS!Assembled(t, i) = RS!Assembled(h, i)

LEMMA NothingOfItems ==
  ASSUME NEW h, Log(h), NEW e, e.type \notin {"added", "delta", "done"},
         NEW t, t = Append(h, e)
  PROVE  /\ RS!Added(t) = RS!Added(h)
         /\ SameAnnouncements(h, t)
         /\ RS!Done(t) = RS!Done(h)
         /\ DoneItems(t) = DoneItems(h)
         /\ SameTexts(h, t)
<1>1. e.type # "added" /\ e.type # "delta" /\ e.type # "done"
  OBVIOUS
<1>2. /\ RS!Added(Append(h, e)) = RS!Added(h)
      /\ RS!Events(Append(h, e), "added") = RS!Events(h, "added")
      /\ \A n \in RS!Events(h, "added") : Append(h, e)[n] = h[n]
  BY ONLY Log(h), <1>1, NothingAnnounced
<1>3. RS!Done(Append(h, e)) = RS!Done(h)
  <2>1. RS!Done(Append(h, e)) = RS!Done(h) \cup (IF e.type = "done" THEN {e.index} ELSE {})
    BY DoneGrows
  <2> QED BY <1>1, <2>1
<1>4. DoneItems(Append(h, e)) = DoneItems(h)
  <2>1. DoneItems(Append(h, e)) =
           DoneItems(h) \cup (IF e.type = "done"
                              THEN {[index |-> e.index, content |-> e.content]} ELSE {})
    BY DoneItemsGrow
  <2> QED BY <1>1, <2>1
<1>5. ASSUME NEW i PROVE RS!Assembled(Append(h, e), i) = RS!Assembled(h, i)
  <2>1. RS!Assembled(Append(h, e), i)
           = IF e.type = "delta" /\ e.index = i THEN RS!Assembled(h, i) \o e.piece
             ELSE RS!Assembled(h, i)
    BY AssembledGrows
  <2> QED BY <1>1, <2>1
<1> QED BY <1>2, <1>3, <1>4, <1>5 DEF SameTexts, SameAnnouncements

LEMMA AppendedNotEmpty ==
  ASSUME NEW h, Log(h), NEW e
  PROVE  Append(h, e) # <<>>
<1> DEFINE t == Append(h, e)
<1>1. Len(h) \in Nat /\ Len(t) = Len(h) + 1
  BY LogFacts, LogAppend
<1> HIDE DEF t
<1>2. Len(t) # 0
  BY <1>1
<1>3. t # <<>>
  BY <1>2
<1> QED BY <1>3 DEF t

LEMMA OfNone ==
  /\ RS!Added(<<>>) = {} /\ RS!Done(<<>>) = {} /\ DoneItems(<<>>) = {} /\ ~ RS!Over(<<>>)
BY EmptyLog DEF RS!Added, RS!Done, RS!Over, RS!Events, DoneItems

LEMMA OutputIsOfDone ==
  ASSUME NEW h
  PROVE  RS!Output(h) = RS!ByIndex(DoneItems(h))
BY DEF RS!Output, DoneItems

(* The announcement of an item is an event that added it. *)
LEMMA AnnouncementIs ==
  ASSUME NEW h, NEW i \in RS!Added(h)
  PROVE  \E n \in RS!Events(h, "added") :
           h[n].index = i /\ RS!Announcement(h, i) = h[n]
BY DEF RS!Added, RS!Announcement

-----------------------------------------------------------------------------
(* Legal growth *)

Grows(h, g) ==
  /\ Log(h) /\ Log(g)
  /\ Len(h) <= Len(g)
  /\ \A n \in 1 .. Len(h) : g[n] = h[n]
  /\ \A n \in Len(h) + 1 .. Len(g) : RS!Legal(SubSeq(g, 1, n - 1), g[n])

LEMMA GrowsSelf ==
  ASSUME NEW h, Log(h)
  PROVE  Grows(h, h)
<1>1. Len(h) \in Nat
  BY LogFacts
<1>2. Len(h) <= Len(h) /\ Len(h) + 1 .. Len(h) = {}
  BY <1>1
<1> QED BY <1>2 DEF Grows

LEMMA GrowsByOne ==
  ASSUME NEW h, Log(h), NEW e, RS!Legal(h, e)
  PROVE  Grows(h, Append(h, e))
<1> DEFINE t == Append(h, e)
<1>1. /\ Len(h) \in Nat /\ Log(t) /\ Len(t) = Len(h) + 1
      /\ \A n \in 1 .. Len(h) : t[n] = h[n]
      /\ t[Len(h) + 1] = e
      /\ SubSeq(t, 1, Len(h)) = h
  BY LogFacts, LogAppend
<1> HIDE DEF t
<1>2. Len(h) <= Len(t)
  BY <1>1
<1>3. ASSUME NEW n \in Len(h) + 1 .. Len(t)
      PROVE  RS!Legal(SubSeq(t, 1, n - 1), t[n])
  <2>1. n = Len(h) + 1 /\ n - 1 = Len(h)
    BY <1>1
  <2> QED BY <1>1, <2>1
<1>4. Grows(h, t)
  BY <1>1, <1>2, <1>3 DEF Grows
<1> QED BY <1>4 DEF t

LEMMA GrowsOn ==
  ASSUME NEW h, NEW g, NEW f, Grows(h, g), Grows(g, f)
  PROVE  Grows(h, f)
<1>1. /\ Log(h) /\ Log(g) /\ Log(f)
      /\ Len(h) \in Nat /\ Len(g) \in Nat /\ Len(f) \in Nat
      /\ Len(h) <= Len(g) /\ Len(g) <= Len(f)
      /\ \A n \in 1 .. Len(h) : g[n] = h[n]
      /\ \A n \in 1 .. Len(g) : f[n] = g[n]
      /\ \A n \in Len(h) + 1 .. Len(g) : RS!Legal(SubSeq(g, 1, n - 1), g[n])
      /\ \A n \in Len(g) + 1 .. Len(f) : RS!Legal(SubSeq(f, 1, n - 1), f[n])
  BY LogFacts DEF Grows
<1>2. Len(h) <= Len(f)
  BY <1>1
<1>3. \A n \in 1 .. Len(h) : f[n] = h[n]
  <2>1. \A n \in 1 .. Len(h) : n \in 1 .. Len(g)
    BY <1>1
  <2> QED BY <1>1, <2>1
<1>4. ASSUME NEW n \in Len(h) + 1 .. Len(f)
      PROVE  RS!Legal(SubSeq(f, 1, n - 1), f[n])
  <2>1. CASE n \in Len(g) + 1 .. Len(f)
    BY <1>1, <2>1
  <2>2. CASE n \in Len(h) + 1 .. Len(g)
    <3>1. SubSeq(f, 1, n - 1) = SubSeq(g, 1, n - 1)
      <4>1. n - 1 \in Nat /\ \A m \in 1 .. n - 1 : m \in 1 .. Len(g)
        BY <1>1, <2>2
      <4>2. \A m \in 1 .. n - 1 : f[m] = g[m]
        BY <1>1, <4>1
      <4>3. /\ n - 1 <= Len(g) /\ n - 1 <= Len(f)
            /\ f \in Seq(Range(f) \cup Range(g)) /\ g \in Seq(Range(f) \cup Range(g))
        BY <1>1, <2>2, SeqMonotonic DEF Log
      <4> HIDE <1>1
      <4>4. /\ SubSeq(f, 1, n - 1) = [m \in 1 .. n - 1 |-> f[m]]
            /\ SubSeq(g, 1, n - 1) = [m \in 1 .. n - 1 |-> g[m]]
        BY <4>1, <4>3
      <4> QED BY <4>2, <4>4
    <3>2. f[n] = g[n]
      <4>1. n \in 1 .. Len(g)
        BY <1>1, <2>2
      <4> QED BY <1>1, <4>1
    <3> QED BY <1>1, <2>2, <3>1, <3>2
  <2>3. n \in Len(g) + 1 .. Len(f) \/ n \in Len(h) + 1 .. Len(g)
    BY <1>1
  <2> QED BY <2>1, <2>2, <2>3
<1> QED BY <1>1, <1>2, <1>3, <1>4 DEF Grows

LEMMA NothingAfter ==
  ASSUME NEW g
  PROVE  Grows(<<>>, g) <=> Log(g) /\ \A n \in 1 .. Len(g) : RS!Legal(SubSeq(g, 1, n - 1), g[n])
<1>1. 0 + 1 .. Len(g) = 1 .. Len(g) /\ 1 .. 0 = {}
  OBVIOUS
<1>2. Log(g) => 0 <= Len(g)
  BY LogFacts
<1> QED BY <1>1, <1>2, EmptyLog DEF Grows

(* The legal growth of the log the client reads. *)
LEMMA GrowthIsLegal ==
  Grows(conv.out, conv.out') => RS!LegalGrowth
<1>1. SUFFICES ASSUME Grows(conv.out, conv.out')
               PROVE  RS!LegalGrowth
  OBVIOUS
<1> DEFINE h == conv.out
           g == conv.out'
<1>2. /\ Log(h) /\ Log(g) /\ Len(h) \in Nat /\ Len(g) \in Nat /\ Len(h) <= Len(g)
      /\ \A n \in 1 .. Len(h) : g[n] = h[n]
      /\ \A n \in Len(h) + 1 .. Len(g) : RS!Legal(SubSeq(g, 1, n - 1), g[n])
  BY <1>1, LogFacts DEF Grows
<1>3. RS!IsPrefix(h, g)
  <2>1. /\ h \in Seq(Range(h) \cup Range(g)) /\ g \in Seq(Range(h) \cup Range(g))
    BY <1>2, SeqMonotonic DEF Log
  <2> HIDE DEF h, g
  <2>2. /\ SubSeq(h, 1, Len(h)) = [n \in 1 .. Len(h) |-> h[n]]
        /\ SubSeq(g, 1, Len(h)) = [n \in 1 .. Len(h) |-> g[n]]
    BY <1>2, <2>1
  <2>3. SubSeq(h, 1, Len(h)) = SubSeq(g, 1, Len(h))
    BY <1>2, <2>2
  <2> QED BY <1>2, <2>1, <2>3 DEF RS!IsPrefix
<1> QED BY <1>2, <1>3 DEF RS!LegalGrowth

-----------------------------------------------------------------------------
(* The converter and the log it writes *)

Texts == {"reasoning", "text"}

IsItem(it) ==
  /\ it = [known |-> it.known, index |-> it.index, done |-> it.done, text |-> it.text,
           call |-> it.call, name |-> it.name, id |-> it.id]
  /\ it.known \in BOOLEAN /\ it.index \in Nat /\ it.done \in BOOLEAN

Formed(c) ==
  /\ c = [started |-> c.started, completed |-> c.completed, failed |-> c.failed,
          nextIndex |-> c.nextIndex, items |-> c.items, mode |-> c.mode, think |-> c.think,
          outputItems |-> c.outputItems, finishReason |-> c.finishReason, out |-> c.out]
  /\ c.started \in BOOLEAN /\ c.completed \in BOOLEAN /\ c.failed \in BOOLEAN
  /\ c.nextIndex \in Nat
  /\ c.items = [k \in Keys |-> c.items[k]]
  /\ \A k \in Keys : IsItem(c.items[k])
  /\ \A k \in Keys \ Texts : Log(c.items[k].text)
  /\ c.mode \in {"detecting", "reasoning", "text"}
  /\ Log(c.think)
  /\ Log(c.out)

(* How an item is announced and ended. *)
KindOf(k, it) ==
  CASE k = "reasoning" -> "reasoning"
    [] k = "text" -> "message"
    [] OTHER -> ToolKind(it.name)

IdOf(k, it) == IF k \in Texts THEN <<KindOf(k, it)>> ELSE ToolId(it.name, it.call)

(* The text of an item is told as it comes, except for a custom tool's input. *)
Streamed(k, it) == k \in Texts \/ ~ IsCustom(it.name)

Numbered(c) ==
  /\ c.nextIndex >= 1
  /\ \A k \in Keys : c.items[k].index < c.nextIndex
  /\ \A k, j \in Keys :
       c.items[k].index = c.items[j].index /\ c.items[k].index # 0 => k = j

(* An item that was not announced has no identity yet, one that was keeps it. *)
Identities(c) ==
  \A k \in Keys :
    IF c.items[k].index = 0
    THEN /\ ~ c.items[k].done
         /\ c.items[k].call = NoCall /\ c.items[k].name = NoName
         /\ k \in Texts => c.items[k].text = <<>>
    ELSE /\ k \notin Texts => c.items[k].known
         /\ Streamed(k, c.items[k]) => c.items[k].id = IdOf(k, c.items[k])

(* What the log says of the items. *)
Announced(c) ==
  /\ \A i : i \in RS!Added(c.out) <=> i # 0 /\ \E k \in Keys : c.items[k].index = i
  /\ \A n \in RS!Events(c.out, "added"), k \in Keys :
       c.out[n].index = c.items[k].index =>
         c.out[n].kind = KindOf(k, c.items[k]) /\ c.out[n].id = IdOf(k, c.items[k])

Concluded(c) ==
  /\ \A i : i \in RS!Done(c.out) <=> \E k \in Keys : c.items[k].done /\ c.items[k].index = i
  /\ c.outputItems = DoneItems(c.out)

Untold(c) == \A i \in Nat : i >= c.nextIndex => RS!Assembled(c.out, i) = <<>>

Told(c, k) ==
  c.items[k].index # 0 /\ ~ c.items[k].done =>
    RS!Assembled(c.out, c.items[k].index) =
      IF Streamed(k, c.items[k]) THEN c.items[k].text ELSE <<>>

Bounded(c) ==
  /\ RS!Over(c.out) <=> c.completed
  /\ ~ c.completed => (c.out = <<>> <=> ~ c.started)

(* All of it but what is told of the items. *)
Recorded(c) ==
  /\ Formed(c) /\ Numbered(c) /\ Identities(c) /\ Announced(c) /\ Concluded(c)
  /\ Untold(c) /\ Bounded(c)

(* A response that was begun and is not over. *)
Running(c) == Recorded(c) /\ c.started /\ ~ c.completed

OthersSame(c, d, k) == \A j \in Keys \ {k} : d.items[j] = c.items[j]
OthersTold(c, d, k) == \A j \in Keys \ {k} : Told(c, j) => Told(d, j)

(* d is c but for item k and what has been written. *)
OnlyItem(c, d, k) ==
  /\ Formed(d)
  /\ d.started = c.started /\ d.completed = c.completed
  /\ OthersSame(c, d, k)

-----------------------------------------------------------------------------
(* An item is announced. *)

LEMMA Announce ==
  ASSUME NEW c, Running(c), NEW k \in Keys, c.items[k].index = 0,
         NEW d, OnlyItem(c, d, k),
         d.items[k].index = c.nextIndex, ~ d.items[k].done,
         k \notin Texts => d.items[k].known,
         Streamed(k, d.items[k]) => d.items[k].id = IdOf(k, d.items[k]),
         d.nextIndex = c.nextIndex + 1, d.outputItems = c.outputItems,
         d.out = Append(c.out, [type |-> "added", index |-> c.nextIndex,
                                kind |-> KindOf(k, d.items[k]), id |-> IdOf(k, d.items[k])])
  PROVE  /\ Running(d) /\ Grows(c.out, d.out)
         /\ OthersTold(c, d, k)
         /\ RS!Assembled(d.out, d.items[k].index) = <<>>
<1> DEFINE e == [type |-> "added", index |-> c.nextIndex,
                 kind |-> KindOf(k, d.items[k]), id |-> IdOf(k, d.items[k])]
<1>1. /\ Formed(c) /\ Formed(d) /\ Log(c.out) /\ c.nextIndex \in Nat /\ c.nextIndex >= 1
      /\ \A j \in Keys : c.items[j].index \in Nat /\ d.items[j].index \in Nat
      /\ \A j \in Keys : c.items[j].index < c.nextIndex
  BY DEF Running, Recorded, OnlyItem, Formed, Numbered, IsItem
<1>2. /\ e.type = "added" /\ e.index = c.nextIndex
      /\ e.kind = KindOf(k, d.items[k]) /\ e.id = IdOf(k, d.items[k])
      /\ d.out = Append(c.out, e)
  OBVIOUS
<1> HIDE DEF e
<1>3. /\ c.started /\ ~ c.completed /\ d.started /\ ~ d.completed
      /\ \A j \in Keys \ {k} : d.items[j] = c.items[j]
  BY DEF Running, OnlyItem, OthersSame
<1>4. /\ RS!Added(d.out) = RS!Added(c.out) \cup {c.nextIndex}
      /\ RS!Done(d.out) = RS!Done(c.out)
      /\ DoneItems(d.out) = DoneItems(c.out)
      /\ RS!Over(d.out) <=> RS!Over(c.out)
  <2>1. RS!Added(d.out) = RS!Added(c.out) \cup {c.nextIndex}
    BY <1>1, <1>2, AddedGrows
  <2>2. RS!Done(d.out) = RS!Done(c.out)
    BY <1>1, <1>2, DoneGrows
  <2>3. DoneItems(d.out) = DoneItems(c.out)
    BY <1>1, <1>2, DoneItemsGrow
  <2>4. RS!Over(d.out) <=> RS!Over(c.out)
    BY <1>1, <1>2, OverGrows
  <2> QED BY <2>1, <2>2, <2>3, <2>4
<1>5. \A i : RS!Assembled(d.out, i) = RS!Assembled(c.out, i)
  BY <1>1, <1>2, AssembledGrows
<1>6. Grows(c.out, d.out)
  <2>1. RS!Legal(c.out, e)
    <3>1. ~ RS!Over(c.out) /\ c.out # <<>>
      BY <1>3 DEF Running, Recorded, Bounded
    <3>2. \A i \in RS!Added(c.out) : i \in Nat /\ i < c.nextIndex
      BY <1>1 DEF Running, Recorded, Announced
    <3>3. c.nextIndex \notin RS!Added(c.out)
      BY <1>1, <3>2
    <3> QED BY <1>2, <3>1, <3>2, <3>3 DEF RS!Legal
  <2> QED BY <1>1, <1>2, <2>1, GrowsByOne
<1>7. Numbered(d)
  <2>1. d.nextIndex >= 1 /\ \A j \in Keys : d.items[j].index < d.nextIndex
    <3>1. d.items[k].index < d.nextIndex /\ d.nextIndex >= 1
      BY <1>1
    <3>2. ASSUME NEW j \in Keys \ {k} PROVE d.items[j].index < d.nextIndex
      BY <1>1, <1>3
    <3> QED BY <3>1, <3>2
  <2>2. ASSUME NEW i \in Keys, NEW j \in Keys, d.items[i].index = d.items[j].index,
               d.items[i].index # 0
        PROVE  i = j
    <3>1. CASE i # k /\ j # k
      <4>1. c.items[i].index = c.items[j].index /\ c.items[i].index # 0
        BY <1>3, <2>2, <3>1
      <4>2. Numbered(c)
        BY DEF Running, Recorded
      <4> QED BY <4>1, <4>2 DEF Numbered
    <3>2. ASSUME NEW l \in Keys \ {k} PROVE d.items[l].index # d.items[k].index
      BY <1>1, <1>3
    <3>3. CASE i = k \/ j = k
      BY <2>2, <3>2, <3>3
    <3> QED BY <3>1, <3>3
  <2> QED BY <2>1, <2>2 DEF Numbered
<1>8. Identities(d)
  <2>1. d.items[k].index # 0
    BY <1>1
  <2> QED BY <1>3, <2>1 DEF Running, Recorded, Identities
<1>9. Announced(d)
  <2>1. ASSUME NEW i
        PROVE  i \in RS!Added(d.out) <=> i # 0 /\ \E j \in Keys : d.items[j].index = i
    <3>1. i \in RS!Added(c.out) <=> i # 0 /\ \E j \in Keys : c.items[j].index = i
      BY DEF Running, Recorded, Announced
    <3>2. c.nextIndex # 0
      BY <1>1
    <3> QED BY <1>3, <1>4, <3>1, <3>2
  <2>2. ASSUME NEW n \in RS!Events(d.out, "added"), NEW j \in Keys,
               d.out[n].index = d.items[j].index
        PROVE  d.out[n].kind = KindOf(j, d.items[j]) /\ d.out[n].id = IdOf(j, d.items[j])
    <3>1. /\ RS!Events(d.out, "added") = RS!Events(c.out, "added") \cup {Len(c.out) + 1}
          /\ \A m \in RS!Events(c.out, "added") : d.out[m] = c.out[m]
          /\ d.out[Len(c.out) + 1] = e
      BY <1>1, <1>2, EventsGrow
    <3>2. CASE n = Len(c.out) + 1
      <4>1. d.items[j].index = c.nextIndex
        BY <1>2, <2>2, <3>1, <3>2
      <4>2. j = k
        BY <1>1, <1>3, <4>1
      <4> QED BY <1>2, <3>1, <3>2, <4>2
    <3>3. CASE n \in RS!Events(c.out, "added")
      <4>1. d.out[n] = c.out[n]
        BY <3>1, <3>3
      <4>2. c.out[n].index \in RS!Added(c.out)
        BY <3>3 DEF RS!Added
      <4>3. \E i \in Keys : c.items[i].index = c.out[n].index
        BY <4>2 DEF Running, Recorded, Announced
      <4>4. d.items[j].index < c.nextIndex
        BY <1>1, <2>2, <4>1, <4>3
      <4>5. j # k
        BY <1>1, <4>4
      <4>6. d.items[j] = c.items[j]
        BY <1>3, <4>5
      <4>7. c.out[n].index = c.items[j].index
        BY <2>2, <4>1, <4>6
      <4>8. c.out[n].kind = KindOf(j, c.items[j]) /\ c.out[n].id = IdOf(j, c.items[j])
        BY <3>3, <4>7 DEF Running, Recorded, Announced
      <4> QED BY <4>1, <4>6, <4>8
    <3> QED BY <2>2, <3>1, <3>2, <3>3
  <2> QED BY <2>1, <2>2 DEF Announced
<1>10. Concluded(d)
  <2>1. ~ c.items[k].done
    BY DEF Running, Recorded, Identities
  <2>2. \A i : (\E j \in Keys : d.items[j].done /\ d.items[j].index = i) <=>
               (\E j \in Keys : c.items[j].done /\ c.items[j].index = i)
    BY <1>3, <2>1
  <2>3. Concluded(c)
    BY DEF Running, Recorded
  <2>4. /\ RS!Done(d.out) = RS!Done(c.out) /\ DoneItems(d.out) = DoneItems(c.out)
        /\ d.outputItems = c.outputItems
    BY <1>4
  <2> QED BY ONLY <2>2, <2>3, <2>4 DEF Concluded
<1>11. Untold(d)
  <2>1. \A i \in Nat : i >= d.nextIndex => i >= c.nextIndex
    BY <1>1
  <2> QED BY <1>5, <2>1 DEF Running, Recorded, Untold
<1>12. Bounded(d)
  <2>1. d.out # <<>>
    BY <1>1, <1>2, AppendedNotEmpty
  <2> QED BY <1>3, <1>4, <2>1 DEF Running, Recorded, Bounded
<1>13. RS!Assembled(d.out, d.items[k].index) = <<>>
  <2>1. c.nextIndex >= c.nextIndex
    BY <1>1
  <2> QED BY <1>1, <1>5, <2>1 DEF Running, Recorded, Untold
<1>14. \A j \in Keys \ {k} : Told(c, j) => Told(d, j)
  BY <1>3, <1>5 DEF Told
<1> QED BY <1>1, <1>3, <1>6, <1>7, <1>8, <1>9, <1>10, <1>11, <1>12, <1>13, <1>14 DEF Running, Recorded, OthersTold

(* An item keeps its place and, once it is announced, its identity. *)
SameItem(c, d, k) ==
  /\ OnlyItem(c, d, k)
  /\ d.items[k].index = c.items[k].index
  /\ IF c.items[k].index = 0
     THEN /\ ~ d.items[k].done
          /\ d.items[k].call = NoCall /\ d.items[k].name = NoName
          /\ k \in Texts => d.items[k].text = <<>>
     ELSE /\ d.items[k].known = c.items[k].known /\ d.items[k].id = c.items[k].id
          /\ d.items[k].call = c.items[k].call /\ d.items[k].name = c.items[k].name
  /\ d.nextIndex = c.nextIndex

LEMMA SameItemFacts ==
  ASSUME NEW c, Recorded(c), NEW k \in Keys, NEW d, SameItem(c, d, k)
  PROVE  /\ Numbered(d) /\ Identities(d)
         /\ \A j \in Keys : d.items[j].index = c.items[j].index
         /\ c.items[k].index # 0 =>
              KindOf(k, d.items[k]) = KindOf(k, c.items[k])
              /\ IdOf(k, d.items[k]) = IdOf(k, c.items[k])
              /\ (Streamed(k, d.items[k]) <=> Streamed(k, c.items[k]))
         /\ \A j \in Keys : c.items[j].index # 0 =>
              KindOf(j, d.items[j]) = KindOf(j, c.items[j])
              /\ IdOf(j, d.items[j]) = IdOf(j, c.items[j])
<1>1. /\ \A j \in Keys \ {k} : d.items[j] = c.items[j]
      /\ d.items[k].index = c.items[k].index
      /\ d.nextIndex = c.nextIndex
  BY DEF SameItem, OnlyItem, OthersSame
<1>2. \A j \in Keys : d.items[j].index = c.items[j].index
  BY <1>1
<1>3. Numbered(d)
  BY <1>1, <1>2 DEF Recorded, Numbered
<1>4. c.items[k].index # 0 =>
              KindOf(k, d.items[k]) = KindOf(k, c.items[k])
              /\ IdOf(k, d.items[k]) = IdOf(k, c.items[k])
              /\ (Streamed(k, d.items[k]) <=> Streamed(k, c.items[k]))
  BY DEF SameItem, KindOf, IdOf, Streamed
<1>5. Identities(d)
  <2>1. ASSUME NEW j \in Keys \ {k}
        PROVE  IF d.items[j].index = 0
               THEN /\ ~ d.items[j].done
                    /\ d.items[j].call = NoCall /\ d.items[j].name = NoName
                    /\ j \in Texts => d.items[j].text = <<>>
               ELSE /\ j \notin Texts => d.items[j].known
                    /\ Streamed(j, d.items[j]) => d.items[j].id = IdOf(j, d.items[j])
    BY <1>1 DEF Recorded, Identities
  <2>2. IF d.items[k].index = 0
        THEN /\ ~ d.items[k].done
             /\ d.items[k].call = NoCall /\ d.items[k].name = NoName
             /\ k \in Texts => d.items[k].text = <<>>
        ELSE /\ k \notin Texts => d.items[k].known
             /\ Streamed(k, d.items[k]) => d.items[k].id = IdOf(k, d.items[k])
    <3>1. CASE c.items[k].index = 0
      BY <1>1, <3>1 DEF SameItem
    <3>2. CASE c.items[k].index # 0
      <4>1. /\ k \notin Texts => c.items[k].known
            /\ Streamed(k, c.items[k]) => c.items[k].id = IdOf(k, c.items[k])
        BY <3>2 DEF Recorded, Identities
      <4>2. d.items[k].known = c.items[k].known /\ d.items[k].id = c.items[k].id
        BY <3>2 DEF SameItem
      <4> QED BY <1>1, <1>4, <3>2, <4>1, <4>2
    <3> QED BY <3>1, <3>2
  <2> QED BY <2>1, <2>2 DEF Identities
<1>6. ASSUME NEW j \in Keys, c.items[j].index # 0
      PROVE  KindOf(j, d.items[j]) = KindOf(j, c.items[j])
             /\ IdOf(j, d.items[j]) = IdOf(j, c.items[j])
  BY <1>1, <1>4, <1>6
<1> QED BY <1>2, <1>3, <1>4, <1>5, <1>6

(* What the announcements say stays true of items that keep their identity. *)
LEMMA StillAnnounced ==
  ASSUME NEW c, Recorded(c), NEW k \in Keys, NEW d, SameItem(c, d, k),
         RS!Added(d.out) = RS!Added(c.out),
         RS!Events(d.out, "added") = RS!Events(c.out, "added"),
         \A n \in RS!Events(c.out, "added") : d.out[n] = c.out[n]
  PROVE  Announced(d)
<1>1. /\ \A j \in Keys : d.items[j].index = c.items[j].index
      /\ \A j \in Keys : c.items[j].index # 0 =>
           KindOf(j, d.items[j]) = KindOf(j, c.items[j])
           /\ IdOf(j, d.items[j]) = IdOf(j, c.items[j])
  BY SameItemFacts
<1>2. \A i : i \in RS!Added(d.out) <=> i # 0 /\ \E j \in Keys : d.items[j].index = i
  BY <1>1 DEF Recorded, Announced
<1>3. ASSUME NEW n \in RS!Events(d.out, "added"), NEW j \in Keys,
             d.out[n].index = d.items[j].index
      PROVE  d.out[n].kind = KindOf(j, d.items[j]) /\ d.out[n].id = IdOf(j, d.items[j])
  <2>1. n \in RS!Events(c.out, "added") /\ d.out[n] = c.out[n]
    OBVIOUS
  <2>2. c.out[n].index = c.items[j].index
    BY <1>1, <1>3, <2>1
  <2>3. c.out[n].index \in RS!Added(c.out)
    BY <2>1 DEF RS!Added
  <2>4. c.items[j].index # 0
    BY <2>2, <2>3 DEF Recorded, Announced
  <2>5. c.out[n].kind = KindOf(j, c.items[j]) /\ c.out[n].id = IdOf(j, c.items[j])
    BY <2>1, <2>2 DEF Recorded, Announced
  <2> QED BY <1>1, <2>1, <2>4, <2>5
<1> QED BY <1>2, <1>3 DEF Announced

(* An item that was announced and is not done is open under its identity. *)
LEMMA ItsItemIsOpen ==
  ASSUME NEW c, Running(c), NEW k \in Keys, c.items[k].index # 0, ~ c.items[k].done, NEW e,
         e.index = c.items[k].index, e.id = IdOf(k, c.items[k])
  PROVE  /\ RS!IsOpen(c.out, e)
         /\ RS!Announcement(c.out, e.index).kind = KindOf(k, c.items[k])
         /\ ~ RS!Over(c.out) /\ c.out # <<>>
<1>1. e.index \in RS!Added(c.out)
  BY DEF Running, Recorded, Announced
<1>2. e.index \notin RS!Done(c.out)
  <2>1. ASSUME NEW j \in Keys, c.items[j].done, c.items[j].index = e.index
        PROVE  FALSE
    <3>1. j = k
      BY <2>1 DEF Running, Recorded, Numbered
    <3> QED BY <2>1, <3>1
  <2>2. e.index \in RS!Done(c.out) =>
          \E j \in Keys : c.items[j].done /\ c.items[j].index = e.index
    BY DEF Running, Recorded, Concluded
  <2> QED BY <2>1, <2>2
<1>3. PICK n \in RS!Events(c.out, "added") :
        c.out[n].index = e.index /\ RS!Announcement(c.out, e.index) = c.out[n]
  BY <1>1, AnnouncementIs
<1>4. c.out[n].kind = KindOf(k, c.items[k]) /\ c.out[n].id = IdOf(k, c.items[k])
  <2>1. c.out[n].index = c.items[k].index
    BY <1>3
  <2> QED BY <2>1 DEF Running, Recorded, Announced
<1>5. ~ RS!Over(c.out) /\ c.out # <<>>
  BY DEF Running, Recorded, Bounded
<1> QED BY <1>1, <1>2, <1>3, <1>4, <1>5 DEF RS!IsOpen

(* An item changes and nothing is written. *)
LEMMA Quiet ==
  ASSUME NEW c, Running(c), NEW k \in Keys, NEW d, SameItem(c, d, k),
         d.items[k].done = c.items[k].done,
         d.outputItems = c.outputItems, d.out = c.out
  PROVE  /\ Running(d)
         /\ OthersTold(c, d, k)
<1>1. /\ Formed(d) /\ Formed(c) /\ c.started /\ ~ c.completed /\ d.started /\ ~ d.completed
      /\ \A j \in Keys \ {k} : d.items[j] = c.items[j]
      /\ d.nextIndex = c.nextIndex
  BY DEF Running, Recorded, SameItem, OnlyItem, OthersSame
<1>2. /\ Numbered(d) /\ Identities(d)
      /\ \A j \in Keys : d.items[j].index = c.items[j].index
  BY SameItemFacts DEF Running
<1>3. Announced(d)
  BY StillAnnounced DEF Running
<1>4. Concluded(d)
  <2>1. \A j \in Keys : d.items[j].done = c.items[j].done
    BY <1>1
  <2> QED BY <1>2, <2>1 DEF Running, Recorded, Concluded
<1>5. Untold(d) /\ Bounded(d)
  BY <1>1 DEF Running, Recorded, Untold, Bounded
<1>6. \A j \in Keys \ {k} : Told(c, j) => Told(d, j)
  BY <1>1 DEF Told
<1> QED BY <1>1, <1>2, <1>3, <1>4, <1>5, <1>6 DEF Running, Recorded, OthersTold

(* An item gets a delta. *)
Joined(text, piece) == text \o piece
Longer(c, d, k, piece) ==
  RS!Assembled(d.out, c.items[k].index) = Joined(RS!Assembled(c.out, c.items[k].index), piece)

LEMMA Deliver ==
  ASSUME NEW c, Running(c), NEW k \in Keys, c.items[k].index # 0, ~ c.items[k].done,
         NEW d, SameItem(c, d, k), ~ d.items[k].done, d.outputItems = c.outputItems,
         NEW piece, piece # <<>>,
         d.out = Append(c.out, [type |-> "delta", index |-> c.items[k].index,
                                id |-> IdOf(k, c.items[k]), piece |-> piece])
  PROVE  /\ Running(d) /\ Grows(c.out, d.out)
         /\ OthersTold(c, d, k)
         /\ Longer(c, d, k, piece)
<1> DEFINE e == [type |-> "delta", index |-> c.items[k].index,
                 id |-> IdOf(k, c.items[k]), piece |-> piece]
<1>1. /\ e.type = "delta" /\ e.index = c.items[k].index
      /\ e.id = IdOf(k, c.items[k]) /\ e.piece = piece
      /\ d.out = Append(c.out, e)
  OBVIOUS
<1> HIDE DEF e
<1>2. /\ Formed(d) /\ Formed(c) /\ c.started /\ ~ c.completed /\ d.started /\ ~ d.completed
      /\ \A j \in Keys \ {k} : d.items[j] = c.items[j]
      /\ d.nextIndex = c.nextIndex /\ Log(c.out)
      /\ c.nextIndex \in Nat /\ \A j \in Keys : c.items[j].index \in Nat
  BY DEF Running, Recorded, SameItem, OnlyItem, OthersSame, Formed, IsItem
<1>3. /\ Numbered(d) /\ Identities(d)
      /\ \A j \in Keys : d.items[j].index = c.items[j].index
  BY SameItemFacts DEF Running
<1>4. RS!Added(d.out) = RS!Added(c.out)
  <2>1. e.type # "added" /\ d.out = Append(c.out, e) /\ Log(c.out)
    BY <1>1, <1>2
  <2>2. /\ RS!Added(Append(c.out, e)) = RS!Added(c.out)
        /\ RS!Events(Append(c.out, e), "added") = RS!Events(c.out, "added")
        /\ \A n \in RS!Events(c.out, "added") : Append(c.out, e)[n] = c.out[n]
    BY ONLY <2>1, NothingAnnounced
  <2> QED BY <2>1, <2>2
<1>5. RS!Done(d.out) = RS!Done(c.out)
  <2>1. /\ e.type = "delta" /\ d.out = Append(c.out, e) /\ Log(c.out)
        /\ e.index = c.items[k].index
    BY <1>1, <1>2
  <2>2. RS!Done(Append(c.out, e)) = RS!Done(c.out)
          \cup (IF e.type = "done" THEN {e.index} ELSE {})
    BY <2>1, DoneGrows
  <2> QED BY <2>1, <2>2
<1>6. DoneItems(d.out) = DoneItems(c.out)
  <2>1. /\ e.type = "delta" /\ d.out = Append(c.out, e) /\ Log(c.out)
    BY <1>1, <1>2
  <2>2. DoneItems(Append(c.out, e)) = DoneItems(c.out)
          \cup (IF e.type = "done" THEN {[index |-> e.index, content |-> e.content]} ELSE {})
    BY <2>1, DoneItemsGrow
  <2> QED BY <1>1, <2>1, <2>2
<1>7. RS!Over(d.out) <=> RS!Over(c.out)
  BY <1>1, <1>2, OverGrows
<1>8. /\ RS!Events(d.out, "added") = RS!Events(c.out, "added")
      /\ \A n \in RS!Events(c.out, "added") : d.out[n] = c.out[n]
  <2>1. e.type # "added" /\ d.out = Append(c.out, e) /\ Log(c.out)
    BY <1>1, <1>2
  <2>2. /\ RS!Added(Append(c.out, e)) = RS!Added(c.out)
        /\ RS!Events(Append(c.out, e), "added") = RS!Events(c.out, "added")
        /\ \A n \in RS!Events(c.out, "added") : Append(c.out, e)[n] = c.out[n]
    BY ONLY <2>1, NothingAnnounced
  <2> QED BY <2>1, <2>2
<1>9. /\ RS!Assembled(d.out, c.items[k].index)
           = RS!Assembled(c.out, c.items[k].index) \o piece
      /\ \A i : i # c.items[k].index => RS!Assembled(d.out, i) = RS!Assembled(c.out, i)
  <2>1. e.type = "delta" /\ d.out = Append(c.out, e) /\ Log(c.out)
    BY <1>1, <1>2
  <2>2. \A i : RS!Assembled(Append(c.out, e), i)
          = IF e.type = "delta" /\ e.index = i THEN RS!Assembled(c.out, i) \o e.piece
            ELSE RS!Assembled(c.out, i)
    BY <2>1, AssembledGrows
  <2> QED BY <1>1, <2>1, <2>2
<1>10. Grows(c.out, d.out)
  <2>1. RS!Legal(c.out, e)
    <3>1. RS!IsOpen(c.out, e) /\ ~ RS!Over(c.out) /\ c.out # <<>>
      BY <1>1, ItsItemIsOpen
    <3> QED BY <1>1, <3>1 DEF RS!Legal
  <2> QED BY <1>1, <1>2, <2>1, GrowsByOne
<1>11. Announced(d)
  BY <1>4, <1>8, StillAnnounced DEF Running
<1>12. Concluded(d)
  <2>1. \A j \in Keys : d.items[j].done <=> c.items[j].done
    BY <1>2
  <2>2. Concluded(c)
    BY DEF Running, Recorded
  <2>3. d.outputItems = c.outputItems
    OBVIOUS
  <2> QED BY ONLY <1>3, <1>5, <1>6, <2>1, <2>2, <2>3 DEF Concluded
<1>13. Untold(d)
  <2>1. c.items[k].index < c.nextIndex
    BY DEF Running, Recorded, Numbered
  <2>2. \A i \in Nat : i >= c.nextIndex => i # c.items[k].index
    BY <1>2, <2>1
  <2> QED BY <1>2, <1>9, <2>2 DEF Running, Recorded, Untold
<1>14. Bounded(d)
  <2>1. d.out # <<>>
    BY <1>1, <1>2, AppendedNotEmpty
  <2> QED BY <1>2, <1>7, <2>1 DEF Running, Recorded, Bounded
<1>15. ASSUME NEW j \in Keys \ {k}, Told(c, j) PROVE Told(d, j)
  <2>1. c.items[j].index # 0 => c.items[j].index # c.items[k].index
    BY DEF Running, Recorded, Numbered
  <2> QED BY <1>2, <1>9, <1>15, <2>1 DEF Told
<1> QED BY <1>2, <1>3, <1>9, <1>10, <1>11, <1>12, <1>13, <1>14, <1>15 DEF Running, Recorded, OthersTold, Joined, Longer

(* An item is done, with what its deltas made or all at once. *)
Fits(c, k, content) == RS!Assembled(c.out, c.items[k].index) \in {<<>>, content}

LEMMA Conclude ==
  ASSUME NEW c, Running(c), NEW k \in Keys, c.items[k].index # 0, ~ c.items[k].done,
         NEW d, SameItem(c, d, k), d.items[k].done,
         NEW content, Fits(c, k, content),
         d.outputItems = c.outputItems
           \cup {[index |-> c.items[k].index, content |-> content]},
         d.out = Append(c.out, [type |-> "done", index |-> c.items[k].index,
                                kind |-> KindOf(k, c.items[k]), id |-> IdOf(k, c.items[k]),
                                content |-> content])
  PROVE  /\ Running(d) /\ Grows(c.out, d.out)
         /\ OthersTold(c, d, k)
         /\ Told(d, k)
<1> DEFINE e == [type |-> "done", index |-> c.items[k].index,
                 kind |-> KindOf(k, c.items[k]), id |-> IdOf(k, c.items[k]),
                 content |-> content]
<1>1. /\ e.type = "done" /\ e.index = c.items[k].index /\ e.kind = KindOf(k, c.items[k])
      /\ e.id = IdOf(k, c.items[k]) /\ e.content = content
      /\ d.out = Append(c.out, e)
  OBVIOUS
<1> HIDE DEF e
<1>2. /\ Formed(d) /\ Formed(c) /\ c.started /\ ~ c.completed /\ d.started /\ ~ d.completed
      /\ \A j \in Keys \ {k} : d.items[j] = c.items[j]
      /\ d.nextIndex = c.nextIndex /\ Log(c.out)
  BY DEF Running, Recorded, SameItem, OnlyItem, OthersSame, Formed
<1>3. /\ Numbered(d) /\ Identities(d)
      /\ \A j \in Keys : d.items[j].index = c.items[j].index
  BY SameItemFacts DEF Running
<1>4. RS!Added(d.out) = RS!Added(c.out)
  <2>1. e.type # "added" /\ d.out = Append(c.out, e) /\ Log(c.out)
    BY <1>1, <1>2
  <2>2. /\ RS!Added(Append(c.out, e)) = RS!Added(c.out)
        /\ RS!Events(Append(c.out, e), "added") = RS!Events(c.out, "added")
        /\ \A n \in RS!Events(c.out, "added") : Append(c.out, e)[n] = c.out[n]
    BY ONLY <2>1, NothingAnnounced
  <2> QED BY <2>1, <2>2
<1>5. RS!Done(d.out) = RS!Done(c.out) \cup {c.items[k].index}
  <2>1. /\ e.type = "done" /\ d.out = Append(c.out, e) /\ Log(c.out)
        /\ e.index = c.items[k].index
    BY <1>1, <1>2
  <2>2. RS!Done(Append(c.out, e)) = RS!Done(c.out)
          \cup (IF e.type = "done" THEN {e.index} ELSE {})
    BY <2>1, DoneGrows
  <2> QED BY <2>1, <2>2
<1>6. DoneItems(d.out) = DoneItems(c.out)
        \cup {[index |-> c.items[k].index, content |-> content]}
  <2>1. /\ e.type = "done" /\ d.out = Append(c.out, e) /\ Log(c.out)
    BY <1>1, <1>2
  <2>2. DoneItems(Append(c.out, e)) = DoneItems(c.out)
          \cup (IF e.type = "done" THEN {[index |-> e.index, content |-> e.content]} ELSE {})
    BY <2>1, DoneItemsGrow
  <2> QED BY <1>1, <2>1, <2>2
<1>7. RS!Over(d.out) <=> RS!Over(c.out)
  BY <1>1, <1>2, OverGrows
<1>8. /\ RS!Events(d.out, "added") = RS!Events(c.out, "added")
      /\ \A n \in RS!Events(c.out, "added") : d.out[n] = c.out[n]
  <2>1. e.type # "added" /\ d.out = Append(c.out, e) /\ Log(c.out)
    BY <1>1, <1>2
  <2>2. /\ RS!Added(Append(c.out, e)) = RS!Added(c.out)
        /\ RS!Events(Append(c.out, e), "added") = RS!Events(c.out, "added")
        /\ \A n \in RS!Events(c.out, "added") : Append(c.out, e)[n] = c.out[n]
    BY ONLY <2>1, NothingAnnounced
  <2> QED BY <2>1, <2>2
<1>9. \A i : RS!Assembled(d.out, i) = RS!Assembled(c.out, i)
  <2>1. e.type = "done" /\ d.out = Append(c.out, e) /\ Log(c.out)
    BY <1>1, <1>2
  <2>2. \A i : RS!Assembled(Append(c.out, e), i)
          = IF e.type = "delta" /\ e.index = i THEN RS!Assembled(c.out, i) \o e.piece
            ELSE RS!Assembled(c.out, i)
    BY <2>1, AssembledGrows
  <2> QED BY <1>1, <2>1, <2>2
<1>10. Grows(c.out, d.out)
  <2>1. RS!Legal(c.out, e)
    <3>1. RS!IsOpen(c.out, e) /\ ~ RS!Over(c.out) /\ c.out # <<>>
          /\ e.kind = RS!Announcement(c.out, e.index).kind
      BY <1>1, ItsItemIsOpen
    <3>2. RS!Assembled(c.out, e.index) \in {<<>>, e.content}
      BY <1>1 DEF Fits
    <3> QED BY <1>1, <3>1, <3>2 DEF RS!Legal
  <2> QED BY <1>1, <1>2, <2>1, GrowsByOne
<1>11. Announced(d)
  BY <1>4, <1>8, StillAnnounced DEF Running
<1>12. Concluded(d)
  <2>1. ASSUME NEW i
        PROVE  (\E j \in Keys : d.items[j].done /\ d.items[j].index = i) <=>
                 \/ \E j \in Keys : c.items[j].done /\ c.items[j].index = i
                 \/ i = c.items[k].index
    <3>1. CASE i = c.items[k].index
      BY <1>3, <3>1 DEF SameItem
    <3>2. CASE i # c.items[k].index
      BY <1>2, <1>3, <3>2
    <3> QED BY <3>1, <3>2
  <2>2. \A i : i \in RS!Done(c.out) <=>
                 \E j \in Keys : c.items[j].done /\ c.items[j].index = i
    BY DEF Running, Recorded, Concluded
  <2>3. \A i : i \in RS!Done(d.out) <=>
                 \E j \in Keys : d.items[j].done /\ d.items[j].index = i
    BY <1>5, <2>1, <2>2
  <2>4. d.outputItems = DoneItems(d.out)
    BY <1>6 DEF Running, Recorded, Concluded
  <2> QED BY <2>3, <2>4 DEF Concluded
<1>13. Untold(d)
  BY <1>2, <1>9 DEF Running, Recorded, Untold
<1>14. Bounded(d)
  <2>1. d.out # <<>>
    BY <1>1, <1>2, AppendedNotEmpty
  <2> QED BY <1>2, <1>7, <2>1 DEF Running, Recorded, Bounded
<1>15. (\A j \in Keys \ {k} : Told(c, j) => Told(d, j)) /\ Told(d, k)
  BY <1>2, <1>9 DEF Told
<1> QED BY <1>2, <1>3, <1>10, <1>11, <1>12, <1>13, <1>14, <1>15 DEF Running, Recorded, OthersTold

-----------------------------------------------------------------------------
(* What the converter's smallest steps leave *)

(* d differs from c in the named fields only. *)
SameFlags(c, d) ==
  /\ d.started = c.started /\ d.completed = c.completed /\ d.failed = c.failed
SameMode(c, d) == d.mode = c.mode /\ d.think = c.think

IsConverter(c) ==
  c = [started |-> c.started, completed |-> c.completed, failed |-> c.failed,
       nextIndex |-> c.nextIndex, items |-> c.items, mode |-> c.mode, think |-> c.think,
       outputItems |-> c.outputItems, finishReason |-> c.finishReason, out |-> c.out]

(* Formed, of a converter that got a new item k. *)
LEMMA FormedOn ==
  ASSUME NEW c, Formed(c), NEW k \in Keys, NEW d, IsConverter(d),
         SameFlags(c, d), d.mode = c.mode, Log(d.think),
         d.nextIndex \in Nat, Log(d.out),
         NEW it, IsItem(it), k \notin Texts => Log(it.text), d.items = [c.items EXCEPT ![k] = it]
  PROVE  Formed(d) /\ d.items[k] = it /\ OthersSame(c, d, k)
<1>1. c.items = [j \in Keys |-> c.items[j]]
  BY DEF Formed
<1>2. d.items = [j \in Keys |-> d.items[j]] /\ d.items[k] = it
      /\ \A j \in Keys \ {k} : d.items[j] = c.items[j]
  BY <1>1
<1>3. \A j \in Keys : IsItem(d.items[j]) /\ (j \notin Texts => Log(d.items[j].text))
  BY <1>2 DEF Formed
<1> QED BY <1>2, <1>3 DEF Formed, SameFlags, IsConverter, OthersSame

LEMMA ItemPlaced ==
  ASSUME NEW o, IsItem(o), NEW n \in Nat, NEW id
  PROVE  /\ IsItem([o EXCEPT !.index = n, !.id = id])
         /\ [o EXCEPT !.index = n, !.id = id].text = o.text
<1>1. SUFFICES ASSUME NEW p, p = [o EXCEPT !.index = n, !.id = id] PROVE IsItem(p) /\ p.text = o.text
  OBVIOUS
<1>2. p = [known |-> p.known, index |-> p.index, done |-> p.done, text |-> p.text,
           call |-> p.call, name |-> p.name, id |-> p.id]
  BY <1>1 DEF IsItem
<1>3. p.known = o.known /\ p.index = n /\ p.done = o.done /\ p.text = o.text
  BY <1>1 DEF IsItem
<1> QED BY <1>2, <1>3 DEF IsItem

LEMMA AddItemIs ==
  ASSUME NEW c, Formed(c), NEW k \in Keys, NEW kind, NEW id, NEW d, d = AddItem(c, k, kind, id)
  PROVE  /\ Formed(d) /\ SameFlags(c, d) /\ SameMode(c, d)
         /\ d.items[k].index = c.nextIndex /\ d.items[k].id = id
         /\ d.items[k].known = c.items[k].known /\ d.items[k].done = c.items[k].done
         /\ d.items[k].text = c.items[k].text
         /\ d.items[k].call = c.items[k].call /\ d.items[k].name = c.items[k].name
         /\ OthersSame(c, d, k)
         /\ d.nextIndex = c.nextIndex + 1 /\ d.outputItems = c.outputItems
         /\ d.out = Append(c.out, [type |-> "added", index |-> c.nextIndex, kind |-> kind,
                                   id |-> id])
<1> DEFINE e == [type |-> "added", index |-> c.nextIndex, kind |-> kind, id |-> id]
           it == [c.items[k] EXCEPT !.index = c.nextIndex, !.id = id]
<1>1. /\ IsConverter(c) /\ c.nextIndex \in Nat /\ Log(c.out) /\ Log(c.think)
      /\ IsItem(c.items[k]) /\ (k \notin Texts => Log(c.items[k].text))
      /\ c.items = [j \in Keys |-> c.items[j]]
  BY DEF Formed, IsConverter
<1>2. IsItem(it) /\ (k \notin Texts => Log(it.text))
  BY <1>1, ItemPlaced
<1> HIDE DEF it, e
<1>3. d.items[k] = it
  BY <1>1 DEF AddItem, Write, IsConverter, it
<1>4. \A j \in Keys \ {k} : d.items[j] = c.items[j]
  BY <1>1 DEF AddItem, Write, IsConverter
<1>5. d.items = [c.items EXCEPT ![k] = it]
  BY <1>1 DEF AddItem, Write, IsConverter, it
<1>6. SameFlags(c, d) /\ SameMode(c, d) /\ d.outputItems = c.outputItems
  BY <1>1 DEF AddItem, Write, IsConverter, SameFlags, SameMode
<1>7. d.nextIndex = c.nextIndex + 1
  BY <1>1 DEF AddItem, Write, IsConverter
<1>8. d.out = Append(c.out, e)
  BY <1>1 DEF AddItem, Write, IsConverter, e
<1>9. IsConverter(d)
  BY <1>1 DEF AddItem, Write, IsConverter
<1>10. Formed(d)
  <2>1. c.nextIndex + 1 \in Nat /\ Log(d.out) /\ Log(d.think)
    BY <1>1, <1>6, <1>8, LogAppend DEF SameMode
  <2> QED BY <1>2, <1>5, <1>6, <1>7, <1>9, <2>1, FormedOn DEF SameMode
<1>11. /\ it.index = c.nextIndex /\ it.id = id /\ it.known = c.items[k].known
       /\ it.done = c.items[k].done /\ it.text = c.items[k].text
       /\ it.call = c.items[k].call /\ it.name = c.items[k].name
  BY <1>1 DEF it, IsItem
<1> QED BY <1>3, <1>4, <1>6, <1>7, <1>8, <1>10, <1>11 DEF e, OthersSame

LEMMA WriteIs ==
  ASSUME NEW c, Formed(c), NEW e, NEW d, d = Write(c, e)
  PROVE  /\ Formed(d) /\ SameFlags(c, d) /\ SameMode(c, d)
         /\ d.items = c.items
         /\ d.nextIndex = c.nextIndex /\ d.outputItems = c.outputItems
         /\ d.out = Append(c.out, e)
<1>1. IsConverter(c) /\ Log(c.out)
  BY DEF Formed, IsConverter
<1>2. /\ IsConverter(d) /\ SameFlags(c, d) /\ SameMode(c, d)
      /\ d.items = c.items
      /\ d.nextIndex = c.nextIndex /\ d.outputItems = c.outputItems
      /\ d.out = Append(c.out, e)
  BY <1>1 DEF Write, IsConverter, SameFlags, SameMode
<1>3. Log(d.out)
  BY <1>1, <1>2, LogAppend
<1>4. Formed(d)
  BY <1>2, <1>3 DEF Formed, IsConverter, SameFlags, SameMode
<1> QED BY <1>2, <1>4

LEMMA WriteDoneIs ==
  ASSUME NEW c, Formed(c), NEW k \in Keys, NEW kind, NEW id, NEW content,
         NEW d, d = WriteDone(c, k, kind, id, content)
  PROVE  /\ Formed(d) /\ SameFlags(c, d) /\ SameMode(c, d)
         /\ d.items[k].index = c.items[k].index /\ d.items[k].id = c.items[k].id
         /\ d.items[k].known = c.items[k].known /\ d.items[k].done
         /\ d.items[k].text = c.items[k].text
         /\ d.items[k].call = c.items[k].call /\ d.items[k].name = c.items[k].name
         /\ OthersSame(c, d, k)
         /\ d.nextIndex = c.nextIndex
         /\ d.outputItems = c.outputItems
              \cup {[index |-> c.items[k].index, content |-> content]}
         /\ d.out = Append(c.out, [type |-> "done", index |-> c.items[k].index, kind |-> kind,
                                   id |-> id, content |-> content])
<1> DEFINE e == [type |-> "done", index |-> c.items[k].index, kind |-> kind,
                 id |-> id, content |-> content]
           i == [index |-> c.items[k].index, content |-> content]
           it == [c.items[k] EXCEPT !.done = TRUE]
<1>1. /\ IsConverter(c) /\ c.nextIndex \in Nat /\ Log(c.out) /\ Log(c.think)
      /\ IsItem(c.items[k]) /\ (k \notin Texts => Log(c.items[k].text))
      /\ c.items = [j \in Keys |-> c.items[j]]
  BY DEF Formed, IsConverter
<1>2. IsItem(it) /\ it.text = c.items[k].text
  <2>1. SUFFICES ASSUME NEW p, p = it PROVE IsItem(p) /\ p.text = c.items[k].text
    OBVIOUS
  <2>2. p = [known |-> p.known, index |-> p.index, done |-> p.done, text |-> p.text,
             call |-> p.call, name |-> p.name, id |-> p.id]
    BY <1>1, <2>1 DEF IsItem
  <2>3. p.known = c.items[k].known /\ p.index = c.items[k].index /\ p.done = TRUE
        /\ p.text = c.items[k].text
    BY <1>1, <2>1 DEF IsItem
  <2> QED BY <1>1, <2>2, <2>3 DEF IsItem
<1> HIDE DEF it, e, i
<1>3. d.items[k] = it
  BY <1>1 DEF WriteDone, Write, IsConverter, it
<1>4. \A j \in Keys \ {k} : d.items[j] = c.items[j]
  BY <1>1 DEF WriteDone, Write, IsConverter
<1>5. d.items = [c.items EXCEPT ![k] = it]
  BY <1>1 DEF WriteDone, Write, IsConverter, it
<1>6. SameFlags(c, d) /\ SameMode(c, d) /\ d.nextIndex = c.nextIndex
  BY <1>1 DEF WriteDone, Write, IsConverter, SameFlags, SameMode
<1>7. d.outputItems = c.outputItems \cup {i}
  BY <1>1 DEF WriteDone, Write, IsConverter, i
<1>8. d.out = Append(c.out, e)
  BY <1>1 DEF WriteDone, Write, IsConverter, e
<1>9. IsConverter(d)
  BY <1>1 DEF WriteDone, Write, IsConverter
<1>10. Formed(d)
  <2>1. Log(d.out) /\ Log(d.think)
    BY <1>1, <1>6, <1>8, LogAppend DEF SameMode
  <2> QED BY <1>1, <1>2, <1>5, <1>6, <1>9, <2>1, FormedOn DEF SameMode
<1>11. /\ it.index = c.items[k].index /\ it.id = c.items[k].id /\ it.known = c.items[k].known
       /\ it.done = TRUE /\ it.text = c.items[k].text
       /\ it.call = c.items[k].call /\ it.name = c.items[k].name
  BY <1>1 DEF it, IsItem
<1> QED BY <1>3, <1>4, <1>6, <1>7, <1>8, <1>10, <1>11 DEF e, i, OthersSame

(* Item k gets more text. *)
WithText(c, k, piece) == [c EXCEPT !.items[k].text = @ \o piece]

LEMMA TextAdded ==
  ASSUME NEW c, Formed(c), NEW k \in Keys, NEW piece, k \notin Texts => Log(piece),
         NEW d, d = WithText(c, k, piece)
  PROVE  /\ Formed(d) /\ SameFlags(c, d) /\ SameMode(c, d)
         /\ d.items[k].index = c.items[k].index /\ d.items[k].id = c.items[k].id
         /\ d.items[k].known = c.items[k].known /\ d.items[k].done = c.items[k].done
         /\ d.items[k].text = Joined(c.items[k].text, piece)
         /\ d.items[k].call = c.items[k].call /\ d.items[k].name = c.items[k].name
         /\ OthersSame(c, d, k)
         /\ d.nextIndex = c.nextIndex /\ d.outputItems = c.outputItems
         /\ d.out = c.out
<1> DEFINE text == c.items[k].text \o piece
           it == [c.items[k] EXCEPT !.text = text]
<1>1. /\ IsConverter(c) /\ c.nextIndex \in Nat /\ Log(c.out) /\ Log(c.think)
      /\ IsItem(c.items[k]) /\ (k \notin Texts => Log(c.items[k].text))
      /\ c.items = [j \in Keys |-> c.items[j]]
  BY DEF Formed, IsConverter
<1>2. k \notin Texts => Log(text)
  BY <1>1, LogJoined
<1>3. d = [c EXCEPT !.items[k].text = text]
  BY DEF WithText
<1> HIDE DEF text
<1>4. IsItem(it) /\ it.text = text
  <2>1. SUFFICES ASSUME NEW p, p = it PROVE IsItem(p) /\ p.text = text
    OBVIOUS
  <2>2. p = [known |-> p.known, index |-> p.index, done |-> p.done, text |-> p.text,
             call |-> p.call, name |-> p.name, id |-> p.id]
    BY <1>1, <2>1 DEF IsItem
  <2>3. p.known = c.items[k].known /\ p.index = c.items[k].index
        /\ p.done = c.items[k].done /\ p.text = text
    BY <1>1, <2>1 DEF IsItem
  <2> QED BY <1>1, <2>2, <2>3 DEF IsItem
<1> HIDE DEF it
<1>5. d.items[k] = it /\ \A j \in Keys \ {k} : d.items[j] = c.items[j]
  BY <1>1, <1>3 DEF IsConverter, it
<1>6. d.items = [c.items EXCEPT ![k] = it]
  BY <1>1, <1>3 DEF IsConverter, it
<1>7. /\ SameFlags(c, d) /\ SameMode(c, d) /\ d.nextIndex = c.nextIndex
      /\ d.outputItems = c.outputItems /\ d.out = c.out
  BY <1>1, <1>3 DEF IsConverter, SameFlags, SameMode
<1>8. IsConverter(d)
  BY <1>1, <1>3 DEF IsConverter
<1>9. Formed(d)
  <2>1. /\ Log(d.think) /\ d.mode = c.mode /\ Log(d.out) /\ d.nextIndex \in Nat
        /\ (k \notin Texts => Log(it.text))
    BY <1>1, <1>2, <1>4, <1>7 DEF SameMode
  <2>2. IsItem(it) /\ IsConverter(d) /\ SameFlags(c, d) /\ d.items = [c.items EXCEPT ![k] = it]
    BY <1>4, <1>6, <1>7, <1>8
  <2> QED BY <2>1, <2>2, FormedOn
<1>10. /\ it.index = c.items[k].index /\ it.id = c.items[k].id
       /\ it.known = c.items[k].known /\ it.done = c.items[k].done
       /\ it.call = c.items[k].call /\ it.name = c.items[k].name
  BY <1>1 DEF it, IsItem
<1> QED BY <1>4, <1>5, <1>7, <1>9, <1>10 DEF text, OthersSame, Joined

-----------------------------------------------------------------------------
(* Steps of the converter: the log grows legally, and of the items only those *)
(* in K change.                                                               *)

Whole(c) == Recorded(c) /\ \A k \in Keys : Told(c, k)

Going(c) == Whole(c) /\ c.started /\ ~ c.completed

Step(c, d, K) ==
  /\ Going(d) /\ SameFlags(c, d) /\ Grows(c.out, d.out)
  /\ \A k \in Keys \ K : d.items[k] = c.items[k]

LEMMA GoingFacts ==
  ASSUME NEW c, Going(c)
  PROVE  /\ Running(c) /\ Recorded(c) /\ Formed(c) /\ Log(c.out) /\ Grows(c.out, c.out)
         /\ \A k \in Keys : Told(c, k) /\ IsItem(c.items[k])
BY GrowsSelf DEF Going, Whole, Running, Recorded, Formed

LEMMA StepSelf ==
  ASSUME NEW c, Going(c), NEW K
  PROVE  Step(c, c, K)
BY GoingFacts DEF Step, SameFlags

LEMMA StepOn ==
  ASSUME NEW b, NEW c, NEW d, NEW K, Step(b, c, K), Step(c, d, K)
  PROVE  Step(b, d, K)
<1>1. Grows(b.out, d.out)
  BY GrowsOn DEF Step
<1> QED BY <1>1 DEF Step, SameFlags

LEMMA StepWider ==
  ASSUME NEW c, NEW d, NEW K, NEW L, K \subseteq L, Step(c, d, K)
  PROVE  Step(c, d, L)
BY DEF Step

LEMMA IsStep ==
  ASSUME NEW c, NEW k \in Keys, Going(c), NEW d, Running(d), SameFlags(c, d), Grows(c.out, d.out),
         OthersSame(c, d, k), OthersTold(c, d, k),
         Told(d, k)
  PROVE  Step(c, d, {k})
BY GoingFacts DEF Step, Going, Whole, Running, OthersSame, OthersTold

-----------------------------------------------------------------------------
(* The response is begun. *)

LEMMA StartedStep ==
  ASSUME NEW c, Whole(c), ~ c.completed, NEW d, d = EnsureStarted(c)
  PROVE  /\ Going(d) /\ Grows(c.out, d.out) /\ SameMode(c, d) /\ d.items = c.items
         /\ d.completed = c.completed /\ d.failed = c.failed
<1>1. CASE c.started
  BY <1>1, GrowsSelf DEF EnsureStarted, Going, Whole, Recorded, Formed, SameMode
<1>2. CASE ~ c.started
  <2> DEFINE b == [c EXCEPT !.started = TRUE]
             e == [type |-> "created"]
  <2>1. IsConverter(c) /\ Formed(c) /\ Log(c.out)
    BY DEF Whole, Recorded, Formed, IsConverter
  <2>2. d = [[c EXCEPT !.started = TRUE] EXCEPT !.out = Append(@, e)]
    BY <1>2 DEF EnsureStarted, Write
  <2> HIDE DEF b
  <2>3. e.type = "created"
    OBVIOUS
  <2> HIDE DEF e
  <2>4. /\ IsConverter(d) /\ d.started /\ d.completed = c.completed /\ d.failed = c.failed
        /\ SameMode(c, d) /\ d.items = c.items /\ d.nextIndex = c.nextIndex
        /\ d.outputItems = c.outputItems
    BY <2>1, <2>2 DEF IsConverter, SameMode
  <2>5. d.out = Append(c.out, e) /\ c.out = <<>>
    BY <1>2, <2>1, <2>2 DEF IsConverter, Whole, Recorded, Bounded
  <2>6. d.started \in BOOLEAN /\ Log(d.out)
    BY <2>1, <2>2, <2>5, LogAppend DEF IsConverter
  <2>7. Formed(d)
    BY <2>1, <2>4, <2>6 DEF Formed, IsConverter, SameMode
  <2>8. /\ RS!Added(d.out) = RS!Added(c.out)
        /\ RS!Events(d.out, "added") = RS!Events(c.out, "added")
        /\ \A n \in RS!Events(c.out, "added") : d.out[n] = c.out[n]
        /\ RS!Done(d.out) = RS!Done(c.out)
        /\ DoneItems(d.out) = DoneItems(c.out)
        /\ \A i : RS!Assembled(d.out, i) = RS!Assembled(c.out, i)
    <3>1. e.type \notin {"added", "delta", "done"} /\ Log(c.out) /\ d.out = Append(c.out, e)
      BY <2>1, <2>3, <2>5
    <3>2. /\ RS!Added(d.out) = RS!Added(c.out) /\ SameAnnouncements(c.out, d.out)
          /\ RS!Done(d.out) = RS!Done(c.out) /\ DoneItems(d.out) = DoneItems(c.out)
          /\ SameTexts(c.out, d.out)
      BY <3>1, NothingOfItems
    <3> QED BY <3>2 DEF SameAnnouncements, SameTexts
  <2>11. RS!Over(d.out) <=> RS!Over(c.out)
    <3>1. RS!Over(Append(c.out, e)) <=> RS!Over(c.out) \/ e.type \in {"completed", "failed"}
      BY <2>1, OverGrows
    <3> QED BY <2>3, <2>5, <3>1
  <2>13. d.out # <<>>
    BY <2>1, <2>5, AppendedNotEmpty
  <2>14. Grows(c.out, d.out)
    <3>1. RS!Legal(c.out, e)
      BY <2>3, <2>5 DEF RS!Legal, Whole, Recorded, Bounded
    <3> QED BY <2>1, <2>5, <3>1, GrowsByOne
  <2>15. Numbered(d) /\ Identities(d)
    BY <2>4 DEF Whole, Recorded, Numbered, Identities
  <2>16. Announced(d)
    BY <2>4, <2>8 DEF Whole, Recorded, Announced
  <2>17. Concluded(d)
    BY <2>4, <2>8 DEF Whole, Recorded, Concluded
  <2>18. Untold(d)
    BY <2>4, <2>8 DEF Whole, Recorded, Untold
  <2>19. Bounded(d)
    BY <2>4, <2>11, <2>13 DEF Whole, Recorded, Bounded
  <2>20. \A k \in Keys : Told(d, k)
    BY <2>4, <2>8 DEF Whole, Told
  <2> QED BY <2>4, <2>7, <2>14, <2>15, <2>16, <2>17, <2>18, <2>19, <2>20
          DEF Going, Whole, Recorded
<1> QED BY <1>1, <1>2 DEF Whole, Recorded, Formed

-----------------------------------------------------------------------------
(* Reasoning and text *)

IsTextKind(k, kind) ==
  (k = "reasoning" /\ kind = "reasoning") \/ (k = "text" /\ kind = "message")

LEMMA TextKinds ==
  ASSUME NEW k, NEW kind, IsTextKind(k, kind), NEW it
  PROVE  /\ k \in Keys /\ k \in Texts
         /\ KindOf(k, it) = kind /\ IdOf(k, it) = <<kind>> /\ Streamed(k, it)
BY DEF IsTextKind, Texts, Keys, KindOf, IdOf, Streamed

(* An announced item gets more text. *)
LEMMA MoreTextStep ==
  ASSUME NEW c, Going(c), NEW k, NEW kind, IsTextKind(k, kind),
         c.items[k].index # 0, ~ c.items[k].done, NEW piece, piece # <<>>,
         NEW b, b = WithText(c, k, piece),
         NEW d, d = WriteDelta(b, b.items[k].index, b.items[k].id, piece)
  PROVE  /\ Step(c, d, {k}) /\ SameMode(c, d)
         /\ d.items[k].index # 0 /\ ~ d.items[k].done
<1> DEFINE e == [type |-> "delta", index |-> b.items[k].index, id |-> b.items[k].id,
                 piece |-> piece]
<1>1. k \in Keys /\ k \in Texts /\ c.items[k].index # 0 /\ ~ c.items[k].done
  BY TextKinds
<1>2. Running(c) /\ Formed(c) /\ Told(c, k)
  BY <1>1, GoingFacts
<1>3. /\ Formed(b) /\ SameFlags(c, b) /\ SameMode(c, b)
      /\ b.items[k].index = c.items[k].index /\ b.items[k].done = c.items[k].done
      /\ b.items[k].known = c.items[k].known /\ b.items[k].id = c.items[k].id
      /\ b.items[k].call = c.items[k].call /\ b.items[k].name = c.items[k].name
      /\ b.items[k].text = Joined(c.items[k].text, piece)
      /\ OthersSame(c, b, k)
      /\ b.nextIndex = c.nextIndex /\ b.outputItems = c.outputItems
      /\ b.out = c.out
  BY <1>1, <1>2, TextAdded
<1>4. d = Write(b, e)
  BY DEF WriteDelta
<1>5. c.items[k].id = IdOf(k, c.items[k])
  <2>1. Streamed(k, c.items[k])
    BY TextKinds
  <2>2. Identities(c)
    BY <1>2 DEF Running, Recorded
  <2> QED BY ONLY <1>1, <2>1, <2>2 DEF Identities
<1>6. e = [type |-> "delta", index |-> c.items[k].index, id |-> IdOf(k, c.items[k]),
           piece |-> piece]
  BY <1>3, <1>5
<1> HIDE DEF e
<1>7. /\ Formed(d) /\ SameFlags(b, d) /\ SameMode(b, d) /\ d.items = b.items
      /\ d.nextIndex = b.nextIndex /\ d.outputItems = b.outputItems
      /\ d.out = Append(b.out, e)
  BY ONLY <1>3, <1>4, WriteIs
<1>8. /\ d.items[k].index = c.items[k].index /\ d.items[k].done = c.items[k].done
      /\ d.items[k].known = c.items[k].known /\ d.items[k].id = c.items[k].id
      /\ d.items[k].call = c.items[k].call /\ d.items[k].name = c.items[k].name
      /\ d.items[k].text = Joined(c.items[k].text, piece)
  BY ONLY <1>3, <1>7
<1>9. SameItem(c, d, k)
  BY ONLY <1>1, <1>3, <1>7, <1>8 DEF SameItem, OnlyItem, SameFlags, OthersSame
<1>10. d.out = Append(c.out, [type |-> "delta", index |-> c.items[k].index,
                              id |-> IdOf(k, c.items[k]), piece |-> piece])
  BY ONLY <1>3, <1>6, <1>7
<1>11. ~ d.items[k].done /\ d.items[k].index # 0 /\ d.outputItems = c.outputItems
  BY <1>3, <1>7, <1>8
<1>12. /\ Running(d) /\ Grows(c.out, d.out) /\ OthersTold(c, d, k)
       /\ Longer(c, d, k, piece)
  BY <1>1, <1>2, <1>9, <1>10, <1>11, Deliver
<1>13. Told(d, k)
  <2>1. Streamed(k, c.items[k]) /\ Streamed(k, d.items[k])
    BY TextKinds
  <2>2. RS!Assembled(c.out, c.items[k].index) = c.items[k].text
    BY ONLY <1>1, <1>2, <2>1 DEF Told
  <2>3. RS!Assembled(d.out, d.items[k].index) = d.items[k].text
    BY ONLY <1>8, <1>12, <2>2 DEF Longer
  <2> QED BY ONLY <2>1, <2>3 DEF Told
<1>14. SameFlags(c, d) /\ SameMode(c, d) /\ OthersSame(c, d, k)
  BY ONLY <1>3, <1>7 DEF SameFlags, SameMode, OthersSame
<1>15. Step(c, d, {k})
  BY <1>1, <1>12, <1>13, <1>14, IsStep
<1> QED BY <1>11, <1>14, <1>15

LEMMA PushDeltaStep ==
  ASSUME NEW c, Going(c), NEW k, NEW kind, IsTextKind(k, kind), ~ c.items[k].done,
         NEW piece, piece # <<>>, NEW d, d = PushDelta(c, k, kind, piece)
  PROVE  /\ Step(c, d, {k}) /\ SameMode(c, d)
         /\ d.items[k].index # 0 /\ ~ d.items[k].done
<1> DEFINE a == IF c.items[k].index = 0 THEN AddItem(c, k, kind, <<kind>>) ELSE c
           b == WithText(a, k, piece)
<1>1. k \in Keys /\ k \in Texts
      /\ \A it : KindOf(k, it) = kind /\ IdOf(k, it) = <<kind>> /\ Streamed(k, it)
  BY TextKinds
<1>2. d = WriteDelta(b, b.items[k].index, b.items[k].id, piece)
  BY DEF PushDelta, WithText
<1>3. /\ Step(c, a, {k}) /\ SameMode(c, a) /\ a.items[k].index # 0 /\ ~ a.items[k].done
  <2>1. CASE c.items[k].index # 0
    BY <1>1, <2>1, StepSelf DEF SameMode
  <2>2. CASE c.items[k].index = 0
    <3>1. a = AddItem(c, k, kind, <<kind>>)
      BY <2>2
    <3> HIDE DEF a
    <3>2. Running(c) /\ Formed(c) /\ IsItem(c.items[k]) /\ c.nextIndex \in Nat
          /\ c.nextIndex >= 1
      BY <1>1, GoingFacts DEF Running, Recorded, Numbered, Formed
    <3>3. /\ Formed(a) /\ SameFlags(c, a) /\ SameMode(c, a)
          /\ a.items[k].index = c.nextIndex /\ a.items[k].id = <<kind>>
          /\ a.items[k].done = c.items[k].done /\ a.items[k].text = c.items[k].text
          /\ OthersSame(c, a, k)
          /\ a.nextIndex = c.nextIndex + 1 /\ a.outputItems = c.outputItems
          /\ a.out = Append(c.out, [type |-> "added", index |-> c.nextIndex, kind |-> kind,
                                    id |-> <<kind>>])
      <4>1. k \in Keys /\ Formed(c)
        BY <1>1, <3>2
      <4> QED BY <3>1, <4>1, AddItemIs
    <3>4. /\ a.items[k].index = c.nextIndex /\ a.items[k].id = <<kind>>
          /\ a.items[k].done = c.items[k].done /\ a.items[k].text = c.items[k].text
      BY <3>3
    <3>5. OnlyItem(c, a, k)
      BY <3>3 DEF OnlyItem, SameFlags
    <3>6. a.out = Append(c.out, [type |-> "added", index |-> c.nextIndex,
                                 kind |-> KindOf(k, a.items[k]), id |-> IdOf(k, a.items[k])])
      BY <1>1, <3>3
    <3>7. /\ Running(a) /\ Grows(c.out, a.out)
          /\ OthersTold(c, a, k)
          /\ RS!Assembled(a.out, a.items[k].index) = <<>>
      <4>1. /\ k \in Keys /\ (k \notin Texts => a.items[k].known) /\ ~ a.items[k].done
            /\ a.items[k].id = IdOf(k, a.items[k])
            /\ a.nextIndex = c.nextIndex + 1 /\ a.outputItems = c.outputItems
        BY <1>1, <3>3, <3>4
      <4> QED BY <2>2, <3>2, <3>4, <3>5, <3>6, <4>1, Announce
    <3>8. c.items[k].text = <<>>
      BY <1>1, <2>2 DEF Going, Whole, Recorded, Identities
    <3>9. Told(a, k)
      BY <1>1, <3>4, <3>7, <3>8 DEF Told
    <3>10. Step(c, a, {k})
      BY <1>1, <3>3, <3>7, <3>9, IsStep
    <3>11. a.items[k].index # 0 /\ ~ a.items[k].done
      BY <3>2, <3>4
    <3> QED BY <3>3, <3>10, <3>11
  <2> QED BY <2>1, <2>2
<1> HIDE DEF a
<1>4. Going(a)
  BY <1>3 DEF Step
<1>5. Step(a, d, {k}) /\ SameMode(a, d) /\ d.items[k].index # 0 /\ ~ d.items[k].done
  BY <1>2, <1>3, <1>4, MoreTextStep
<1>6. Step(c, d, {k})
  BY <1>3, <1>5, StepOn
<1> QED BY <1>3, <1>5, <1>6 DEF SameMode

LEMMA FinalizeItemStep ==
  ASSUME NEW c, Going(c), NEW k, NEW kind, IsTextKind(k, kind),
         NEW d, d = FinalizeItem(c, k, kind)
  PROVE  /\ Step(c, d, {k}) /\ SameMode(c, d)
         /\ d.items[k].index = c.items[k].index
         /\ d.items[k].index # 0 => d.items[k].done
<1>1. k \in Keys /\ k \in Texts
      /\ \A it : KindOf(k, it) = kind /\ IdOf(k, it) = <<kind>> /\ Streamed(k, it)
  BY TextKinds
<1>2. CASE c.items[k].index = 0 \/ c.items[k].done
  <2>1. d = c
    BY <1>2 DEF FinalizeItem
  <2>2. Step(c, c, {k})
    BY StepSelf
  <2>3. c.items[k].index # 0 => c.items[k].done
    BY <1>2
  <2> QED BY <2>1, <2>2, <2>3 DEF SameMode
<1>3. CASE ~ (c.items[k].index = 0 \/ c.items[k].done)
  <2> DEFINE content == c.items[k].text
             id == c.items[k].id
  <2>1. d = WriteDone(c, k, kind, id, content)
    BY <1>3 DEF FinalizeItem
  <2>2. Running(c) /\ Recorded(c) /\ Formed(c) /\ Told(c, k)
    BY <1>1, GoingFacts
  <2>3. id = IdOf(k, c.items[k]) /\ kind = KindOf(k, c.items[k])
        /\ RS!Assembled(c.out, c.items[k].index) = content
    BY <1>1, <1>3, <2>2 DEF Recorded, Identities, Told
  <2> HIDE DEF content, id
  <2>4. /\ Formed(d) /\ SameFlags(c, d) /\ SameMode(c, d)
        /\ d.items[k].index = c.items[k].index /\ d.items[k].id = c.items[k].id
        /\ d.items[k].known = c.items[k].known /\ d.items[k].done
        /\ d.items[k].text = c.items[k].text
        /\ d.items[k].call = c.items[k].call /\ d.items[k].name = c.items[k].name
        /\ OthersSame(c, d, k)
        /\ d.nextIndex = c.nextIndex
        /\ d.outputItems = c.outputItems
             \cup {[index |-> c.items[k].index, content |-> content]}
        /\ d.out = Append(c.out, [type |-> "done", index |-> c.items[k].index, kind |-> kind,
                                  id |-> id, content |-> content])
    BY <1>1, <2>1, <2>2, WriteDoneIs
  <2>5. SameItem(c, d, k)
    BY <1>3, <2>4 DEF SameItem, OnlyItem, SameFlags
  <2>6. d.out = Append(c.out, [type |-> "done", index |-> c.items[k].index,
                               kind |-> KindOf(k, c.items[k]), id |-> IdOf(k, c.items[k]),
                               content |-> content])
    BY <2>3, <2>4
  <2>7. Fits(c, k, content)
    BY <2>3 DEF Fits
  <2>8. /\ Running(d) /\ Grows(c.out, d.out) /\ OthersTold(c, d, k) /\ Told(d, k)
    <3>1. /\ k \in Keys /\ Running(c) /\ c.items[k].index # 0 /\ ~ c.items[k].done
          /\ d.items[k].done
          /\ d.outputItems = c.outputItems
               \cup {[index |-> c.items[k].index, content |-> content]}
      BY <1>1, <1>3, <2>2, <2>4
    <3> QED BY <2>5, <2>6, <2>7, <3>1, Conclude
  <2>9. Step(c, d, {k})
    BY <1>1, <2>4, <2>8, IsStep
  <2> QED BY <2>4, <2>9
<1> QED BY <1>2, <1>3

(* The four steps of the converter on its reasoning and its text. *)
LEMMA ReasoningPushed ==
  ASSUME NEW c, Going(c), ~ c.items["reasoning"].done, NEW piece, piece # <<>>,
         NEW d, d = PushReasoning(c, piece)
  PROVE  Step(c, d, {"reasoning"}) /\ SameMode(c, d) /\ ~ d.items["reasoning"].done
BY PushDeltaStep DEF IsTextKind, PushReasoning

LEMMA TextPushed ==
  ASSUME NEW c, Going(c), ~ c.items["text"].done, NEW piece, piece # <<>>,
         NEW d, d = PushText(c, piece)
  PROVE  Step(c, d, {"text"}) /\ SameMode(c, d) /\ ~ d.items["text"].done
BY PushDeltaStep DEF IsTextKind, PushText

LEMMA ReasoningFinalized ==
  ASSUME NEW c, Going(c), NEW d, d = FinalizeReasoning(c)
  PROVE  /\ Step(c, d, {"reasoning"}) /\ SameMode(c, d)
         /\ d.items["reasoning"].index # 0 => d.items["reasoning"].done
BY FinalizeItemStep DEF IsTextKind, FinalizeReasoning

LEMMA TextFinalized ==
  ASSUME NEW c, Going(c), NEW d, d = FinalizeText(c)
  PROVE  /\ Step(c, d, {"text"}) /\ SameMode(c, d)
         /\ d.items["text"].index # 0 => d.items["text"].done
BY FinalizeItemStep DEF IsTextKind, FinalizeText

LEMMA OtherText ==
  /\ "reasoning" \in Keys /\ "text" \in Keys /\ "reasoning" # "text"
  /\ Texts \subseteq Keys /\ {"reasoning"} \subseteq Texts /\ {"text"} \subseteq Texts
  /\ "text" \notin {"reasoning"} /\ "reasoning" \notin {"text"}
  /\ \A k \in Keys : k \notin Texts <=> k \in Range(ToolIndexes)
BY DEF Keys, Texts

(* The converter turns to another way of reading content. *)
LEMMA ModeStep ==
  ASSUME NEW c, Going(c), NEW d, IsConverter(d), SameFlags(c, d), d.items = c.items,
         d.nextIndex = c.nextIndex, d.outputItems = c.outputItems, d.out = c.out,
         d.mode \in {"detecting", "reasoning", "text"}, Log(d.think), NEW K
  PROVE  Step(c, d, K)
<1>1. Recorded(c) /\ Formed(c) /\ Grows(c.out, c.out) /\ \A k \in Keys : Told(c, k)
  BY GoingFacts
<1>2. Formed(d)
  BY <1>1 DEF Formed, IsConverter, SameFlags
<1>3. /\ Numbered(d) /\ Identities(d) /\ Announced(d) /\ Concluded(d) /\ Untold(d)
  BY <1>1 DEF Recorded, Numbered, Identities, Announced, Concluded, Untold
<1>4. Bounded(d)
  BY <1>1 DEF Recorded, Bounded, SameFlags
<1>5. \A k \in Keys : Told(d, k)
  BY <1>1 DEF Told
<1> QED BY <1>1, <1>2, <1>3, <1>4, <1>5 DEF Step, Going, Whole, Recorded, SameFlags

-----------------------------------------------------------------------------
(* Content *)

(* While a response is going on its text is open, and its reasoning is unless *)
(* the answer was begun.                                                      *)
TextOpen(c) ==
  /\ ~ c.items["text"].done
  /\ c.items["reasoning"].done => c.mode = "text"
  /\ c.mode = "text" => c.think = <<>>

LEMMA PushSplitStep ==
  ASSUME NEW c, Going(c), ~ c.items["reasoning"].done, ~ c.items["text"].done, NEW split,
         NEW d, d = PushSplit(c, split)
  PROVE  Step(c, d, Texts) /\ SameMode(c, d) /\ ~ d.items["text"].done
<1> DEFINE p == PushReasoning(c, split.reasoning)
           f == FinalizeReasoning(p)
           a == IF split.reasoning = <<>> THEN c ELSE f
<1>1. Step(c, a, Texts) /\ SameMode(c, a) /\ ~ a.items["text"].done
  <2>1. CASE split.reasoning = <<>>
    BY <2>1, StepSelf DEF SameMode
  <2>2. CASE split.reasoning # <<>>
    <3>1. Step(c, p, {"reasoning"}) /\ SameMode(c, p)
      BY <2>2, ReasoningPushed
    <3>2. Going(p)
      BY <3>1 DEF Step
    <3> HIDE DEF p
    <3>3. Step(p, f, {"reasoning"}) /\ SameMode(p, f)
      BY <3>2, ReasoningFinalized
    <3> HIDE DEF f
    <3>4. Step(c, f, {"reasoning"}) /\ SameMode(c, f)
      BY <3>1, <3>3, StepOn DEF SameMode
    <3>5. Step(c, f, Texts)
      BY <3>4, StepWider, OtherText
    <3>6. f.items["text"] = c.items["text"]
      BY <3>4, OtherText DEF Step
    <3> QED BY <2>2, <3>4, <3>5, <3>6
  <2> QED BY <2>1, <2>2
<1>2. d = IF split.answer = <<>> THEN a ELSE PushText(a, split.answer)
  BY DEF PushSplit
<1> HIDE DEF a
<1>3. CASE split.answer = <<>>
  BY <1>1, <1>2, <1>3
<1>4. CASE split.answer # <<>>
  <2>1. Going(a)
    BY <1>1 DEF Step
  <2>2. d = PushText(a, split.answer)
    BY <1>2, <1>4
  <2>3. Step(a, d, {"text"}) /\ SameMode(a, d) /\ ~ d.items["text"].done
    BY <1>1, <1>4, <2>1, <2>2, TextPushed
  <2>4. Step(a, d, Texts)
    BY <2>3, StepWider, OtherText
  <2>5. Step(c, d, Texts)
    BY <1>1, <2>4, StepOn
  <2> QED BY <1>1, <2>3, <2>5 DEF SameMode
<1> QED BY <1>3, <1>4

(* The answer begins: reasoning, if there was any, ends. *)
LEMMA AnswerStep ==
  ASSUME NEW c, Going(c), ~ c.items["text"].done, NEW piece, piece # <<>>,
         NEW d, d = PushText(FinalizeReasoning(c), piece)
  PROVE  Step(c, d, Texts) /\ SameMode(c, d) /\ ~ d.items["text"].done
<1> DEFINE a == FinalizeReasoning(c)
<1>1. Step(c, a, {"reasoning"}) /\ SameMode(c, a)
  BY ReasoningFinalized
<1>2. d = PushText(a, piece)
  OBVIOUS
<1> HIDE DEF a
<1>3. Going(a) /\ ~ a.items["text"].done
  BY <1>1, OtherText DEF Step
<1>4. Step(a, d, {"text"}) /\ SameMode(a, d) /\ ~ d.items["text"].done
  BY <1>2, <1>3, TextPushed
<1>5. Step(c, a, Texts) /\ Step(a, d, Texts)
  BY <1>1, <1>4, StepWider, OtherText
<1>6. Step(c, d, Texts)
  BY <1>5, StepOn
<1> QED BY <1>1, <1>4, <1>6 DEF SameMode

LEMMA AnsweringStep ==
  ASSUME NEW c, Going(c), NEW d, d = [c EXCEPT !.mode = "text", !.think = <<>>]
  PROVE  Step(c, d, Texts) /\ d.items = c.items /\ d.mode = "text" /\ d.think = <<>>
<1>1. Formed(c) /\ IsConverter(c)
  BY GoingFacts DEF Formed, IsConverter
<1>2. /\ IsConverter(d) /\ SameFlags(c, d) /\ d.items = c.items
      /\ d.nextIndex = c.nextIndex /\ d.outputItems = c.outputItems /\ d.out = c.out
      /\ d.mode = "text" /\ d.think = <<>>
  BY <1>1 DEF IsConverter, SameFlags
<1>3. Log(d.think) /\ d.mode \in {"detecting", "reasoning", "text"}
  BY <1>2, EmptyLog
<1> QED BY <1>2, <1>3, ModeStep

LEMMA ThinkingStep ==
  ASSUME NEW c, Going(c), NEW piece, piece # <<>>, Log(piece),
         NEW d, d = [c EXCEPT !.think = @ \o piece]
  PROVE  Step(c, d, Texts) /\ d.items = c.items /\ d.mode = c.mode /\ d.think # <<>>
<1> DEFINE think == c.think \o piece
<1>1. Formed(c) /\ IsConverter(c) /\ Log(think) /\ think # <<>>
  BY GoingFacts, LogJoined DEF Formed, IsConverter
<1>2. d = [c EXCEPT !.think = think]
  OBVIOUS
<1> HIDE DEF think
<1>3. /\ IsConverter(d) /\ SameFlags(c, d) /\ d.items = c.items
      /\ d.nextIndex = c.nextIndex /\ d.outputItems = c.outputItems /\ d.out = c.out
      /\ d.mode = c.mode /\ d.think = think
  BY <1>1, <1>2 DEF IsConverter, SameFlags
<1>4. Log(d.think) /\ d.mode \in {"detecting", "reasoning", "text"}
  BY <1>1, <1>3 DEF Formed
<1> QED BY <1>1, <1>3, <1>4, ModeStep

LEMMA ReasoningModeStep ==
  ASSUME NEW c, Going(c), NEW d, d = [c EXCEPT !.mode = "reasoning"]
  PROVE  Step(c, d, Texts) /\ d.items = c.items /\ d.mode = "reasoning"
<1>1. Formed(c) /\ IsConverter(c)
  BY GoingFacts DEF Formed, IsConverter
<1>2. /\ IsConverter(d) /\ SameFlags(c, d) /\ d.items = c.items
      /\ d.nextIndex = c.nextIndex /\ d.outputItems = c.outputItems /\ d.out = c.out
      /\ d.mode = "reasoning" /\ d.think = c.think
  BY <1>1 DEF IsConverter, SameFlags
<1>3. Log(d.think) /\ d.mode \in {"detecting", "reasoning", "text"}
  BY <1>1, <1>2 DEF Formed
<1> QED BY <1>2, <1>3, ModeStep

LEMMA DrainThinkStep ==
  ASSUME NEW c, Going(c), TextOpen(c), c.mode # "text", NEW d, d = DrainThink(c)
  PROVE  Step(c, d, Texts) /\ TextOpen(d)
<1>1. CASE ~ HasThinkBlock(c.think)
  BY <1>1, StepSelf DEF DrainThink
<1>2. CASE HasThinkBlock(c.think)
  <2> DEFINE a == [c EXCEPT !.mode = "text", !.think = <<>>]
             split == SplitThink(c.think)
  <2>1. Step(c, a, Texts) /\ a.items = c.items /\ a.mode = "text" /\ a.think = <<>>
    BY AnsweringStep, Zenon
  <2>2. d = PushSplit(a, split)
    BY <1>2 DEF DrainThink
  <2> HIDE DEF a, split
  <2>3. Going(a) /\ ~ a.items["reasoning"].done /\ ~ a.items["text"].done
    BY <2>1 DEF Step, TextOpen
  <2>4. Step(a, d, Texts) /\ SameMode(a, d) /\ ~ d.items["text"].done
    BY <2>2, <2>3, PushSplitStep
  <2>5. Step(c, d, Texts)
    BY <2>1, <2>4, StepOn
  <2> QED BY <2>1, <2>4, <2>5 DEF TextOpen, SameMode
<1> QED BY <1>1, <1>2

LEMMA PushContentStep ==
  ASSUME NEW c, Going(c), TextOpen(c), NEW piece, piece # <<>>, Log(piece),
         NEW d, d = PushContent(c, piece)
  PROVE  Step(c, d, Texts) /\ TextOpen(d)
<1> DEFINE more == [c EXCEPT !.think = @ \o piece]
<1>1. Step(c, more, Texts) /\ more.items = c.items /\ more.mode = c.mode /\ more.think # <<>>
  BY ThinkingStep
<1>2. c.mode \in {"detecting", "reasoning", "text"}
  BY GoingFacts DEF Formed
<1>3. CASE c.mode = "text"
  <2>1. d = PushText(FinalizeReasoning(c), piece)
    BY <1>3 DEF PushContent
  <2>2. Step(c, d, Texts) /\ SameMode(c, d) /\ ~ d.items["text"].done
    BY <2>1, AnswerStep DEF TextOpen
  <2> QED BY <1>3, <2>2 DEF TextOpen, SameMode
<1>4. CASE c.mode = "reasoning"
  <2>1. d = DrainThink(more)
    BY <1>4 DEF PushContent
  <2> HIDE DEF more
  <2>2. Going(more) /\ TextOpen(more) /\ more.mode # "text"
    BY <1>1, <1>4 DEF Step, TextOpen
  <2>3. Step(more, d, Texts) /\ TextOpen(d)
    BY <2>1, <2>2, DrainThinkStep
  <2>4. Step(c, d, Texts)
    BY <1>1, <2>3, StepOn
  <2> QED BY <2>3, <2>4
<1>5. CASE c.mode = "detecting"
  <2> DEFINE decision == Decision(more.think)
             thinking == [more EXCEPT !.mode = "reasoning"]
             answering == [more EXCEPT !.mode = "text", !.think = <<>>]
             text == more.think
  <2>1. decision \in {"need_more", "reasoning", "text"}
    BY DEF Decision
  <2>2. d = CASE decision = "need_more" -> more
              [] decision = "reasoning" -> DrainThink(thinking)
              [] decision = "text" -> PushText(FinalizeReasoning(answering), text)
    BY <1>5 DEF PushContent
  <2> HIDE DEF more, decision
  <2>3. Going(more) /\ TextOpen(more) /\ more.mode # "text"
    BY <1>1, <1>5 DEF Step, TextOpen
  <2>4. CASE decision = "need_more"
    BY <1>1, <2>2, <2>3, <2>4
  <2>5. CASE decision = "reasoning"
    <3>1. Step(more, thinking, Texts) /\ thinking.items = more.items /\ thinking.mode = "reasoning"
      BY <2>3, ReasoningModeStep
    <3>2. d = DrainThink(thinking)
      BY <2>2, <2>5
    <3> HIDE DEF thinking
    <3>3. Going(thinking) /\ TextOpen(thinking) /\ thinking.mode # "text"
      BY <2>3, <3>1 DEF Step, TextOpen
    <3>4. Step(thinking, d, Texts) /\ TextOpen(d)
      BY <3>2, <3>3, DrainThinkStep
    <3>5. Step(c, thinking, Texts)
      BY <1>1, <3>1, StepOn
    <3>6. Step(c, d, Texts)
      BY <3>4, <3>5, StepOn
    <3> QED BY <3>4, <3>6
  <2>6. CASE decision = "text"
    <3>1. Step(more, answering, Texts) /\ answering.items = more.items /\ answering.mode = "text"
          /\ answering.think = <<>>
      BY <2>3, AnsweringStep, Zenon
    <3>2. d = PushText(FinalizeReasoning(answering), text) /\ text # <<>>
      BY <1>1, <2>2, <2>6
    <3> HIDE DEF answering, text
    <3>3. Going(answering) /\ ~ answering.items["text"].done
      BY <2>3, <3>1 DEF Step, TextOpen
    <3>4. Step(answering, d, Texts) /\ SameMode(answering, d) /\ ~ d.items["text"].done
      BY <3>2, <3>3, AnswerStep
    <3>5. Step(c, answering, Texts)
      BY <1>1, <3>1, StepOn
    <3>6. Step(c, d, Texts)
      BY <3>4, <3>5, StepOn
    <3> QED BY <3>1, <3>4, <3>6 DEF TextOpen, SameMode
  <2> QED BY <2>1, <2>4, <2>5, <2>6
<1> QED BY <1>2, <1>3, <1>4, <1>5

LEMMA FlushThinkStep ==
  ASSUME NEW c, Going(c), TextOpen(c), NEW d, d = FlushThink(c)
  PROVE  Step(c, d, Texts) /\ TextOpen(d) /\ d.mode = "text"
<1> DEFINE flushed == [c EXCEPT !.mode = "text", !.think = <<>>]
           split == IF HasThinkBlock(c.think) THEN SplitThink(c.think)
                    ELSE [reasoning |-> WithoutOpenTag(c.think), answer |-> <<>>]
<1>1. Step(c, flushed, Texts) /\ flushed.items = c.items /\ flushed.mode = "text"
      /\ flushed.think = <<>>
  BY AnsweringStep, Zenon
<1>2. c.mode \in {"detecting", "reasoning", "text"}
  BY GoingFacts DEF Formed
<1>3. d = CASE c.mode = "text" -> c
            [] c.mode = "detecting" ->
                 IF c.think = <<>> THEN flushed
                 ELSE PushText(FinalizeReasoning(flushed), c.think)
            [] c.mode = "reasoning" -> PushSplit(flushed, split)
  BY DEF FlushThink
<1> HIDE DEF flushed, split
<1>4. Going(flushed) /\ ~ flushed.items["text"].done
      /\ (c.mode # "text" => ~ flushed.items["reasoning"].done)
  BY <1>1 DEF Step, TextOpen
<1>5. CASE c.mode = "text"
  BY <1>3, <1>5, StepSelf
<1>6. CASE c.mode = "detecting"
  <2>1. CASE c.think = <<>>
    BY <1>1, <1>3, <1>4, <1>6, <2>1 DEF TextOpen
  <2>2. CASE c.think # <<>>
    <3>1. d = PushText(FinalizeReasoning(flushed), c.think)
      BY <1>3, <1>6, <2>2
    <3>2. Step(flushed, d, Texts) /\ SameMode(flushed, d) /\ ~ d.items["text"].done
      BY <1>4, <2>2, <3>1, AnswerStep
    <3>3. Step(c, d, Texts)
      BY <1>1, <3>2, StepOn
    <3> QED BY <1>1, <3>2, <3>3 DEF TextOpen, SameMode
  <2> QED BY <2>1, <2>2
<1>7. CASE c.mode = "reasoning"
  <2>1. d = PushSplit(flushed, split)
    BY <1>3, <1>7
  <2>2. Step(flushed, d, Texts) /\ SameMode(flushed, d) /\ ~ d.items["text"].done
    BY <1>4, <1>7, <2>1, PushSplitStep
  <2>3. Step(c, d, Texts)
    BY <1>1, <2>2, StepOn
  <2> QED BY <1>1, <2>2, <2>3 DEF TextOpen, SameMode
<1> QED BY <1>2, <1>5, <1>6, <1>7

-----------------------------------------------------------------------------
(* Tool calls *)

(* Formed, of a converter whose item k is `it`. *)
ItemBecame(c, d, k) ==
  /\ Formed(d) /\ SameFlags(c, d) /\ SameMode(c, d) /\ OthersSame(c, d, k)
  /\ d.nextIndex = c.nextIndex /\ d.outputItems = c.outputItems /\ d.out = c.out

(* What a delta says of a tool call is noted. *)
Heard(c, k, delta) ==
  [c EXCEPT !.items[k].known = TRUE,
            !.items[k].call = IF delta.id = Absent THEN @ ELSE delta.id,
            !.items[k].name = IF delta.name = NoName THEN @ ELSE delta.name,
            !.items[k].text = @ \o delta.arguments]

LEMMA HeardIs ==
  ASSUME NEW c, Formed(c), NEW k \in Keys, NEW delta, Log(delta.arguments),
         NEW d, d = Heard(c, k, delta)
  PROVE  /\ ItemBecame(c, d, k)
         /\ d.items[k].known /\ d.items[k].index = c.items[k].index
         /\ d.items[k].done = c.items[k].done /\ d.items[k].id = c.items[k].id
         /\ d.items[k].call = (IF delta.id = Absent THEN c.items[k].call ELSE delta.id)
         /\ d.items[k].name = (IF delta.name = NoName THEN c.items[k].name ELSE delta.name)
         /\ d.items[k].text = Joined(c.items[k].text, delta.arguments)
<1> DEFINE o == c.items[k]
           call == IF delta.id = Absent THEN o.call ELSE delta.id
           name == IF delta.name = NoName THEN o.name ELSE delta.name
           text == o.text \o delta.arguments
           it == [o EXCEPT !.known = TRUE, !.call = call, !.name = name, !.text = text]
<1>1. /\ IsConverter(c) /\ c.items = [j \in Keys |-> c.items[j]] /\ IsItem(o)
      /\ (k \notin Texts => Log(o.text))
  BY DEF Formed, IsConverter
<1>2. k \notin Texts => Log(text)
  BY <1>1, LogJoined
<1>3. /\ IsItem(it) /\ it.known = TRUE /\ it.index = o.index /\ it.done = o.done
      /\ it.text = text /\ it.call = call /\ it.name = name /\ it.id = o.id
  <2> HIDE DEF text, call, name
  <2>1. SUFFICES ASSUME NEW p, p = it
                 PROVE  /\ IsItem(p) /\ p.known = TRUE /\ p.index = o.index /\ p.done = o.done
                        /\ p.text = text /\ p.call = call /\ p.name = name /\ p.id = o.id
    OBVIOUS
  <2>2. p = [known |-> p.known, index |-> p.index, done |-> p.done, text |-> p.text,
             call |-> p.call, name |-> p.name, id |-> p.id]
    BY <1>1, <2>1 DEF IsItem
  <2>3. /\ p.known = TRUE /\ p.index = o.index /\ p.done = o.done
        /\ p.text = text /\ p.call = call /\ p.name = name /\ p.id = o.id
    BY <1>1, <2>1 DEF IsItem
  <2> QED BY <1>1, <2>2, <2>3 DEF IsItem
<1>4. d.items = [c.items EXCEPT ![k] = it]
  BY <1>1 DEF IsConverter, Heard
<1>5. /\ IsConverter(d) /\ SameFlags(c, d) /\ SameMode(c, d)
      /\ d.nextIndex = c.nextIndex /\ d.outputItems = c.outputItems /\ d.out = c.out
  BY <1>1 DEF IsConverter, SameFlags, SameMode, Heard
<1> HIDE DEF it, text, call, name, o
<1>6. ItemBecame(c, d, k) /\ d.items[k] = it
  <2>1. IsItem(it) /\ (k \notin Texts => Log(it.text))
    BY <1>2, <1>3
  <2>2. d.mode = c.mode /\ Log(d.think) /\ d.nextIndex \in Nat /\ Log(d.out)
    BY <1>5 DEF SameMode, Formed
  <2>3. Formed(d)
    BY <1>4, <1>5, <2>1, <2>2, FormedOn
  <2>4. d.items[k] = it /\ OthersSame(c, d, k)
    BY <1>1, <1>4 DEF OthersSame
  <2> QED BY <1>5, <2>3, <2>4 DEF ItemBecame
<1> QED BY <1>3, <1>6 DEF Joined, text, call, name, o

Called(c, k, call, name) == [c EXCEPT !.items[k].call = call, !.items[k].name = name]
Renamed(c, k, id) == [c EXCEPT !.items[k].id = id]

LEMMA CalledIs ==
  ASSUME NEW c, Formed(c), NEW k \in Keys, NEW call, NEW name, NEW d, d = Called(c, k, call, name)
  PROVE  /\ ItemBecame(c, d, k)
         /\ d.items[k].known = c.items[k].known /\ d.items[k].index = c.items[k].index
         /\ d.items[k].done = c.items[k].done /\ d.items[k].id = c.items[k].id
         /\ d.items[k].call = call /\ d.items[k].name = name
         /\ d.items[k].text = c.items[k].text
<1> DEFINE o == c.items[k]
           it == [o EXCEPT !.call = call, !.name = name]
<1>1. /\ IsConverter(c) /\ c.items = [j \in Keys |-> c.items[j]] /\ IsItem(o)
      /\ (k \notin Texts => Log(o.text))
  BY DEF Formed, IsConverter
<1>2. /\ IsItem(it) /\ it.known = o.known /\ it.index = o.index /\ it.done = o.done
      /\ it.text = o.text /\ it.call = call /\ it.name = name /\ it.id = o.id
  <2>1. SUFFICES ASSUME NEW p, p = it
                 PROVE  /\ IsItem(p) /\ p.known = o.known /\ p.index = o.index
                        /\ p.done = o.done
                        /\ p.text = o.text /\ p.call = call /\ p.name = name /\ p.id = o.id
    OBVIOUS
  <2>2. p = [known |-> p.known, index |-> p.index, done |-> p.done, text |-> p.text,
             call |-> p.call, name |-> p.name, id |-> p.id]
    BY <1>1, <2>1 DEF IsItem
  <2>3. /\ p.known = o.known /\ p.index = o.index /\ p.done = o.done
        /\ p.text = o.text /\ p.call = call /\ p.name = name /\ p.id = o.id
    BY <1>1, <2>1 DEF IsItem
  <2> QED BY <1>1, <2>2, <2>3 DEF IsItem
<1>3. d.items = [c.items EXCEPT ![k] = it]
  BY <1>1 DEF IsConverter, Called
<1>4. /\ IsConverter(d) /\ SameFlags(c, d) /\ SameMode(c, d)
      /\ d.nextIndex = c.nextIndex /\ d.outputItems = c.outputItems /\ d.out = c.out
  BY <1>1 DEF IsConverter, SameFlags, SameMode, Called
<1> HIDE DEF it, o
<1>5. ItemBecame(c, d, k) /\ d.items[k] = it
  <2>1. IsItem(it) /\ (k \notin Texts => Log(it.text))
    BY <1>1, <1>2
  <2>2. d.mode = c.mode /\ Log(d.think) /\ d.nextIndex \in Nat /\ Log(d.out)
    BY <1>4 DEF SameMode, Formed
  <2>3. Formed(d)
    BY <1>3, <1>4, <2>1, <2>2, FormedOn
  <2>4. d.items[k] = it /\ OthersSame(c, d, k)
    BY <1>1, <1>3 DEF OthersSame
  <2> QED BY <1>4, <2>3, <2>4 DEF ItemBecame
<1> QED BY <1>2, <1>5 DEF o

LEMMA RenamedIs ==
  ASSUME NEW c, Formed(c), NEW k \in Keys, NEW id, NEW d, d = Renamed(c, k, id)
  PROVE  /\ ItemBecame(c, d, k)
         /\ d.items[k].known = c.items[k].known /\ d.items[k].index = c.items[k].index
         /\ d.items[k].done = c.items[k].done /\ d.items[k].id = id
         /\ d.items[k].call = c.items[k].call /\ d.items[k].name = c.items[k].name
         /\ d.items[k].text = c.items[k].text
<1> DEFINE o == c.items[k]
           it == [o EXCEPT !.id = id]
<1>1. /\ IsConverter(c) /\ c.items = [j \in Keys |-> c.items[j]] /\ IsItem(o)
      /\ (k \notin Texts => Log(o.text))
  BY DEF Formed, IsConverter
<1>2. /\ IsItem(it) /\ it.known = o.known /\ it.index = o.index /\ it.done = o.done
      /\ it.text = o.text /\ it.call = o.call /\ it.name = o.name /\ it.id = id
  <2>1. SUFFICES ASSUME NEW p, p = it
                 PROVE  /\ IsItem(p) /\ p.known = o.known /\ p.index = o.index
                        /\ p.done = o.done
                        /\ p.text = o.text /\ p.call = o.call /\ p.name = o.name /\ p.id = id
    OBVIOUS
  <2>2. p = [known |-> p.known, index |-> p.index, done |-> p.done, text |-> p.text,
             call |-> p.call, name |-> p.name, id |-> p.id]
    BY <1>1, <2>1 DEF IsItem
  <2>3. /\ p.known = o.known /\ p.index = o.index /\ p.done = o.done
        /\ p.text = o.text /\ p.call = o.call /\ p.name = o.name /\ p.id = id
    BY <1>1, <2>1 DEF IsItem
  <2> QED BY <1>1, <2>2, <2>3 DEF IsItem
<1>3. d.items = [c.items EXCEPT ![k] = it]
  BY <1>1 DEF IsConverter, Renamed
<1>4. /\ IsConverter(d) /\ SameFlags(c, d) /\ SameMode(c, d)
      /\ d.nextIndex = c.nextIndex /\ d.outputItems = c.outputItems /\ d.out = c.out
  BY <1>1 DEF IsConverter, SameFlags, SameMode, Renamed
<1> HIDE DEF it, o
<1>5. ItemBecame(c, d, k) /\ d.items[k] = it
  <2>1. IsItem(it) /\ (k \notin Texts => Log(it.text))
    BY <1>1, <1>2
  <2>2. d.mode = c.mode /\ Log(d.think) /\ d.nextIndex \in Nat /\ Log(d.out)
    BY <1>4 DEF SameMode, Formed
  <2>3. Formed(d)
    BY <1>3, <1>4, <2>1, <2>2, FormedOn
  <2>4. d.items[k] = it /\ OthersSame(c, d, k)
    BY <1>1, <1>3 DEF OthersSame
  <2> QED BY <1>4, <2>3, <2>4 DEF ItemBecame
<1> QED BY <1>2, <1>5 DEF o

(* A tool call is announced. *)
HasCallId(it) == it.id = <<"function_call">> \o it.call

SameText(c, d, k) ==
  /\ d.items[k].known = c.items[k].known /\ d.items[k].done = c.items[k].done
  /\ d.items[k].text = c.items[k].text

LEMMA AddToolIs ==
  ASSUME NEW c, Formed(c), NEW k \in Keys, NEW d, d = AddTool(c, k)
  PROVE  /\ Formed(d) /\ SameFlags(c, d) /\ SameMode(c, d) /\ OthersSame(c, d, k)
         /\ d.items[k].index = c.nextIndex
         /\ SameText(c, d, k)
         /\ HasCallId(d.items[k])
         /\ d.nextIndex = c.nextIndex + 1 /\ d.outputItems = c.outputItems
         /\ d.out = Append(c.out, [type |-> "added", index |-> c.nextIndex,
                                   kind |-> ToolKind(d.items[k].name),
                                   id |-> ToolId(d.items[k].name, d.items[k].call)])
<1> DEFINE call == IF c.items[k].call = NoCall THEN DefaultCall(k) ELSE c.items[k].call
           name == IF c.items[k].name = NoName THEN "unknown_tool" ELSE c.items[k].name
           a == Called(c, k, call, name)
           id == <<"function_call">> \o call
           b == AddItem(a, k, ToolKind(name), ToolId(name, call))
<1>1. d = Renamed(b, k, id)
  BY Zenon DEF AddTool, Called, Renamed
<1>2. /\ ItemBecame(c, a, k)
      /\ a.items[k].known = c.items[k].known /\ a.items[k].index = c.items[k].index
      /\ a.items[k].done = c.items[k].done
      /\ a.items[k].call = call /\ a.items[k].name = name
      /\ a.items[k].text = c.items[k].text
  <2> HIDE DEF call, name
  <2> QED BY CalledIs
<1> HIDE DEF a, call, name
<1>3. /\ Formed(b) /\ SameFlags(a, b) /\ SameMode(a, b)
      /\ b.items[k].index = a.nextIndex
      /\ b.items[k].known = a.items[k].known /\ b.items[k].done = a.items[k].done
      /\ b.items[k].text = a.items[k].text
      /\ b.items[k].call = a.items[k].call /\ b.items[k].name = a.items[k].name
      /\ OthersSame(a, b, k)
      /\ b.nextIndex = a.nextIndex + 1 /\ b.outputItems = a.outputItems
      /\ b.out = Append(a.out, [type |-> "added", index |-> a.nextIndex,
                                kind |-> ToolKind(name), id |-> ToolId(name, call)])
  <2>1. Formed(a)
    BY <1>2 DEF ItemBecame
  <2> QED BY <2>1, AddItemIs
<1> HIDE DEF b, id
<1>4. /\ ItemBecame(b, d, k)
      /\ d.items[k].known = b.items[k].known /\ d.items[k].index = b.items[k].index
      /\ d.items[k].done = b.items[k].done /\ d.items[k].id = id
      /\ d.items[k].call = b.items[k].call /\ d.items[k].name = b.items[k].name
      /\ d.items[k].text = b.items[k].text
  BY <1>1, <1>3, RenamedIs
<1>5. Formed(d) /\ SameFlags(c, d) /\ SameMode(c, d) /\ OthersSame(c, d, k)
  BY <1>2, <1>3, <1>4 DEF ItemBecame, SameFlags, SameMode, OthersSame
<1>6. /\ d.items[k].index = c.nextIndex
      /\ d.items[k].known = c.items[k].known /\ d.items[k].done = c.items[k].done
      /\ d.items[k].text = c.items[k].text
      /\ d.items[k].call = call /\ d.items[k].name = name /\ d.items[k].id = id
      /\ d.nextIndex = c.nextIndex + 1 /\ d.outputItems = c.outputItems
  BY <1>2, <1>3, <1>4 DEF ItemBecame
<1>7. d.out = Append(c.out, [type |-> "added", index |-> c.nextIndex,
                             kind |-> ToolKind(name), id |-> ToolId(name, call)])
  BY <1>2, <1>3, <1>4 DEF ItemBecame
<1> QED BY <1>5, <1>6, <1>7 DEF id, HasCallId, SameText

(* c is heard of tool call k, or not, and then announces it. *)
LEMMA AddToolStep ==
  ASSUME NEW c, Going(c), NEW k \in Keys \ Texts, c.items[k].index = 0,
         NEW a, ItemBecame(c, a, k), a.items[k].known, ~ a.items[k].done,
         NEW d, d = AddTool(a, k)
  PROVE  /\ Running(d) /\ Grows(c.out, d.out) /\ OthersTold(c, d, k)
         /\ SameFlags(c, d) /\ SameMode(c, d) /\ OthersSame(c, d, k)
         /\ RS!Assembled(d.out, d.items[k].index) = <<>>
         /\ d.items[k].index # 0 /\ ~ d.items[k].done /\ d.items[k].text = a.items[k].text
<1>1. Running(c) /\ c.nextIndex \in Nat /\ c.nextIndex >= 1
  BY GoingFacts DEF Running, Recorded, Formed, Numbered
<1>2. /\ Formed(a) /\ SameFlags(c, a) /\ SameMode(c, a) /\ OthersSame(c, a, k)
      /\ a.nextIndex = c.nextIndex /\ a.outputItems = c.outputItems /\ a.out = c.out
  BY DEF ItemBecame
<1>3. /\ Formed(d) /\ SameFlags(a, d) /\ SameMode(a, d) /\ OthersSame(a, d, k)
      /\ d.items[k].index = a.nextIndex
      /\ SameText(a, d, k)
      /\ HasCallId(d.items[k])
      /\ d.nextIndex = a.nextIndex + 1 /\ d.outputItems = a.outputItems
      /\ d.out = Append(a.out, [type |-> "added", index |-> a.nextIndex,
                                kind |-> ToolKind(d.items[k].name),
                                id |-> ToolId(d.items[k].name, d.items[k].call)])
  BY <1>2, AddToolIs
<1>4. SameFlags(c, d) /\ SameMode(c, d) /\ OthersSame(c, d, k) /\ OnlyItem(c, d, k)
  BY <1>2, <1>3 DEF SameFlags, SameMode, OthersSame, OnlyItem
<1>5. KindOf(k, d.items[k]) = ToolKind(d.items[k].name)
      /\ IdOf(k, d.items[k]) = ToolId(d.items[k].name, d.items[k].call)
      /\ (Streamed(k, d.items[k]) => d.items[k].id = IdOf(k, d.items[k]))
  BY <1>3 DEF KindOf, IdOf, Streamed, Texts, ToolId, ToolKind, HasCallId
<1>6. d.out = Append(c.out, [type |-> "added", index |-> c.nextIndex,
                             kind |-> KindOf(k, d.items[k]), id |-> IdOf(k, d.items[k])])
  BY <1>2, <1>3, <1>5
<1>7. /\ Running(d) /\ Grows(c.out, d.out) /\ OthersTold(c, d, k)
      /\ RS!Assembled(d.out, d.items[k].index) = <<>>
  <2>1. /\ k \in Keys /\ d.items[k].index = c.nextIndex /\ ~ d.items[k].done
        /\ (k \notin Texts => d.items[k].known)
        /\ d.nextIndex = c.nextIndex + 1 /\ d.outputItems = c.outputItems
    BY <1>2, <1>3 DEF SameText
  <2> QED BY <1>1, <1>4, <1>5, <1>6, <2>1, Announce
<1>8. d.items[k].index # 0 /\ ~ d.items[k].done
  BY <1>1, <1>2, <1>3 DEF SameText
<1> QED BY <1>3, <1>4, <1>7, <1>8 DEF SameText

(* A delta of an item that is open. *)
Delivered(c, d, k, piece) ==
  /\ Running(d) /\ Grows(c.out, d.out) /\ OthersTold(c, d, k) /\ Longer(c, d, k, piece)
  /\ SameFlags(c, d) /\ SameMode(c, d) /\ d.items = c.items

LEMMA DeltaWritten ==
  ASSUME NEW c, Running(c), NEW k \in Keys, c.items[k].index # 0, ~ c.items[k].done,
         NEW piece, piece # <<>>,
         NEW d, d = WriteDelta(c, c.items[k].index, IdOf(k, c.items[k]), piece)
  PROVE  Delivered(c, d, k, piece)
<1> DEFINE e == [type |-> "delta", index |-> c.items[k].index, id |-> IdOf(k, c.items[k]),
                 piece |-> piece]
<1>1. d = Write(c, e) /\ Formed(c)
  BY DEF WriteDelta, Running, Recorded
<1>2. /\ Formed(d) /\ SameFlags(c, d) /\ SameMode(c, d) /\ d.items = c.items
      /\ d.nextIndex = c.nextIndex /\ d.outputItems = c.outputItems
      /\ d.out = Append(c.out, e)
  <2> HIDE DEF e
  <2> QED BY <1>1, WriteIs
<1>3. SameItem(c, d, k)
  BY <1>2 DEF SameItem, OnlyItem, SameFlags, OthersSame
<1>4. /\ Running(d) /\ Grows(c.out, d.out) /\ OthersTold(c, d, k) /\ Longer(c, d, k, piece)
  <2>1. ~ d.items[k].done /\ d.outputItems = c.outputItems
    BY <1>2
  <2>2. d.out = Append(c.out, [type |-> "delta", index |-> c.items[k].index,
                               id |-> IdOf(k, c.items[k]), piece |-> piece])
    BY <1>2
  <2> HIDE DEF e
  <2> QED BY <1>3, <2>1, <2>2, Deliver
<1> QED BY <1>2, <1>4 DEF Delivered

LEMMA ToolKeys ==
  ASSUME NEW k \in Keys \ Texts, NEW it
  PROVE  /\ KindOf(k, it) = ToolKind(it.name) /\ IdOf(k, it) = ToolId(it.name, it.call)
         /\ Streamed(k, it) <=> ~ IsCustom(it.name)
BY DEF KindOf, IdOf, Streamed, Texts

LEMMA PushToolStep ==
  ASSUME NEW c, Going(c), NEW delta \in ToolDeltas,
         ~ c.items[delta.index].done,
         c.items[delta.index].index # 0 => ~ Identified(delta),
         NEW d, d = PushTool(c, delta)
  PROVE  /\ Step(c, d, {delta.index}) /\ SameMode(c, d) /\ ~ d.items[delta.index].done
         /\ d.items[delta.index].index # 0 =>
              c.items[delta.index].index # 0 \/ Identified(delta)
<1> DEFINE k == delta.index
           a == Heard(c, k, delta)
           item == a.items[k]
           identified == item.call # NoCall \/ item.name # NoName
<1>1. k \in Keys \ Texts /\ k \in Keys /\ Log(delta.arguments)
  BY DEF Keys, Texts, Log
<1>2. d = IF item.index # 0 THEN WriteArguments(a, k, delta.arguments)
          ELSE IF identified THEN WriteArguments(AddTool(a, k), k, item.text)
          ELSE a
  BY DEF PushTool, Heard
<1>3. /\ Running(c) /\ Recorded(c) /\ Formed(c) /\ Told(c, k) /\ Log(c.items[k].text)
  BY <1>1, GoingFacts DEF Formed
<1> HIDE DEF k
<1>4. /\ ItemBecame(c, a, k)
      /\ a.items[k].known /\ a.items[k].index = c.items[k].index
      /\ a.items[k].done = c.items[k].done /\ a.items[k].id = c.items[k].id
      /\ a.items[k].call = (IF delta.id = Absent THEN c.items[k].call ELSE delta.id)
      /\ a.items[k].name = (IF delta.name = NoName THEN c.items[k].name ELSE delta.name)
      /\ a.items[k].text = Joined(c.items[k].text, delta.arguments)
  BY <1>1, <1>3, HeardIs
<1> HIDE DEF a
<1>5. /\ Formed(a) /\ SameFlags(c, a) /\ SameMode(c, a) /\ OthersSame(c, a, k)
      /\ a.nextIndex = c.nextIndex /\ a.outputItems = c.outputItems /\ a.out = c.out
      /\ ~ a.items[k].done
  BY <1>4 DEF ItemBecame, k
<1>6. Grows(c.out, c.out)
  BY GoingFacts
<1>7. Log(a.items[k].text)
  BY <1>1, <1>5 DEF Formed
<1>8. CASE c.items[k].index # 0
  <2>1. ~ Identified(delta) /\ ~ c.items[k].done
    BY <1>8 DEF k
  <2>2. a.items[k].call = c.items[k].call /\ a.items[k].name = c.items[k].name
    BY <1>4, <2>1 DEF Identified
  <2>3. c.items[k].known /\ a.items[k].known = c.items[k].known
    <3>1. c.items[k].known
      BY <1>1, <1>3, <1>8 DEF Recorded, Identities
    <3>2. c.items[k].known \in BOOLEAN /\ a.items[k].known \in BOOLEAN
      BY <1>1, <1>3, <1>5 DEF Formed, IsItem
    <3> QED BY <1>4, <3>1, <3>2
  <2>4. SameItem(c, a, k)
    BY <1>4, <1>5, <1>8, <2>2, <2>3 DEF SameItem, OnlyItem, SameFlags
  <2>5. Running(a) /\ OthersTold(c, a, k)
    <3>1. a.items[k].done = c.items[k].done /\ a.outputItems = c.outputItems /\ a.out = c.out
      BY <1>4, <1>5
    <3> QED BY <1>1, <1>3, <2>4, <3>1, Quiet
  <2>6. Streamed(k, a.items[k]) <=> Streamed(k, c.items[k])
    BY <2>2 DEF Streamed
  <2>7. d = WriteArguments(a, k, delta.arguments)
    BY <1>2, <1>4, <1>8
  <2>8. CASE delta.arguments = <<>> \/ IsCustom(a.items[k].name)
    <3>1. d = a
      BY <2>7, <2>8 DEF WriteArguments
    <3>2. Told(a, k)
      <4>1. CASE IsCustom(a.items[k].name)
        BY <1>1, <1>3, <1>4, <1>5, <2>1, <2>6, <4>1, ToolKeys DEF Told
      <4>2. CASE delta.arguments = <<>>
        <5>1. a.items[k].text = c.items[k].text
          BY <1>3, <1>4, <4>2, LogJoined DEF Joined
        <5> QED BY <1>3, <1>4, <1>5, <2>6, <5>1 DEF Told
      <4> QED BY <2>8, <4>1, <4>2
    <3>3. Step(c, d, {k})
      BY <1>1, <1>5, <1>6, <2>5, <3>1, <3>2, IsStep
    <3> QED BY <1>5, <1>8, <3>1, <3>3 DEF k
  <2>9. CASE ~ (delta.arguments = <<>> \/ IsCustom(a.items[k].name))
    <3>1. Streamed(k, a.items[k]) /\ a.items[k].id = IdOf(k, a.items[k])
      <4>1. Streamed(k, a.items[k])
        BY <1>1, <2>9, ToolKeys
      <4> QED BY <1>1, <1>4, <1>8, <2>5, <4>1 DEF Running, Recorded, Identities
    <3>2. d = WriteDelta(a, a.items[k].index, IdOf(k, a.items[k]), delta.arguments)
      BY <2>7, <2>9, <3>1 DEF WriteArguments
    <3>3. /\ Running(d) /\ Grows(a.out, d.out) /\ OthersTold(a, d, k)
          /\ Longer(a, d, k, delta.arguments)
          /\ SameFlags(a, d) /\ SameMode(a, d) /\ d.items = a.items
      <4>1. /\ k \in Keys /\ a.items[k].index # 0 /\ ~ a.items[k].done
            /\ delta.arguments # <<>>
        BY <1>1, <1>4, <1>5, <1>8, <2>9
      <4>2. Delivered(a, d, k, delta.arguments)
        BY <2>5, <3>2, <4>1, DeltaWritten
      <4> QED BY <4>2 DEF Delivered
    <3>4. Told(d, k)
      <4>1. RS!Assembled(c.out, c.items[k].index) = c.items[k].text
        BY <1>3, <1>8, <2>1, <2>6, <3>1 DEF Told
      <4>2. RS!Assembled(d.out, d.items[k].index) = d.items[k].text
        BY <1>4, <1>5, <3>3, <4>1 DEF Longer
      <4> QED BY <3>1, <3>3, <4>2 DEF Told
    <3>5. /\ SameFlags(c, d) /\ SameMode(c, d) /\ OthersSame(c, d, k) /\ OthersTold(c, d, k)
          /\ Grows(c.out, d.out)
      BY <1>5, <2>5, <3>3 DEF SameFlags, SameMode, OthersSame, OthersTold
    <3>6. Step(c, d, {k})
      BY <1>1, <3>3, <3>4, <3>5, IsStep
    <3> QED BY <1>5, <1>8, <3>3, <3>5, <3>6 DEF k
  <2> QED BY <2>8, <2>9
<1>9. CASE c.items[k].index = 0 /\ identified
  <2>1. Identified(delta)
    <3>1. c.items[k].call = NoCall /\ c.items[k].name = NoName
      BY <1>1, <1>3, <1>9 DEF Recorded, Identities
    <3> QED BY <1>4, <1>9, <3>1 DEF Identified
  <2> DEFINE b == AddTool(a, k)
  <2>2. d = WriteArguments(b, k, a.items[k].text)
    BY <1>2, <1>4, <1>9
  <2>3. /\ Running(b) /\ Grows(c.out, b.out) /\ OthersTold(c, b, k)
        /\ SameFlags(c, b) /\ SameMode(c, b) /\ OthersSame(c, b, k)
        /\ RS!Assembled(b.out, b.items[k].index) = <<>>
        /\ b.items[k].index # 0 /\ ~ b.items[k].done /\ b.items[k].text = a.items[k].text
    BY <1>1, <1>4, <1>5, <1>9, AddToolStep
  <2> HIDE DEF b
  <2>4. CASE a.items[k].text = <<>> \/ IsCustom(b.items[k].name)
    <3>1. d = b
      BY <2>2, <2>4 DEF WriteArguments
    <3>2. Told(b, k)
      BY <1>1, <2>3, <2>4, ToolKeys DEF Told
    <3>3. Step(c, d, {k})
      BY <1>1, <2>3, <3>1, <3>2, IsStep
    <3> QED BY <2>1, <2>3, <3>1, <3>3 DEF k
  <2>5. CASE ~ (a.items[k].text = <<>> \/ IsCustom(b.items[k].name))
    <3>1. Streamed(k, b.items[k]) /\ b.items[k].id = IdOf(k, b.items[k])
      <4>1. Streamed(k, b.items[k])
        BY <1>1, <2>5, ToolKeys
      <4> QED BY <1>1, <2>3, <4>1 DEF Running, Recorded, Identities
    <3>2. d = WriteDelta(b, b.items[k].index, IdOf(k, b.items[k]), a.items[k].text)
      BY <2>2, <2>5, <3>1 DEF WriteArguments
    <3>3. /\ Running(d) /\ Grows(b.out, d.out) /\ OthersTold(b, d, k)
          /\ Longer(b, d, k, a.items[k].text)
          /\ SameFlags(b, d) /\ SameMode(b, d) /\ d.items = b.items
      <4>1. a.items[k].text # <<>> /\ k \in Keys
        BY <1>1, <2>5
      <4>2. Delivered(b, d, k, a.items[k].text)
        BY <2>3, <3>2, <4>1, DeltaWritten
      <4> QED BY <4>2 DEF Delivered
    <3>4. Told(d, k)
      <4>1. Joined(<<>>, a.items[k].text) = a.items[k].text
        BY <1>7, LogJoined DEF Joined
      <4>2. RS!Assembled(d.out, d.items[k].index) = d.items[k].text
        BY <2>3, <3>3, <4>1 DEF Longer
      <4> QED BY <3>1, <3>3, <4>2 DEF Told
    <3>5. /\ SameFlags(c, d) /\ SameMode(c, d) /\ OthersSame(c, d, k) /\ OthersTold(c, d, k)
      BY <2>3, <3>3 DEF SameFlags, SameMode, OthersSame, OthersTold
    <3>6. Grows(c.out, d.out)
      BY <2>3, <3>3, GrowsOn
    <3>7. Step(c, d, {k})
      BY <1>1, <3>3, <3>4, <3>5, <3>6, IsStep
    <3> QED BY <2>1, <2>3, <3>3, <3>5, <3>7 DEF k
  <2> QED BY <2>4, <2>5
<1>10. CASE c.items[k].index = 0 /\ ~ identified
  <2>1. d = a
    BY <1>2, <1>4, <1>10
  <2>2. SameItem(c, a, k)
    BY <1>1, <1>4, <1>5, <1>10 DEF SameItem, OnlyItem, SameFlags
  <2>3. Running(a) /\ OthersTold(c, a, k)
    <3>1. a.items[k].done = c.items[k].done /\ a.outputItems = c.outputItems /\ a.out = c.out
      BY <1>4, <1>5
    <3> QED BY <1>1, <1>3, <2>2, <3>1, Quiet
  <2>4. Told(a, k)
    BY <1>4, <1>10 DEF Told
  <2>5. Step(c, d, {k})
    BY <1>1, <1>5, <1>6, <2>1, <2>3, <2>4, IsStep
  <2> QED BY <1>4, <1>5, <1>10, <2>1, <2>5 DEF k
<1> QED BY <1>8, <1>9, <1>10

LEMMA FinalizeToolStep ==
  ASSUME NEW c, Going(c), NEW k \in Keys \ Texts, NEW d, d = FinalizeTool(c, k)
  PROVE  /\ Step(c, d, {k}) /\ SameMode(c, d)
         /\ d.items[k].index # 0 => d.items[k].done
<1>1. /\ Running(c) /\ Recorded(c) /\ Formed(c) /\ Told(c, k) /\ Grows(c.out, c.out)
      /\ IsItem(c.items[k]) /\ k \in Keys
  BY GoingFacts
<1>2. CASE ~ c.items[k].known \/ c.items[k].done
  <2>1. d = c
    BY <1>2 DEF FinalizeTool
  <2>2. c.items[k].index # 0 => c.items[k].known
    BY <1>1 DEF Recorded, Identities
  <2>3. Step(c, c, {k})
    BY StepSelf
  <2> QED BY <1>2, <2>1, <2>2, <2>3 DEF SameMode
<1>3. CASE ~ (~ c.items[k].known \/ c.items[k].done)
  <2> DEFINE a == IF c.items[k].index = 0 THEN AddTool(c, k) ELSE c
             item == a.items[k]
             id == ToolId(item.name, item.call)
             content == ToolContent(item.name, item.text)
             b == IF IsCustom(item.name) THEN WriteDelta(a, item.index, id, content) ELSE a
  <2>1. d = WriteDone(b, k, ToolKind(item.name), id, content)
    BY <1>3 DEF FinalizeTool
  <2>2. /\ Running(a) /\ Grows(c.out, a.out) /\ OthersTold(c, a, k)
        /\ SameFlags(c, a) /\ SameMode(c, a) /\ OthersSame(c, a, k)
        /\ a.items[k].index # 0 /\ ~ a.items[k].done
        /\ IF Streamed(k, a.items[k])
           THEN RS!Assembled(a.out, a.items[k].index) \in {<<>>, a.items[k].text}
           ELSE RS!Assembled(a.out, a.items[k].index) = <<>>
    <3>1. CASE c.items[k].index = 0
      <4>1. a = AddTool(c, k)
        BY <3>1
      <4> HIDE DEF a
      <4>2. ItemBecame(c, c, k)
        BY <1>1 DEF ItemBecame, SameFlags, SameMode, OthersSame
      <4>3. /\ Running(a) /\ Grows(c.out, a.out) /\ OthersTold(c, a, k)
            /\ SameFlags(c, a) /\ SameMode(c, a) /\ OthersSame(c, a, k)
            /\ RS!Assembled(a.out, a.items[k].index) = <<>>
            /\ a.items[k].index # 0 /\ ~ a.items[k].done
        BY <1>3, <3>1, <4>1, <4>2, AddToolStep
      <4> QED BY <4>3
    <3>2. CASE c.items[k].index # 0
      <4>1. a = c
        BY <3>2
      <4> HIDE DEF a
      <4> QED BY <1>1, <1>3, <3>2, <4>1 DEF Told, OthersTold, OthersSame, SameFlags, SameMode
    <3> QED BY <3>1, <3>2
  <2>3. Log(a.items[k].text)
    BY <2>2 DEF Running, Recorded, Formed
  <2>4. id = IdOf(k, a.items[k]) /\ ToolKind(item.name) = KindOf(k, a.items[k])
        /\ (Streamed(k, a.items[k]) <=> ~ IsCustom(item.name))
    BY ToolKeys
  <2>5. IsCustom(item.name) => content # <<>> /\ Joined(<<>>, content) = content
    <3>1. Log(<<"input">>) /\ <<"input">> # <<>>
      <4> DEFINE s == <<"input">>
      <4>1. s \in Seq({"input"}) /\ Len(s) = 1
        OBVIOUS
      <4> HIDE DEF s
      <4>2. Log(s)
        BY <4>1, SeqOfRange DEF Log
      <4>3. s # <<>>
        <5>1. Len(s) # 0
          BY <4>1
        <5> QED BY <5>1
      <4> QED BY <4>2, <4>3 DEF s
    <3> DEFINE text == a.items[k].text
               whole == <<"input">> \o text
    <3>2. Log(whole)
      BY <2>3, <3>1, LogJoined
    <3>3. whole # <<>>
      <4>1. text = <<>> => whole = <<"input">>
        BY <3>1, LogJoined
      <4>2. text # <<>> => whole # <<>>
        BY <2>3, <3>1, LogJoined
      <4> HIDE DEF whole, text
      <4> QED BY <3>1, <4>1, <4>2
    <3>4. IsCustom(item.name) => content = whole
      BY DEF ToolContent
    <3> HIDE DEF whole, content
    <3>5. <<>> \o whole = whole
      BY <3>1, <3>2, LogJoined
    <3> QED BY <3>3, <3>4, <3>5 DEF Joined
  <2>6. ~ IsCustom(item.name) => content = a.items[k].text
    BY DEF ToolContent
  <2> HIDE DEF a, id, content
  <2>7. /\ Running(b) /\ Grows(a.out, b.out) /\ OthersTold(a, b, k)
        /\ SameFlags(a, b) /\ SameMode(a, b) /\ b.items = a.items /\ Fits(b, k, content)
    <3>1. CASE IsCustom(item.name)
      <4>1. b = WriteDelta(a, a.items[k].index, IdOf(k, a.items[k]), content)
        BY <2>4, <3>1
      <4> HIDE DEF b
      <4>2. content # <<>>
        BY <2>5, <3>1
      <4>3. Delivered(a, b, k, content)
        BY <1>1, <2>2, <4>1, <4>2, DeltaWritten
      <4>4. RS!Assembled(a.out, a.items[k].index) = <<>>
        BY <2>2, <2>4, <3>1
      <4>5. Fits(b, k, content)
        BY <2>5, <3>1, <4>3, <4>4 DEF Delivered, Longer, Fits
      <4> QED BY <4>3, <4>5 DEF Delivered
    <3>2. CASE ~ IsCustom(item.name)
      <4>1. b = a
        BY <3>2
      <4> HIDE DEF b
      <4>2. Fits(a, k, content)
        BY <2>2, <2>4, <2>6, <3>2 DEF Fits
      <4>3. Grows(a.out, a.out)
        BY <2>2, GrowsSelf DEF Running, Recorded, Formed
      <4> QED BY <2>2, <4>1, <4>2, <4>3 DEF OthersTold, SameFlags, SameMode
    <3> QED BY <3>1, <3>2
  <2> HIDE DEF b
  <2>8. d = WriteDone(b, k, KindOf(k, b.items[k]), IdOf(k, b.items[k]), content)
    BY <2>1, <2>4, <2>7
  <2> DEFINE kind == KindOf(k, b.items[k])
             iden == IdOf(k, b.items[k])
  <2>9. /\ Formed(d) /\ SameFlags(b, d) /\ SameMode(b, d)
        /\ d.items[k].index = b.items[k].index /\ d.items[k].id = b.items[k].id
        /\ d.items[k].known = b.items[k].known /\ d.items[k].done
        /\ d.items[k].text = b.items[k].text
        /\ d.items[k].call = b.items[k].call /\ d.items[k].name = b.items[k].name
        /\ OthersSame(b, d, k)
        /\ d.nextIndex = b.nextIndex
        /\ d.outputItems = b.outputItems
             \cup {[index |-> b.items[k].index, content |-> content]}
        /\ d.out = Append(b.out, [type |-> "done", index |-> b.items[k].index, kind |-> kind,
                                  id |-> iden, content |-> content])
    <3>1. d = WriteDone(b, k, kind, iden, content) /\ Formed(b) /\ k \in Keys
      BY <1>1, <2>7, <2>8 DEF Running, Recorded
    <3> HIDE DEF kind, iden
    <3> QED BY <3>1, WriteDoneIs
  <2>10. /\ b.items[k].index # 0 /\ ~ b.items[k].done
    BY <2>2, <2>7
  <2>11. SameItem(b, d, k)
    BY <2>9, <2>10 DEF SameItem, OnlyItem, SameFlags
  <2>12. /\ Running(d) /\ Grows(b.out, d.out) /\ OthersTold(b, d, k) /\ Told(d, k)
    BY <1>1, <2>7, <2>9, <2>10, <2>11, Conclude
  <2>13. /\ SameFlags(c, d) /\ SameMode(c, d) /\ OthersSame(c, d, k) /\ OthersTold(c, d, k)
    BY <2>2, <2>7, <2>9, <2>12 DEF SameFlags, SameMode, OthersSame, OthersTold
  <2>14. Grows(c.out, d.out)
    BY <2>2, <2>7, <2>12, GrowsOn
  <2>15. Step(c, d, {k})
    BY <1>1, <2>12, <2>13, <2>14, IsStep
  <2> QED BY <2>9, <2>13, <2>15
<1> QED BY <1>2, <1>3

-----------------------------------------------------------------------------
(* The loop over the tool calls *)

Tools == Keys \ Texts

Finalizes(f, c, m) ==
  f = [n \in 0 .. m |-> IF n = 0 THEN c ELSE FinalizeTool(f[n - 1], ToolIndexes[n])]

LEMMA FinalizesExists ==
  ASSUME NEW c, NEW m \in Nat
  PROVE  \E f : Finalizes(f, c, m)
<1> DEFINE T == {k \in Nat : ~ \E f : Finalizes(f, c, k)}
<1>1. SUFFICES ASSUME T # {} PROVE FALSE
  OBVIOUS
<1>2. PICK k \in T : \A l \in T : k <= l
  <2>1. T \subseteq Nat
    OBVIOUS
  <2> HIDE DEF T
  <2> QED BY <1>1, <2>1, Least
<1>3. k \in Nat /\ ~ \E f : Finalizes(f, c, k)
  OBVIOUS
<1>4. CASE k = 0
  <2> DEFINE f == [n \in 0 .. 0 |-> c]
  <2>1. \A n \in 0 .. 0 : n = 0
    OBVIOUS
  <2>2. f = [n \in 0 .. 0 |-> IF n = 0 THEN c ELSE FinalizeTool(f[n - 1], ToolIndexes[n])]
    BY <2>1
  <2> QED BY <1>3, <1>4, <2>2 DEF Finalizes
<1>5. CASE k # 0
  <2>1. k - 1 \in Nat /\ k - 1 \notin T
    <3> HIDE DEF T
    <3>1. k - 1 \in Nat /\ ~(k <= k - 1)
      BY <1>3, <1>5
    <3> QED BY <1>2, <3>1
  <2>2. PICK g : Finalizes(g, c, k - 1)
    BY <2>1
  <2> DEFINE Made(h, n) == IF n = 0 THEN c ELSE FinalizeTool(h[n - 1], ToolIndexes[n])
             f == [n \in 0 .. k |-> IF n = k THEN Made(g, k) ELSE g[n]]
  <2>3. g = [n \in 0 .. (k - 1) |-> Made(g, n)]
    BY <2>2 DEF Finalizes
  <2>4. \A n \in 0 .. (k - 1) : f[n] = g[n]
    <3> HIDE DEF Made
    <3> QED BY <1>3
  <2>5. f[k] = Made(g, k)
    <3> HIDE DEF Made
    <3> QED BY <1>3
  <2>6. f = [n \in 0 .. k |-> f[n]]
    OBVIOUS
  <2> HIDE DEF f
  <2>7. ASSUME NEW n \in 0 .. k PROVE f[n] = Made(f, n)
    <3>1. n # 0 => n - 1 \in 0 .. (k - 1) /\ f[n - 1] = g[n - 1]
      <4> HIDE DEF Made
      <4> QED BY <1>3, <2>4
    <3>2. Made(f, n) = Made(g, n)
      BY <3>1
    <3> HIDE DEF Made
    <3>3. CASE n = k
      BY <2>5, <3>2, <3>3
    <3>4. CASE n # k
      <4>1. n \in 0 .. (k - 1)
        BY <1>3, <3>4
      <4>2. g[n] = Made(g, n)
        BY <2>3, <4>1
      <4> QED BY <2>4, <3>2, <4>1, <4>2
    <3> QED BY <3>3, <3>4
  <2>8. Finalizes(f, c, k)
    BY <2>6, <2>7 DEF Finalizes
  <2> QED BY <1>3, <2>8
<1> QED BY <1>4, <1>5

LEMMA FinalizeToolsStep ==
  ASSUME NEW c, Going(c), NEW d, d = FinalizeTools(c)
  PROVE  /\ Step(c, d, Tools) /\ SameMode(c, d)
         /\ \A k \in Tools : d.items[k].index # 0 => d.items[k].done
<1> DEFINE m == Len(ToolIndexes)
           f == CHOOSE f : Finalizes(f, c, m)
           Upto(n) == /\ Step(c, f[n], Tools) /\ SameMode(c, f[n])
                      /\ \A i \in 1 .. n : f[n].items[ToolIndexes[i]].index # 0 =>
                                             f[n].items[ToolIndexes[i]].done
<1>1. m \in Nat /\ \A i \in 1 .. m : ToolIndexes[i] \in Tools
  <2>1. ToolIndexes \in Seq(Range(ToolIndexes))
    OBVIOUS
  <2> QED BY <2>1 DEF Tools, Keys, Texts
<1>2. Finalizes(f, c, m)
  BY <1>1, FinalizesExists
<1>3. d = f[m]
  BY DEF FinalizeTools, Finalizes
<1> HIDE DEF f, m
<1>4. f[0] = c /\ \A n \in 1 .. m : f[n] = FinalizeTool(f[n - 1], ToolIndexes[n])
  <2>1. f = [n \in 0 .. m |-> IF n = 0 THEN c ELSE FinalizeTool(f[n - 1], ToolIndexes[n])]
    BY <1>2 DEF Finalizes
  <2>2. 0 \in 0 .. m /\ \A n \in 1 .. m : n \in 0 .. m /\ n # 0
    BY <1>1
  <2> QED BY <2>1, <2>2
<1>5. Upto(0)
  <2>1. Step(c, c, Tools) /\ SameMode(c, c)
    BY StepSelf DEF SameMode
  <2>2. 1 .. 0 = {}
    OBVIOUS
  <2> QED BY <1>4, <2>1, <2>2
<1>6. ASSUME NEW n \in 1 .. m, Upto(n - 1)
      PROVE  Upto(n)
  <2> DEFINE b == f[n - 1]
             e == f[n]
             k == ToolIndexes[n]
  <2>1. e = FinalizeTool(b, k) /\ k \in Keys \ Texts
    BY <1>1, <1>4 DEF Tools
  <2>2. Going(b) /\ Step(c, b, Tools) /\ SameMode(c, b)
    BY <1>6 DEF Step
  <2>3. \A i \in 1 .. n - 1 : b.items[ToolIndexes[i]].index # 0 => b.items[ToolIndexes[i]].done
    BY <1>6
  <2> HIDE DEF b, e, k
  <2>4. Step(b, e, {k}) /\ SameMode(b, e) /\ (e.items[k].index # 0 => e.items[k].done)
    BY <2>1, <2>2, FinalizeToolStep
  <2>5. Step(c, e, Tools) /\ SameMode(c, e)
    <3>1. {k} \subseteq Tools
      BY <2>1 DEF Tools
    <3>2. Step(b, e, Tools)
      BY <2>4, <3>1, StepWider
    <3>3. Step(c, e, Tools)
      BY <2>2, <3>2, StepOn
    <3> QED BY <2>2, <2>4, <3>3 DEF SameMode
  <2>6. ASSUME NEW i \in 1 .. n, e.items[ToolIndexes[i]].index # 0
        PROVE  e.items[ToolIndexes[i]].done
    <3>1. CASE ToolIndexes[i] = k
      BY <2>4, <2>6, <3>1
    <3>2. CASE ToolIndexes[i] # k
      <4>1. i # n
        BY <3>2 DEF k
      <4>2. i \in 1 .. n - 1 /\ i \in 1 .. m
        BY <1>1, <4>1
      <4>3. e.items[ToolIndexes[i]] = b.items[ToolIndexes[i]]
        BY <1>1, <2>4, <3>2, <4>2 DEF Step, Tools
      <4> QED BY <2>3, <2>6, <4>2, <4>3
    <3> QED BY <3>1, <3>2
  <2> QED BY <2>5, <2>6 DEF e
<1>7. Upto(m)
  <2> DEFINE T == {n \in 0 .. m : ~ Upto(n)}
  <2> HIDE DEF Upto
  <2>1. SUFFICES ASSUME T # {} PROVE FALSE
    BY <1>1
  <2>2. PICK n \in T : \A l \in T : n <= l
    <3>1. T \subseteq Nat
      BY <1>1
    <3> HIDE DEF T
    <3> QED BY <2>1, <3>1, Least
  <2>3. n \in 0 .. m /\ ~ Upto(n)
    OBVIOUS
  <2>4. n # 0
    BY <1>5, <2>3
  <2>5. n \in 1 .. m /\ n - 1 \in 0 .. m /\ ~ (n <= n - 1)
    BY <1>1, <2>3, <2>4
  <2>6. Upto(n - 1)
    BY <2>2, <2>5
  <2> QED BY <1>6, <2>3, <2>5, <2>6
<1>8. ASSUME NEW k \in Tools, d.items[k].index # 0
      PROVE  d.items[k].done
  <2>1. PICK i \in 1 .. m : ToolIndexes[i] = k
    <3>1. k \in Range(ToolIndexes)
      BY DEF Tools, Keys, Texts
    <3>2. DOMAIN ToolIndexes = 1 .. m
      BY DEF m
    <3> QED BY <3>1, <3>2 DEF Range
  <2> QED BY <1>3, <1>7, <1>8, <2>1
<1> QED BY <1>3, <1>7, <1>8

-----------------------------------------------------------------------------
(* The end of a response *)

NeverCompleted(h) == \A n \in DOMAIN h : h[n].type # "completed"

AllDone(c) == \A k \in Keys : c.items[k].index # 0 => c.items[k].done

LEMMA NotOverNeverCompleted ==
  ASSUME NEW h, ~ RS!Over(h)
  PROVE  NeverCompleted(h)
BY DEF RS!Over, RS!Terminal, NeverCompleted

(* d is c after the event e that ends the response. *)
EndedBy(c, d, e) ==
  /\ Whole(c) /\ ~ c.completed /\ Formed(d) /\ d.completed
  /\ d.items = c.items /\ d.nextIndex = c.nextIndex /\ d.outputItems = c.outputItems
  /\ e.type \in {"completed", "failed"} /\ e.output = CompletedItems(c)
  /\ d.out = Append(c.out, e)
  /\ e.type = "failed" \/ (c.started /\ AllDone(c))

LEMMA EndStep ==
  ASSUME NEW c, NEW d, NEW e, EndedBy(c, d, e)
  PROVE  Whole(d) /\ Grows(c.out, d.out) /\ (e.type = "completed" \/ NeverCompleted(d.out))
<1>0. /\ Whole(c) /\ ~ c.completed /\ Formed(d) /\ d.completed
      /\ d.items = c.items /\ d.nextIndex = c.nextIndex /\ d.outputItems = c.outputItems
      /\ e.type \in {"completed", "failed"} /\ e.output = CompletedItems(c)
      /\ d.out = Append(c.out, e)
      /\ e.type = "failed" \/ (c.started /\ AllDone(c))
  BY DEF EndedBy
<1>1. Recorded(c) /\ Formed(c) /\ Log(c.out) /\ ~ RS!Over(c.out)
  BY <1>0 DEF Whole, Recorded, Formed, Bounded
<1>2. e.type \notin {"added", "delta", "done"}
  BY <1>0
<1>3. /\ RS!Added(d.out) = RS!Added(c.out)
      /\ SameAnnouncements(c.out, d.out)
      /\ RS!Done(d.out) = RS!Done(c.out)
      /\ DoneItems(d.out) = DoneItems(c.out)
      /\ SameTexts(c.out, d.out)
  BY <1>0, <1>1, <1>2, NothingOfItems
<1>4. RS!Over(d.out)
  BY <1>0, <1>1, OverGrows
<1>5. RS!Legal(c.out, e)
  <2>1. e.output = RS!Output(c.out)
    BY <1>0, <1>1, OutputIsOfDone DEF CompletedItems, Recorded, Concluded
  <2>2. CASE e.type = "failed"
    BY <1>0, <1>1, <2>1, <2>2 DEF RS!Legal
  <2>3. CASE e.type = "completed"
    <3>1. c.out # <<>>
      BY <1>0, <1>1, <2>3 DEF Recorded, Bounded
    <3>2. ASSUME NEW i PROVE i \in RS!Added(c.out) <=> i \in RS!Done(c.out)
      <4>1. i \in RS!Added(c.out) <=> i # 0 /\ \E k \in Keys : c.items[k].index = i
        BY <1>0, <1>1 DEF Recorded, Announced
      <4>2. i \in RS!Done(c.out) <=> \E k \in Keys : c.items[k].done /\ c.items[k].index = i
        BY <1>0, <1>1 DEF Recorded, Concluded
      <4>3. \A k \in Keys : c.items[k].done => c.items[k].index # 0
        BY <1>0, <1>1 DEF Recorded, Identities
      <4>4. AllDone(c)
        BY <1>0, <2>3
      <4> QED BY <4>1, <4>2, <4>3, <4>4 DEF AllDone
    <3>3. RS!Added(c.out) = RS!Done(c.out)
      BY <3>2
    <3> QED BY <1>0, <1>1, <2>1, <2>3, <3>1, <3>3 DEF RS!Legal
  <2> QED BY <1>0, <2>2, <2>3
<1>6. Grows(c.out, d.out)
  BY <1>0, <1>1, <1>5, GrowsByOne
<1>7. Numbered(d) /\ Identities(d)
  BY <1>0, <1>1 DEF Recorded, Numbered, Identities
<1>8. Announced(d) /\ Concluded(d) /\ Untold(d)
  <2>1. Announced(d)
    <3>1. \A i : i \in RS!Added(d.out) <=> i # 0 /\ \E k \in Keys : d.items[k].index = i
      BY <1>0, <1>1, <1>3 DEF Recorded, Announced
    <3>2. \A n \in RS!Events(d.out, "added"), k \in Keys :
            d.out[n].index = d.items[k].index =>
              d.out[n].kind = KindOf(k, d.items[k]) /\ d.out[n].id = IdOf(k, d.items[k])
      <4>1. /\ RS!Events(d.out, "added") = RS!Events(c.out, "added")
            /\ \A n \in RS!Events(c.out, "added") : d.out[n] = c.out[n]
        BY <1>3 DEF SameAnnouncements
      <4>2. Announced(c)
        BY <1>0, <1>1 DEF Recorded
      <4>3. d.items = c.items
        BY <1>0
      <4> QED BY ONLY <4>1, <4>2, <4>3 DEF Announced
    <3> QED BY <3>1, <3>2 DEF Announced
  <2>2. Concluded(d)
    BY <1>0, <1>1, <1>3 DEF Recorded, Concluded
  <2>3. Untold(d)
    BY <1>0, <1>1, <1>3 DEF Recorded, Untold, SameTexts
  <2> QED BY <2>1, <2>2, <2>3
<1>9. Bounded(d)
  BY <1>0, <1>4 DEF Bounded
<1>10. \A k \in Keys : Told(d, k)
  BY <1>0, <1>3 DEF Whole, Told, SameTexts
<1>11. e.type = "completed" \/ NeverCompleted(d.out)
  <2>1. /\ DOMAIN c.out = 1 .. Len(c.out) /\ DOMAIN d.out = 1 .. Len(c.out) + 1
        /\ \A n \in 1 .. Len(c.out) : d.out[n] = c.out[n]
        /\ d.out[Len(c.out) + 1] = e /\ Len(c.out) \in Nat
    BY <1>0, <1>1, LogFacts, LogAppend
  <2>2. 1 .. Len(c.out) + 1 = (1 .. Len(c.out)) \cup {Len(c.out) + 1}
    BY <2>1
  <2>3. NeverCompleted(c.out)
    BY <1>0, <1>1, NotOverNeverCompleted
  <2> QED BY <1>0, <2>1, <2>2, <2>3 DEF NeverCompleted
<1> QED BY <1>0, <1>6, <1>7, <1>8, <1>9, <1>10, <1>11 DEF Whole, Recorded

(* Between two blocks everything but the reasoning of an answer is open. *)
Resting(c) == TextOpen(c) /\ \A k \in Tools : ~ c.items[k].done

LEMMA FailedStep ==
  ASSUME NEW c, Whole(c), ~ c.completed, NEW d, d = FailedInto(c)
  PROVE  /\ Whole(d) /\ Grows(c.out, d.out) /\ d.completed /\ d.failed /\ SameMode(c, d)
         /\ NeverCompleted(d.out)
<1> DEFINE e == [type |-> "failed", output |-> CompletedItems(c)]
<1>1. Formed(c) /\ IsConverter(c) /\ Log(c.out)
  BY DEF Whole, Recorded, Formed, IsConverter
<1>2. d = [[c EXCEPT !.completed = TRUE, !.failed = TRUE] EXCEPT !.out = Append(@, e)]
  BY DEF FailedInto, Write
<1>3. e.type = "failed" /\ e.output = CompletedItems(c)
  OBVIOUS
<1> HIDE DEF e
<1>4. /\ IsConverter(d) /\ d.started = c.started /\ d.completed = TRUE /\ d.failed = TRUE
      /\ SameMode(c, d) /\ d.items = c.items /\ d.nextIndex = c.nextIndex
      /\ d.outputItems = c.outputItems /\ d.out = Append(c.out, e)
  BY <1>1, <1>2 DEF IsConverter, SameMode
<1>5. Log(d.out)
  BY <1>1, <1>4, LogAppend
<1>6. Formed(d)
  BY <1>1, <1>4, <1>5 DEF Formed, IsConverter, SameMode
<1>7. Whole(d) /\ Grows(c.out, d.out) /\ NeverCompleted(d.out)
  <2>1. EndedBy(c, d, e)
    BY <1>3, <1>4, <1>6 DEF EndedBy
  <2> QED BY <1>3, <2>1, EndStep
<1> QED BY <1>4, <1>7

LEMMA FinalizeStep ==
  ASSUME NEW c, Whole(c), ~ c.completed, Resting(c), NEW d, d = Finalize(c)
  PROVE  /\ Whole(d) /\ Grows(c.out, d.out) /\ d.completed /\ d.failed = c.failed
         /\ d.mode = "text" /\ d.think = <<>>
<1> DEFINE started == EnsureStarted(c)
           flushed == FlushThink(started)
           reasoned == FinalizeReasoning(flushed)
           answered == FinalizeText(reasoned)
           all == FinalizeTools(answered)
           e == [type |-> "completed", status |-> ResponseStatus(all.finishReason),
                 output |-> CompletedItems(all)]
<1>1. d = Write([all EXCEPT !.completed = TRUE], e)
  BY DEF Finalize
<1>2. /\ Going(started) /\ Grows(c.out, started.out) /\ SameMode(c, started)
      /\ started.items = c.items /\ started.failed = c.failed
  BY StartedStep
<1>3. TextOpen(started)
  BY <1>2 DEF Resting, TextOpen, SameMode
<1> HIDE DEF started
<1>4. Step(started, flushed, Texts) /\ TextOpen(flushed) /\ flushed.mode = "text"
  BY <1>2, <1>3, FlushThinkStep
<1> HIDE DEF flushed
<1>5. /\ Step(flushed, reasoned, {"reasoning"}) /\ SameMode(flushed, reasoned)
      /\ reasoned.items["reasoning"].index # 0 => reasoned.items["reasoning"].done
  BY <1>4, ReasoningFinalized DEF Step
<1> HIDE DEF reasoned
<1>6. /\ Step(reasoned, answered, {"text"}) /\ SameMode(reasoned, answered)
      /\ answered.items["text"].index # 0 => answered.items["text"].done
  BY <1>5, TextFinalized DEF Step
<1> HIDE DEF answered
<1>7. /\ Step(answered, all, Tools) /\ SameMode(answered, all)
      /\ \A k \in Tools : all.items[k].index # 0 => all.items[k].done
  BY <1>6, FinalizeToolsStep DEF Step
<1> HIDE DEF all
<1>8. Grows(c.out, all.out)
  <2>1. Grows(started.out, flushed.out) /\ Grows(flushed.out, reasoned.out)
        /\ Grows(reasoned.out, answered.out) /\ Grows(answered.out, all.out)
    BY <1>4, <1>5, <1>6, <1>7 DEF Step
  <2>2. Grows(c.out, flushed.out)
    BY <1>2, <2>1, GrowsOn
  <2>3. Grows(c.out, reasoned.out)
    BY <2>1, <2>2, GrowsOn
  <2>4. Grows(c.out, answered.out)
    BY <2>1, <2>3, GrowsOn
  <2> QED BY <2>1, <2>4, GrowsOn
<1>9. Whole(all) /\ all.started /\ ~ all.completed /\ all.failed = c.failed
      /\ all.mode = "text" /\ all.think = <<>>
  BY <1>2, <1>4, <1>5, <1>6, <1>7 DEF Step, Going, SameFlags, SameMode, TextOpen
<1>10. AllDone(all)
  <2>1. /\ all.items["reasoning"] = answered.items["reasoning"]
        /\ answered.items["reasoning"] = reasoned.items["reasoning"]
        /\ all.items["text"] = answered.items["text"]
    BY <1>6, <1>7, OtherText DEF Step, Tools, Texts
  <2>2. \A k \in Keys : k \in Tools \/ k = "reasoning" \/ k = "text"
    BY DEF Tools, Texts
  <2> QED BY <1>5, <1>6, <1>7, <2>1, <2>2 DEF AllDone
<1>11. e.type = "completed" /\ e.output = CompletedItems(all)
  OBVIOUS
<1> HIDE DEF e
<1>12. Formed(all) /\ IsConverter(all) /\ Log(all.out)
  BY <1>9 DEF Whole, Recorded, Formed, IsConverter
<1>13. d = [[all EXCEPT !.completed = TRUE] EXCEPT !.out = Append(@, e)]
  BY <1>1 DEF Write
<1>14. /\ IsConverter(d) /\ d.started = all.started /\ d.completed = TRUE
       /\ d.failed = all.failed /\ SameMode(all, d) /\ d.items = all.items
       /\ d.nextIndex = all.nextIndex
       /\ d.outputItems = all.outputItems /\ d.out = Append(all.out, e)
  BY <1>12, <1>13 DEF IsConverter, SameMode
<1>15. Formed(d)
  <2>1. Log(d.out)
    BY <1>12, <1>14, LogAppend
  <2> QED BY <1>12, <1>14, <2>1 DEF Formed, IsConverter, SameMode
<1>16. Whole(d) /\ Grows(all.out, d.out)
  <2>1. EndedBy(all, d, e)
    BY <1>9, <1>10, <1>11, <1>14, <1>15 DEF EndedBy
  <2> QED BY <2>1, EndStep
<1>17. Grows(c.out, d.out)
  BY <1>8, <1>16, GrowsOn
<1> QED BY <1>9, <1>14, <1>16, <1>17 DEF SameMode

-----------------------------------------------------------------------------
(* A block is handled. *)

(* What the converter relies on when it gets a block. *)
Expected(c, block) ==
  /\ Whole(c) /\ ~ c.completed /\ ~ c.failed /\ Resting(c) /\ block \in Blocks
  /\ block.type = "reasoning" => c.mode # "text"
  /\ block.type = "tool" /\ Identified(block.delta) => c.items[block.delta.index].index = 0

Announces(block, k) ==
  block.type = "tool" /\ block.delta.index = k /\ Identified(block.delta)

After(c, d, block) ==
  /\ Whole(d) /\ Grows(c.out, d.out)
  /\ d.mode = "text" => d.think = <<>>
  /\ d.completed <=> block.type \in {"[DONE]", "error"}
  /\ d.failed <=> block.type = "error"
  /\ ~ d.completed => Resting(d)
  /\ ~ d.completed /\ d.mode = "text" => c.mode = "text" \/ block.type \in {"content", "tool"}
  /\ ~ d.completed =>
       \A k \in Tools : d.items[k].index # 0 => c.items[k].index # 0 \/ Announces(block, k)
  /\ block.type # "[DONE]" => NeverCompleted(d.out)

LEMMA BlockKinds ==
  ASSUME NEW block \in Blocks
  PROVE  \/ block.type = "content" /\ block.piece \in ContentDeltas
         \/ block.type = "tool" /\ block.delta \in ToolDeltas
         \/ block.type = "finish" /\ block = CutShort
         \/ block.type = "reasoning"
         \/ block.type = "error"
         \/ block.type = "[DONE]"
BY DEF Blocks, Content, Tool, CutShort, Finish, Reasoning, Error, DoneBlock

LEMMA GoingIsNeverCompleted ==
  ASSUME NEW d, Going(d)
  PROVE  NeverCompleted(d.out) /\ Whole(d) /\ ~ d.completed
BY NotOverNeverCompleted DEF Going, Whole, Recorded, Bounded

LEMMA HandleBlockStep ==
  ASSUME NEW c, NEW block, Expected(c, block), NEW d, d = HandleBlock(c, block)
  PROVE  After(c, d, block)
<1> DEFINE chunk == EnsureStarted(c)
<1>1. /\ Whole(c) /\ ~ c.completed /\ ~ c.failed /\ Resting(c) /\ block \in Blocks
      /\ block.type = "reasoning" => c.mode # "text"
      /\ block.type = "tool" /\ Identified(block.delta) => c.items[block.delta.index].index = 0
  BY DEF Expected
<1>2. /\ Going(chunk) /\ Grows(c.out, chunk.out) /\ SameMode(c, chunk)
      /\ chunk.items = c.items /\ chunk.failed = c.failed
  BY <1>1, StartedStep
<1>3. d = CASE block.type = "[DONE]" -> Finalize(c)
            [] block.type = "error" -> FailedInto(c)
            [] block.type = "reasoning" -> PushReasoning(chunk, ReasoningDelta)
            [] block.type = "content" -> PushContent(chunk, block.piece)
            [] block.type = "tool" ->
                 PushTool(FinalizeReasoning(FlushThink(chunk)), block.delta)
            [] block.type = "finish" -> [chunk EXCEPT !.finishReason = block.reason]
  BY DEF HandleBlock
<1> HIDE DEF chunk
<1>4. TextOpen(chunk) /\ \A k \in Tools : ~ chunk.items[k].done
  BY <1>1, <1>2 DEF Resting, TextOpen, SameMode
<1>5. Tools = Keys \ Texts /\ Texts \subseteq Keys
  BY DEF Tools, Texts, Keys
<1>6. ASSUME NEW K, Step(chunk, d, K), TextOpen(d), \A k \in Tools : ~ d.items[k].done,
             block.type \notin {"[DONE]", "error"},
             d.mode = "text" => c.mode = "text" \/ block.type \in {"content", "tool"},
             \A k \in Tools : d.items[k].index # 0 => c.items[k].index # 0 \/ Announces(block, k)
      PROVE  After(c, d, block)
  <2>1. Going(d) /\ Grows(chunk.out, d.out) /\ d.failed = chunk.failed
    BY <1>6 DEF Step, SameFlags
  <2>2. Grows(c.out, d.out)
    BY <1>2, <2>1, GrowsOn
  <2>3. NeverCompleted(d.out) /\ Whole(d) /\ ~ d.completed
    BY <2>1, GoingIsNeverCompleted
  <2> QED BY <1>1, <1>2, <1>6, <2>1, <2>2, <2>3 DEF After, Resting, TextOpen
<1>7. CASE block.type = "[DONE]"
  <2>1. d = Finalize(c)
    BY <1>3, <1>7
  <2>2. /\ Whole(d) /\ Grows(c.out, d.out) /\ d.completed /\ d.failed = c.failed
        /\ d.mode = "text" /\ d.think = <<>>
    BY <1>1, <2>1, FinalizeStep
  <2> QED BY <1>1, <1>7, <2>2 DEF After
<1>8. CASE block.type = "error"
  <2>1. d = FailedInto(c)
    BY <1>3, <1>8
  <2>2. /\ Whole(d) /\ Grows(c.out, d.out) /\ d.completed /\ d.failed /\ SameMode(c, d)
        /\ NeverCompleted(d.out)
    BY <1>1, <2>1, FailedStep
  <2> QED BY <1>1, <1>8, <2>2 DEF After, SameMode, Resting, TextOpen
<1>9. CASE block.type = "reasoning"
  <2>1. d = PushReasoning(chunk, ReasoningDelta)
    BY <1>3, <1>9
  <2>2. ~ chunk.items["reasoning"].done /\ c.mode # "text"
    BY <1>1, <1>2, <1>4, <1>9 DEF TextOpen, SameMode
  <2>3. /\ Step(chunk, d, {"reasoning"}) /\ SameMode(chunk, d) /\ ~ d.items["reasoning"].done
    BY <1>2, <2>1, <2>2, ReasoningPushed
  <2>4. d.items["text"] = chunk.items["text"] /\ \A k \in Tools : d.items[k] = chunk.items[k]
    BY <1>5, <2>3, OtherText DEF Step
  <2>5. TextOpen(d) /\ d.mode # "text" /\ \A k \in Tools : ~ d.items[k].done
    BY <1>2, <1>4, <2>2, <2>3, <2>4 DEF TextOpen, SameMode
  <2>6. \A k \in Tools : d.items[k].index # 0 => c.items[k].index # 0
    BY <1>2, <2>4
  <2> QED BY <1>6, <1>9, <2>3, <2>5, <2>6
<1>10. CASE block.type = "content"
  <2>1. d = PushContent(chunk, block.piece)
    BY <1>3, <1>10
  <2>2. block.piece # <<>> /\ Log(block.piece)
    <3>1. block.piece \in ContentDeltas
      BY <1>1, <1>10, BlockKinds
    <3> QED BY <3>1 DEF Log
  <2>3. Step(chunk, d, Texts) /\ TextOpen(d)
    BY <1>2, <1>4, <2>1, <2>2, PushContentStep
  <2>4. \A k \in Tools : d.items[k] = chunk.items[k]
    BY <1>5, <2>3 DEF Step
  <2>5. /\ \A k \in Tools : ~ d.items[k].done
        /\ \A k \in Tools : d.items[k].index # 0 => c.items[k].index # 0
    BY <1>2, <1>4, <2>4
  <2> QED BY <1>6, <1>10, <2>3, <2>5
<1>11. CASE block.type = "tool"
  <2> DEFINE k == block.delta.index
             flushed == FlushThink(chunk)
             told == FinalizeReasoning(flushed)
  <2>1. d = PushTool(told, block.delta)
    BY <1>3, <1>11
  <2>2. block.delta \in ToolDeltas /\ k \in Tools
    <3>1. block.delta \in ToolDeltas
      BY <1>1, <1>11, BlockKinds
    <3>2. block.delta.index \in Range(ToolIndexes)
      BY <3>1
    <3> QED BY <1>5, <3>1, <3>2 DEF Keys, Texts
  <2> HIDE DEF k
  <2>3. Step(chunk, flushed, Texts) /\ TextOpen(flushed) /\ flushed.mode = "text"
    BY <1>2, <1>4, FlushThinkStep
  <2> HIDE DEF flushed
  <2>4. Step(flushed, told, {"reasoning"}) /\ SameMode(flushed, told)
    BY <2>3, ReasoningFinalized DEF Step
  <2> HIDE DEF told
  <2>5. \A j \in Tools : told.items[j] = c.items[j]
    BY <1>2, <1>5, <2>3, <2>4, OtherText DEF Step
  <2>6. told.items["text"] = flushed.items["text"]
    BY <2>4, OtherText DEF Step
  <2>7. Going(told) /\ ~ told.items[k].done /\ (told.items[k].index # 0 => ~ Identified(block.delta))
    BY <1>1, <1>11, <2>2, <2>4, <2>5 DEF Step, Resting, k
  <2>8. /\ Step(told, d, {k}) /\ SameMode(told, d) /\ ~ d.items[k].done
        /\ d.items[k].index # 0 => told.items[k].index # 0 \/ Identified(block.delta)
    BY <2>1, <2>2, <2>7, PushToolStep DEF k
  <2>9. d.items["text"] = told.items["text"] /\ \A j \in Tools \ {k} : d.items[j] = told.items[j]
    BY <1>5, <2>2, <2>8, OtherText DEF Step
  <2>10. Step(chunk, d, Keys)
    <3>1. {"reasoning"} \subseteq Keys /\ {k} \subseteq Keys
      BY <1>5, <2>2, OtherText
    <3>2. Step(chunk, flushed, Keys) /\ Step(flushed, told, Keys) /\ Step(told, d, Keys)
      BY <1>5, <2>3, <2>4, <2>8, <3>1, StepWider
    <3>3. Step(chunk, told, Keys)
      BY <3>2, StepOn
    <3> QED BY <3>2, <3>3, StepOn
  <2>11. TextOpen(d)
    BY <2>3, <2>4, <2>6, <2>8, <2>9 DEF TextOpen, SameMode
  <2>12. \A j \in Tools : ~ d.items[j].done
    BY <1>1, <2>5, <2>8, <2>9 DEF Resting
  <2>13. \A j \in Tools : d.items[j].index # 0 => c.items[j].index # 0 \/ Announces(block, j)
    BY <1>11, <2>2, <2>5, <2>8, <2>9 DEF Announces, k
  <2> QED BY <1>6, <1>11, <2>10, <2>11, <2>12, <2>13
<1>12. CASE block.type = "finish"
  <2> DEFINE reason == block.reason
  <2>1. d = [chunk EXCEPT !.finishReason = reason]
    BY <1>3, <1>12
  <2> HIDE DEF reason
  <2>2. Formed(chunk) /\ IsConverter(chunk)
    BY <1>2, GoingFacts DEF Formed, IsConverter
  <2>3. /\ IsConverter(d) /\ SameFlags(chunk, d) /\ d.items = chunk.items
        /\ d.nextIndex = chunk.nextIndex /\ d.outputItems = chunk.outputItems
        /\ d.out = chunk.out /\ d.mode = chunk.mode /\ d.think = chunk.think
    BY <2>1, <2>2 DEF IsConverter, SameFlags
  <2>4. d.mode \in {"detecting", "reasoning", "text"} /\ Log(d.think)
    BY <2>2, <2>3 DEF Formed
  <2>5. Step(chunk, d, {})
    BY <1>2, <2>3, <2>4, ModeStep
  <2>6. TextOpen(d) /\ \A k \in Tools : ~ d.items[k].done
    BY <1>4, <2>3 DEF TextOpen
  <2>7. d.mode = "text" => c.mode = "text"
    BY <1>2, <2>3 DEF SameMode
  <2>8. \A k \in Tools : d.items[k].index # 0 => c.items[k].index # 0
    BY <1>2, <2>3
  <2> QED BY <1>6, <1>12, <2>5, <2>6, <2>7, <2>8
<1> QED BY <1>1, <1>7, <1>8, <1>9, <1>10, <1>11, <1>12, BlockKinds

-----------------------------------------------------------------------------
(* The inductive invariant of the stream *)

(* The number of blocks that were handled: the others are in the buffer and on the wire. *)
HandledCount == Len(sent) - (Len(buffer) + Len(wire))

WasHandled(type) == \E n \in 1 .. HandledCount : sent[n].type = type

(* Where a block is: handled, then in the buffer, then on the wire. *)
Placed ==
  /\ sent \in Seq(Blocks) /\ buffer \in Seq(Blocks) /\ wire \in Seq(Blocks)
  /\ Len(buffer) + Len(wire) <= Len(sent)
  /\ \A n \in 1 .. Len(buffer) : buffer[n] = sent[HandledCount + n]
  /\ \A n \in 1 .. Len(wire) : wire[n] = sent[HandledCount + Len(buffer) + n]

(* May block b be sent after block a? *)
MayFollow(a, b) ==
  /\ a.type # "[DONE]"
  /\ a.type = "error" => b.type = "[DONE]"
  /\ b.type = "reasoning" => a.type \notin {"content", "tool"}
  /\ a.type = "tool" /\ b.type = "tool" =>
       ~ (Announces(a, b.delta.index) /\ Identified(b.delta))

Ordered == \A m, n \in 1 .. Len(sent) : m < n => MayFollow(sent[m], sent[n])

Looped ==
  /\ upstream \in {"open", "ended", "broken"}
  /\ loop \in {"reading", "handling", "ended"}
  /\ loop = "handling" => buffer # <<>>
  /\ loop = "reading" /\ ~ conv.failed => buffer = <<>>
  /\ loop = "ended" => upstream # "open"
  /\ upstream = "broken" =>
       \A n \in 1 .. Len(sent) : sent[n].type \notin {"[DONE]", "error"}

(* What the converter knows of the blocks it was given. *)
Informed ==
  /\ conv.mode = "text" => WasHandled("content") \/ WasHandled("tool")
  /\ \A k \in Tools :
       conv.items[k].index # 0 => \E n \in 1 .. HandledCount : Announces(sent[n], k)

Converted ==
  /\ conv.mode = "text" => conv.think = <<>>
  /\ conv.failed => conv.completed
  /\ ~ conv.completed => Resting(conv) /\ Informed
  /\ loop # "ended" => (conv.completed <=> WasHandled("[DONE]") \/ WasHandled("error"))
  /\ WasHandled("error") => conv.failed

ToldOnce ==
  NeverCompleted(conv.out)
  \/ (/\ upstream # "broken"
      /\ \A n \in 1 .. Len(sent) : sent[n].type # "error"
      /\ loop = "ended" \/ WasHandled("[DONE]"))

AnswerInv == Placed /\ Ordered /\ Looped /\ Whole(conv) /\ Converted /\ ToldOnce

-----------------------------------------------------------------------------
(* The beginning *)

LEMMA NewConverterIsWhole ==
  ASSUME NEW c, c = NewConverter
  PROVE  /\ Whole(c) /\ c.items = [k \in Keys |-> NewItem] /\ c.mode = "detecting"
         /\ c.think = <<>> /\ ~ c.completed /\ ~ c.failed /\ c.out = <<>>
<1>1. /\ c.started = FALSE /\ c.completed = FALSE /\ c.failed = FALSE /\ c.nextIndex = 1
      /\ c.items = [k \in Keys |-> NewItem] /\ c.mode = "detecting" /\ c.think = <<>>
      /\ c.outputItems = {} /\ c.finishReason = NoName /\ c.out = <<>>
      /\ IsConverter(c)
  BY DEF NewConverter, IsConverter
<1>2. /\ NewItem.known = FALSE /\ NewItem.index = 0 /\ NewItem.done = FALSE
      /\ NewItem.text = <<>> /\ NewItem.call = NoCall /\ NewItem.name = NoName
      /\ IsItem(NewItem)
  BY DEF NewItem, IsItem
<1>3. \A k \in Keys : c.items[k] = NewItem
  BY <1>1
<1>4. Formed(c)
  <2>1. c.items = [k \in Keys |-> c.items[k]]
    BY <1>1
  <2>2. /\ \A k \in Keys : IsItem(c.items[k])
        /\ \A k \in Keys \ Texts : Log(c.items[k].text)
    BY <1>2, <1>3, EmptyLog
  <2>3. /\ c.mode \in {"detecting", "reasoning", "text"} /\ Log(c.think) /\ Log(c.out)
        /\ c.nextIndex \in Nat
        /\ c.started \in BOOLEAN /\ c.completed \in BOOLEAN /\ c.failed \in BOOLEAN
    <3>1. c.mode \in {"detecting", "reasoning", "text"} /\ c.nextIndex \in Nat
      BY <1>1
    <3>2. c.started \in BOOLEAN /\ c.completed \in BOOLEAN /\ c.failed \in BOOLEAN
      BY <1>1
    <3>3. Log(c.think) /\ Log(c.out)
      BY <1>1, EmptyLog
    <3> QED BY <3>1, <3>2, <3>3
  <2> QED BY <1>1, <2>1, <2>2, <2>3 DEF Formed, IsConverter
<1>5. Numbered(c)
  BY <1>1, <1>2, <1>3 DEF Numbered
<1>6. Identities(c)
  BY <1>2, <1>3 DEF Identities
<1>7. Announced(c)
  <2>1. RS!Events(c.out, "added") = {} /\ RS!Added(c.out) = {}
    BY <1>1, OfNone, EmptyLog DEF RS!Events
  <2> QED BY <1>2, <1>3, <2>1 DEF Announced
<1>8. Concluded(c)
  BY <1>1, <1>2, <1>3, OfNone DEF Concluded
<1>9. Untold(c)
  BY <1>1, AssembledOfNone DEF Untold
<1>10. Bounded(c)
  BY <1>1, OfNone DEF Bounded
<1>11. \A k \in Keys : Told(c, k)
  BY <1>2, <1>3 DEF Told
<1> QED BY <1>1, <1>4, <1>5, <1>6, <1>7, <1>8, <1>9, <1>10, <1>11 DEF Whole, Recorded

LEMMA StreamBegins == Init => AnswerInv
<1>1. SUFFICES ASSUME Init PROVE AnswerInv
  OBVIOUS
<1>2. /\ upstream = "open" /\ sent = <<>> /\ wire = <<>> /\ loop = "reading" /\ buffer = <<>>
      /\ conv = NewConverter
  BY <1>1 DEF Init
<1>3. /\ Whole(conv) /\ conv.items = [k \in Keys |-> NewItem] /\ conv.mode = "detecting"
      /\ conv.think = <<>> /\ ~ conv.completed /\ ~ conv.failed /\ conv.out = <<>>
  BY <1>2, NewConverterIsWhole
<1>4. Len(sent) = 0 /\ Len(wire) = 0 /\ Len(buffer) = 0 /\ HandledCount = 0
  <2>1. Len(sent) = 0 /\ Len(wire) = 0 /\ Len(buffer) = 0
    BY <1>2, EmptyLog
  <2> QED BY <2>1 DEF HandledCount
<1>5. Placed /\ Ordered
  BY <1>2, <1>4 DEF Placed, Ordered
<1>6. Looped
  BY <1>2, <1>4 DEF Looped
<1>7. \A k \in Keys : conv.items[k].index = 0 /\ ~ conv.items[k].done
  BY <1>3 DEF NewItem
<1>8. Resting(conv) /\ Informed
  BY <1>3, <1>7, OtherText DEF Resting, TextOpen, Informed, Tools
<1>9. \A type : ~ WasHandled(type)
  BY <1>4 DEF WasHandled
<1>10. Converted
  BY <1>3, <1>8, <1>9 DEF Converted
<1>11. ToldOnce
  BY <1>3, EmptyLog DEF ToldOnce, NeverCompleted
<1> QED BY <1>3, <1>5, <1>6, <1>10, <1>11 DEF AnswerInv

-----------------------------------------------------------------------------
(* The steps that handle no block *)

(* What the invariants say is the same when the handled blocks are. *)
SameHandled ==
  /\ HandledCount' = HandledCount
  /\ \A n \in 1 .. HandledCount : sent'[n] = sent[n]

LEMMA CountFacts ==
  ASSUME Placed
  PROVE  /\ Len(sent) \in Nat /\ Len(buffer) \in Nat /\ Len(wire) \in Nat
         /\ HandledCount \in Nat /\ HandledCount + Len(buffer) + Len(wire) = Len(sent)
         /\ 1 .. HandledCount \subseteq 1 .. Len(sent)
         /\ \A n \in 1 .. Len(sent) : sent[n] \in Blocks
<1>1. Len(sent) \in Nat /\ Len(buffer) \in Nat /\ Len(wire) \in Nat
      /\ Len(buffer) + Len(wire) <= Len(sent) /\ \A n \in 1 .. Len(sent) : sent[n] \in Blocks
  BY DEF Placed
<1> QED BY <1>1 DEF HandledCount

LEMMA HandledTheSame ==
  ASSUME SameHandled
  PROVE  /\ \A type : WasHandled(type)' <=> WasHandled(type)
         /\ \A k : (\E n \in 1 .. HandledCount : Announces(sent[n], k))
                     <=> (\E n \in 1 .. HandledCount : Announces(sent[n], k))'
BY DEF SameHandled, WasHandled

LEMMA BlocksStay ==
  ASSUME Placed, Ordered, UNCHANGED <<sent, wire, buffer>>
  PROVE  Placed' /\ Ordered' /\ SameHandled /\ HandledCount' = HandledCount
<1>1. HandledCount' = HandledCount
  BY DEF HandledCount
<1> QED BY <1>1 DEF Placed, Ordered, SameHandled

LEMMA ConvertedStays ==
  ASSUME Converted, SameHandled, conv' = conv, loop' # "ended" => loop # "ended"
  PROVE  Converted'
<1>1. /\ WasHandled("content")' <=> WasHandled("content")
      /\ WasHandled("tool")' <=> WasHandled("tool")
      /\ WasHandled("[DONE]")' <=> WasHandled("[DONE]")
      /\ WasHandled("error")' <=> WasHandled("error")
  BY HandledTheSame
<1>2. Informed => Informed'
  <2>1. SUFFICES ASSUME Informed PROVE Informed'
    OBVIOUS
  <2>2. conv'.mode = "text" => WasHandled("content")' \/ WasHandled("tool")'
    BY <1>1, <2>1 DEF Informed
  <2>3. ASSUME NEW k \in Tools, conv'.items[k].index # 0
        PROVE  \E n \in 1 .. HandledCount' : Announces(sent'[n], k)
    <3>1. PICK n \in 1 .. HandledCount : Announces(sent[n], k)
      BY <2>1, <2>3 DEF Informed
    <3> QED BY <3>1 DEF SameHandled
  <2> QED BY <2>2, <2>3 DEF Informed
<1>3. conv.mode = "text" => conv.think = <<>>
  BY DEF Converted
<1>4. conv.failed => conv.completed
  BY DEF Converted
<1>5. ~ conv.completed => Resting(conv) /\ Informed
  BY DEF Converted
<1>6. loop # "ended" => (conv.completed <=> WasHandled("[DONE]") \/ WasHandled("error"))
  BY DEF Converted
<1>7. WasHandled("error") => conv.failed
  BY DEF Converted
<1>8. loop' # "ended" => (conv'.completed <=> WasHandled("[DONE]")' \/ WasHandled("error")')
  BY <1>1, <1>6
<1>9. ~ conv'.completed => Resting(conv') /\ Informed'
  BY <1>2, <1>5
<1> QED BY <1>1, <1>3, <1>4, <1>7, <1>8, <1>9 DEF Converted

LEMMA Sends ==
  ASSUME AnswerInv, NEW block \in Blocks, UpstreamSends(block)
  PROVE  AnswerInv' /\ SameHandled
<1>1. /\ upstream = "open" /\ InOrder(block)
      /\ sent' = Append(sent, block) /\ wire' = Append(wire, block)
      /\ upstream' = upstream /\ loop' = loop /\ buffer' = buffer /\ conv' = conv
  BY DEF UpstreamSends
<1>2. Placed /\ Ordered /\ Looped /\ Whole(conv) /\ Converted /\ ToldOnce
  BY DEF AnswerInv
<1>3. /\ Len(sent) \in Nat /\ Len(buffer) \in Nat /\ Len(wire) \in Nat
      /\ HandledCount \in Nat /\ HandledCount + Len(buffer) + Len(wire) = Len(sent)
  BY <1>2, CountFacts
<1>4. sent \in Seq(Blocks) /\ buffer \in Seq(Blocks) /\ wire \in Seq(Blocks)
  BY <1>2 DEF Placed
<1>5. /\ sent' \in Seq(Blocks) /\ Len(sent') = Len(sent) + 1
      /\ \A n \in 1 .. Len(sent) : sent'[n] = sent[n]
      /\ sent'[Len(sent) + 1] = block
  BY <1>1, <1>4
<1>6. /\ wire' \in Seq(Blocks) /\ Len(wire') = Len(wire) + 1
      /\ \A n \in 1 .. Len(wire) : wire'[n] = wire[n]
      /\ wire'[Len(wire) + 1] = block
  BY <1>1, <1>4
<1>7. HandledCount' = HandledCount
  BY <1>1, <1>3, <1>5, <1>6 DEF HandledCount
<1>8. SameHandled
  BY <1>3, <1>5, <1>7 DEF SameHandled
<1>9. Placed'
  <2>1. \A n \in 1 .. Len(buffer') : buffer'[n] = sent'[HandledCount' + n]
    <3>1. ASSUME NEW n \in 1 .. Len(buffer) PROVE buffer[n] = sent'[HandledCount + n]
      <4>1. buffer[n] = sent[HandledCount + n] /\ HandledCount + n \in 1 .. Len(sent)
        BY <1>2, <1>3 DEF Placed
      <4> QED BY <1>5, <4>1
    <3> QED BY <1>1, <1>7, <3>1
  <2>2. \A n \in 1 .. Len(wire') : wire'[n] = sent'[HandledCount' + Len(buffer') + n]
    <3>1. ASSUME NEW n \in 1 .. Len(wire)
          PROVE  wire'[n] = sent'[HandledCount + Len(buffer) + n]
      <4>1. wire[n] = sent[HandledCount + Len(buffer) + n]
        BY <1>2 DEF Placed
      <4>2. HandledCount + Len(buffer) + n \in 1 .. Len(sent)
        BY <1>3
      <4> QED BY <1>5, <1>6, <4>1, <4>2
    <3>2. HandledCount + Len(buffer) + (Len(wire) + 1) = Len(sent) + 1
      BY <1>3
    <3>3. wire'[Len(wire) + 1] = sent'[HandledCount + Len(buffer) + (Len(wire) + 1)]
      BY <1>5, <1>6, <3>2
    <3>4. \A n \in 1 .. Len(wire) + 1 : n \in 1 .. Len(wire) \/ n = Len(wire) + 1
      BY <1>3
    <3>5. ASSUME NEW n \in 1 .. Len(wire) + 1
          PROVE  wire'[n] = sent'[HandledCount + Len(buffer) + n]
      BY <3>1, <3>3, <3>4
    <3> QED BY <1>1, <1>6, <1>7, <3>5
  <2>3. Len(buffer') + Len(wire') <= Len(sent')
    BY <1>1, <1>3, <1>5, <1>6
  <2> QED BY <1>1, <1>4, <1>5, <1>6, <2>1, <2>2, <2>3 DEF Placed
<1>10. \A n \in 1 .. Len(sent) : MayFollow(sent[n], block)
  <2>1. DOMAIN sent = 1 .. Len(sent)
    BY <1>4
  <2>2. ASSUME NEW n \in 1 .. Len(sent) PROVE MayFollow(sent[n], block)
    <3> \A type : sent[n].type = type => HasSent(type)
      BY <2>1 DEF HasSent
    <3>1. sent[n].type # "[DONE]"
      BY <1>1 DEF InOrder
    <3>2. sent[n].type = "error" => block.type = "[DONE]"
      BY <1>1 DEF InOrder
    <3>3. block.type = "reasoning" => sent[n].type \notin {"content", "tool"}
      BY <1>1 DEF InOrder
    <3>4. sent[n].type = "tool" /\ block.type = "tool" =>
            ~ (Announces(sent[n], block.delta.index) /\ Identified(block.delta))
      BY <1>1, <2>1 DEF InOrder, Announces
    <3> QED BY <3>1, <3>2, <3>3, <3>4 DEF MayFollow
  <2> QED BY <2>2
<1>11. Ordered'
  <2>1. ASSUME NEW m \in 1 .. Len(sent) + 1, NEW n \in 1 .. Len(sent) + 1, m < n
        PROVE  MayFollow(sent'[m], sent'[n])
    <3>1. m \in 1 .. Len(sent) /\ (n \in 1 .. Len(sent) \/ n = Len(sent) + 1)
      BY <1>3, <2>1
    <3> QED BY <1>2, <1>5, <1>10, <2>1, <3>1 DEF Ordered
  <2> QED BY <1>5, <2>1 DEF Ordered
<1>12. Looped'
  <2>1. /\ upstream' \in {"open", "ended", "broken"} /\ loop' \in {"reading", "handling", "ended"}
        /\ loop' = "handling" => buffer' # <<>>
        /\ loop' = "reading" /\ ~ conv'.failed => buffer' = <<>>
        /\ loop' = "ended" => upstream' # "open"
        /\ upstream' # "broken"
    BY <1>1, <1>2 DEF Looped
  <2> QED BY <2>1 DEF Looped
<1>13. Converted'
  BY <1>1, <1>2, <1>8, ConvertedStays
<1>14. ToldOnce'
  <2>1. CASE NeverCompleted(conv.out)
    BY <1>1, <2>1 DEF ToldOnce
  <2>2. CASE ~ NeverCompleted(conv.out)
    <3>1. loop # "ended"
      BY <1>1, <1>2 DEF Looped
    <3>2. WasHandled("[DONE]")
      BY <1>2, <2>2, <3>1 DEF ToldOnce
    <3>3. PICK n \in 1 .. Len(sent) : sent[n].type = "[DONE]"
      BY <1>2, <3>2, CountFacts DEF WasHandled
    <3>4. MayFollow(sent[n], block)
      BY <1>10
    <3> QED BY <3>3, <3>4 DEF MayFollow
  <2> QED BY <2>1, <2>2
<1> QED BY <1>1, <1>2, <1>8, <1>9, <1>11, <1>12, <1>13, <1>14 DEF AnswerInv

LEMMA Closes ==
  ASSUME ~ BreaksAfterEnd, AnswerInv, UpstreamEnds \/ UpstreamBreaks
  PROVE  AnswerInv'
<1>1. /\ upstream = "open" /\ upstream' \in {"ended", "broken"}
      /\ sent' = sent /\ wire' = wire /\ loop' = loop /\ buffer' = buffer /\ conv' = conv
  BY DEF UpstreamEnds, UpstreamBreaks
<1>2. Placed /\ Ordered /\ Looped /\ Whole(conv) /\ Converted /\ ToldOnce
  BY DEF AnswerInv
<1>3. Placed' /\ Ordered' /\ SameHandled
  BY <1>1, <1>2, BlocksStay
<1>4. upstream' = "broken" =>
        \A n \in 1 .. Len(sent) : sent[n].type \notin {"[DONE]", "error"}
  <2>1. SUFFICES ASSUME upstream' = "broken"
                 PROVE  \A n \in 1 .. Len(sent) : sent[n].type \notin {"[DONE]", "error"}
    OBVIOUS
  <2>2. ~ HasSent("[DONE]") /\ ~ HasSent("error")
    BY <2>1 DEF UpstreamEnds, UpstreamBreaks
  <2>3. DOMAIN sent = 1 .. Len(sent)
    BY <1>2 DEF Placed
  <2> QED BY <2>2, <2>3 DEF HasSent
<1>5. Looped'
  BY <1>1, <1>2, <1>4 DEF Looped
<1>6. Converted'
  BY <1>1, <1>2, <1>3, ConvertedStays
<1>7. ToldOnce'
  <2>1. CASE NeverCompleted(conv.out)
    BY <1>1, <2>1 DEF ToldOnce
  <2>2. CASE ~ NeverCompleted(conv.out)
    <3>1. loop # "ended"
      BY <1>1, <1>2 DEF Looped
    <3>2. WasHandled("[DONE]") /\ \A n \in 1 .. Len(sent) : sent[n].type # "error"
      BY <1>2, <2>2, <3>1 DEF ToldOnce
    <3>3. PICK n \in 1 .. Len(sent) : sent[n].type = "[DONE]"
      BY <1>2, <3>2, CountFacts DEF WasHandled
    <3>4. upstream' # "broken"
      BY <1>4, <3>3
    <3>5. WasHandled("[DONE]")'
      BY <1>3, <3>2, HandledTheSame
    <3> QED BY <1>1, <3>2, <3>4, <3>5 DEF ToldOnce
  <2> QED BY <2>1, <2>2
<1> QED BY <1>1, <1>2, <1>3, <1>5, <1>6, <1>7 DEF AnswerInv

LEMMA Reads ==
  ASSUME AnswerInv, ReadPiece
  PROVE  AnswerInv' /\ SameHandled
<1>1. PICK n \in 1 .. Len(wire) :
        /\ buffer' = buffer \o SubSeq(wire, 1, n)
        /\ wire' = SubSeq(wire, n + 1, Len(wire))
  BY DEF ReadPiece
<1>2. /\ loop = "reading" /\ loop' = "handling"
      /\ upstream' = upstream /\ sent' = sent /\ conv' = conv
  BY DEF ReadPiece
<1>3. Placed /\ Ordered /\ Looped /\ Whole(conv) /\ Converted /\ ToldOnce
  BY DEF AnswerInv
<1>4. /\ Len(sent) \in Nat /\ Len(buffer) \in Nat /\ Len(wire) \in Nat
      /\ HandledCount \in Nat /\ HandledCount + Len(buffer) + Len(wire) = Len(sent)
  BY <1>3, CountFacts
<1>5. /\ sent \in Seq(Blocks) /\ buffer \in Seq(Blocks) /\ wire \in Seq(Blocks)
      /\ \A m \in 1 .. Len(buffer) : buffer[m] = sent[HandledCount + m]
      /\ \A m \in 1 .. Len(wire) : wire[m] = sent[HandledCount + Len(buffer) + m]
  BY <1>3 DEF Placed
<1>6. n \in Nat /\ 1 <= n /\ n <= Len(wire)
  BY <1>4
<1> DEFINE read == SubSeq(wire, 1, n)
<1>7. /\ read \in Seq(Blocks) /\ Len(read) = n
      /\ \A m \in 1 .. n : read[m] = wire[m]
  BY <1>4, <1>5, <1>6
<1>8. /\ wire' \in Seq(Blocks) /\ Len(wire') = Len(wire) - n
      /\ \A m \in 1 .. Len(wire) - n : wire'[m] = wire[n + m]
  <2>1. n + 1 \in 1 .. Len(wire) + 1
    BY <1>4, <1>6
  <2> QED BY <1>1, <1>4, <1>5, <1>6, <2>1
<1>9. buffer' = buffer \o read
  BY <1>1
<1> HIDE DEF read
<1>10. /\ buffer' \in Seq(Blocks) /\ Len(buffer') = Len(buffer) + n
       /\ \A m \in 1 .. Len(buffer) : buffer'[m] = buffer[m]
       /\ \A m \in 1 .. n : buffer'[Len(buffer) + m] = read[m]
  <2>1. /\ buffer \o read \in Seq(Blocks) /\ Len(buffer \o read) = Len(buffer) + Len(read)
        /\ \A m \in 1 .. Len(buffer) + Len(read) :
             (buffer \o read)[m] = IF m <= Len(buffer) THEN buffer[m] ELSE read[m - Len(buffer)]
    BY ONLY <1>5, <1>7, ConcatProperties
  <2>2. ASSUME NEW m \in 1 .. n PROVE buffer'[Len(buffer) + m] = read[m]
    <3>1. /\ Len(buffer) + m \in 1 .. Len(buffer) + Len(read) /\ ~ (Len(buffer) + m <= Len(buffer))
          /\ (Len(buffer) + m) - Len(buffer) = m
      BY <1>4, <1>6, <1>7
    <3> QED BY <1>9, <2>1, <3>1
  <2>3. ASSUME NEW m \in 1 .. Len(buffer) PROVE buffer'[m] = buffer[m]
    <3>1. m \in 1 .. Len(buffer) + Len(read) /\ m <= Len(buffer)
      BY <1>4, <1>6, <1>7
    <3> QED BY <1>9, <2>1, <3>1
  <2> QED BY <1>7, <1>9, <2>1, <2>2, <2>3
<1>11. HandledCount' = HandledCount
  <2>1. Len(buffer') + Len(wire') = Len(buffer) + Len(wire)
    BY <1>4, <1>6, <1>8, <1>10
  <2> QED BY <1>2, <2>1 DEF HandledCount
<1>12. Placed'
  <2>1. ASSUME NEW m \in 1 .. Len(buffer) + n
        PROVE  buffer'[m] = sent[HandledCount + m]
    <3>1. CASE m \in 1 .. Len(buffer)
      BY <1>5, <1>10, <3>1
    <3>2. CASE m \notin 1 .. Len(buffer)
      <4>1. m - Len(buffer) \in 1 .. n /\ m - Len(buffer) \in 1 .. Len(wire)
            /\ m = Len(buffer) + (m - Len(buffer))
        BY <1>4, <1>6, <3>2
      <4>2. buffer'[m] = wire[m - Len(buffer)]
        BY <1>7, <1>10, <4>1
      <4>3. HandledCount + Len(buffer) + (m - Len(buffer)) = HandledCount + m
        BY <1>4, <4>1
      <4> QED BY <1>5, <4>1, <4>2, <4>3
    <3> QED BY <3>1, <3>2
  <2>2. ASSUME NEW m \in 1 .. Len(wire) - n
        PROVE  wire'[m] = sent[HandledCount + (Len(buffer) + n) + m]
    <3>1. n + m \in 1 .. Len(wire)
      BY <1>4, <1>6
    <3>2. wire'[m] = sent[HandledCount + Len(buffer) + (n + m)]
      BY <1>5, <1>8, <3>1
    <3>3. HandledCount + Len(buffer) + (n + m) = HandledCount + (Len(buffer) + n) + m
      BY <1>4, <1>6
    <3> QED BY <3>2, <3>3
  <2>3. Len(buffer') + Len(wire') <= Len(sent')
    BY <1>2, <1>4, <1>6, <1>8, <1>10
  <2> QED BY <1>2, <1>5, <1>8, <1>10, <1>11, <2>1, <2>2, <2>3 DEF Placed
<1>13. Ordered' /\ SameHandled
  BY <1>2, <1>3, <1>11 DEF Ordered, SameHandled
<1>14. Looped'
  <2>1. Len(buffer') # 0
    BY <1>4, <1>6, <1>10
  <2>2. buffer' # <<>>
    BY <2>1, EmptyLog
  <2> QED BY <1>2, <1>3, <2>2 DEF Looped
<1>15. Converted'
  BY <1>2, <1>3, <1>13, ConvertedStays
<1>16. ToldOnce'
  <2>1. WasHandled("[DONE]")' <=> WasHandled("[DONE]")
    BY <1>13, HandledTheSame
  <2> QED BY <1>2, <1>3, <2>1 DEF ToldOnce
<1> QED BY <1>2, <1>3, <1>12, <1>13, <1>14, <1>15, <1>16 DEF AnswerInv

LEMMA HandlesNext ==
  ASSUME Placed, loop = "handling", Looped, PushBytes
  PROVE  /\ HandledCount + 1 \in 1 .. Len(sent) /\ HandledCount \in Nat
         /\ Head(buffer) = sent[HandledCount + 1] /\ Head(buffer) \in Blocks
         /\ HandledCount' = HandledCount + 1
         /\ Placed'
<1>1. /\ Len(sent) \in Nat /\ Len(buffer) \in Nat /\ Len(wire) \in Nat
      /\ HandledCount \in Nat /\ HandledCount + Len(buffer) + Len(wire) = Len(sent)
  BY CountFacts
<1>2. /\ sent \in Seq(Blocks) /\ buffer \in Seq(Blocks) /\ wire \in Seq(Blocks)
      /\ \A m \in 1 .. Len(buffer) : buffer[m] = sent[HandledCount + m]
      /\ \A m \in 1 .. Len(wire) : wire[m] = sent[HandledCount + Len(buffer) + m]
  BY DEF Placed
<1>3. buffer # <<>> /\ buffer' = Tail(buffer) /\ sent' = sent /\ wire' = wire
  BY DEF Looped, PushBytes
<1>4. Len(buffer) >= 1
  BY <1>1, <1>2, <1>3
<1>5. /\ Head(buffer) = buffer[1] /\ Head(buffer) \in Blocks
      /\ buffer' \in Seq(Blocks) /\ Len(buffer') = Len(buffer) - 1
      /\ \A m \in 1 .. Len(buffer) - 1 : buffer'[m] = buffer[m + 1]
  BY <1>2, <1>3
<1>6. HandledCount' = HandledCount + 1
  <2>1. Len(buffer') + Len(wire') + 1 = Len(buffer) + Len(wire)
    BY <1>1, <1>3, <1>4, <1>5
  <2>2. Len(buffer') + Len(wire') \in Nat
    BY <1>1, <1>3, <1>4, <1>5
  <2> QED BY <1>1, <1>3, <2>1, <2>2 DEF HandledCount
<1>7. Placed'
  <2>1. ASSUME NEW m \in 1 .. Len(buffer) - 1
        PROVE  buffer'[m] = sent[HandledCount + 1 + m]
    <3>1. m + 1 \in 1 .. Len(buffer) /\ HandledCount + (m + 1) = HandledCount + 1 + m
      BY <1>1, <1>4
    <3> QED BY <1>2, <1>5, <3>1
  <2>2. HandledCount + 1 + (Len(buffer) - 1) = HandledCount + Len(buffer)
    BY <1>1, <1>4
  <2>3. \A m \in 1 .. Len(wire') : wire'[m] = sent'[HandledCount' + Len(buffer') + m]
    BY <1>2, <1>3, <1>5, <1>6, <2>2
  <2>4. Len(buffer') + Len(wire') <= Len(sent')
    BY <1>1, <1>3, <1>4, <1>5
  <2> QED BY <1>2, <1>3, <1>5, <1>6, <2>1, <2>3, <2>4 DEF Placed
<1> QED BY <1>1, <1>2, <1>4, <1>5, <1>6, <1>7

(* The log grows, or stays. *)
LogGrows(c, d) == d.out = c.out \/ Grows(c.out, d.out)

LEMMA HandlesMore ==
  ASSUME HandledCount \in Nat, HandledCount' = HandledCount + 1, sent' = sent
  PROVE  \A type : WasHandled(type)' <=>
                     WasHandled(type) \/ sent[HandledCount + 1].type = type
<1>1. 1 .. HandledCount + 1 = (1 .. HandledCount) \cup {HandledCount + 1}
  OBVIOUS
<1> QED BY <1>1 DEF WasHandled

\* What the converter gets to handle, as long as it has not completed the answer.
LEMMA PushExpected ==
  ASSUME AnswerInv, PushBytes, ~ conv.completed
  PROVE  Expected(conv, Head(buffer)) /\ ~ WasHandled("[DONE]")
<1> DEFINE block == Head(buffer)
           h == HandledCount
<1>1. loop = "handling"
  BY DEF PushBytes
<1>2. Placed /\ Ordered /\ Looped /\ Whole(conv) /\ Converted
  BY DEF AnswerInv
<1>3. h + 1 \in 1 .. Len(sent) /\ h \in Nat /\ block = sent[h + 1] /\ block \in Blocks
  BY <1>1, <1>2, HandlesNext
<1> HIDE DEF block
<1>4. \A n \in 1 .. h : MayFollow(sent[n], block)
  <2>1. \A n \in 1 .. h : n \in 1 .. Len(sent) /\ n < h + 1
    BY <1>3
  <2> QED BY <1>2, <1>3, <2>1 DEF Ordered
<1>5. ~ WasHandled("[DONE]")
  BY <1>4 DEF WasHandled, MayFollow
<1>6. ~ conv.failed /\ Resting(conv) /\ Informed
  BY <1>2 DEF Converted
<1>7. block.type = "reasoning" => conv.mode # "text"
  <2>1. block.type = "reasoning" => ~ WasHandled("content") /\ ~ WasHandled("tool")
    BY <1>4 DEF WasHandled, MayFollow
  <2> QED BY <1>6, <2>1 DEF Informed
<1>8. block.type = "tool" /\ Identified(block.delta) => conv.items[block.delta.index].index = 0
  <2>1. SUFFICES ASSUME block.type = "tool", Identified(block.delta),
                        conv.items[block.delta.index].index # 0
                 PROVE  FALSE
    OBVIOUS
  <2>2. block.delta.index \in Tools
    <3>1. block.delta \in ToolDeltas
      BY <1>3, <2>1, BlockKinds
    <3>2. block.delta.index \in Range(ToolIndexes)
      BY <3>1
    <3> QED BY <3>2 DEF Tools, Keys, Texts
  <2>3. PICK n \in 1 .. h : Announces(sent[n], block.delta.index)
    BY <1>6, <2>1, <2>2 DEF Informed
  <2>4. MayFollow(sent[n], block)
    BY <1>4
  <2> QED BY <2>1, <2>3, <2>4 DEF MayFollow, Announces
<1>9. Expected(conv, block)
  BY <1>2, <1>3, <1>6, <1>7, <1>8 DEF Expected
<1> QED BY <1>5, <1>9 DEF block

LEMMA Pushes ==
  ASSUME AnswerInv, PushBytes
  PROVE  AnswerInv' /\ LogGrows(conv, conv')
<1> DEFINE block == Head(buffer)
           h == HandledCount
<1>1. /\ loop = "handling" /\ conv' = HandleBlock(conv, block)
      /\ buffer' = Tail(buffer)
      /\ loop' = IF conv'.failed \/ buffer' = <<>> THEN "reading" ELSE "handling"
      /\ upstream' = upstream /\ sent' = sent /\ wire' = wire
  BY DEF PushBytes
<1>2. Placed /\ Ordered /\ Looped /\ Whole(conv) /\ Converted /\ ToldOnce
  BY DEF AnswerInv
<1>3. /\ h + 1 \in 1 .. Len(sent) /\ h \in Nat /\ block = sent[h + 1] /\ block \in Blocks
      /\ HandledCount' = h + 1 /\ Placed'
  BY <1>1, <1>2, HandlesNext
<1>4. \A type : WasHandled(type)' <=> WasHandled(type) \/ block.type = type
  BY <1>1, <1>3, HandlesMore
<1> HIDE DEF block
<1>5. \A n \in 1 .. h : MayFollow(sent[n], block)
  <2>1. \A n \in 1 .. h : n \in 1 .. Len(sent) /\ n < h + 1
    BY <1>3
  <2> QED BY <1>2, <1>3, <2>1 DEF Ordered
<1>6. ~ WasHandled("[DONE]")
  BY <1>5 DEF WasHandled, MayFollow
<1>7. WasHandled("error") => block.type = "[DONE]"
  BY <1>5 DEF WasHandled, MayFollow
<1>8. conv.completed <=> WasHandled("error")
  BY <1>1, <1>2, <1>6 DEF Converted
<1>9. Ordered'
  BY <1>1, <1>2 DEF Ordered
<1>10. Looped'
  <2>1. loop' \in {"reading", "handling"}
    BY <1>1
  <2>2. loop' = "handling" => buffer' # <<>>
    BY <1>1
  <2>3. loop' = "reading" /\ ~ conv'.failed => buffer' = <<>>
    BY <1>1
  <2> QED BY <1>1, <1>2, <2>1, <2>2, <2>3 DEF Looped
<1>11. loop # "ended" /\ loop' # "ended"
  BY <1>1
<1>12. CASE conv.completed
  <2>1. WasHandled("error") /\ conv.failed /\ block.type = "[DONE]"
    BY <1>2, <1>7, <1>8, <1>12 DEF Converted
  <2>2. conv' = conv
    BY <1>1, <1>12, <2>1 DEF HandleBlock, Finalize
  <2>3. Converted'
    BY <1>2, <1>4, <1>12, <2>1, <2>2 DEF Converted
  <2>4. NeverCompleted(conv.out)
    <3>1. \E n \in 1 .. Len(sent) : sent[n].type = "error"
      BY <1>2, <2>1, CountFacts DEF WasHandled
    <3> QED BY <1>2, <3>1 DEF ToldOnce
  <2>5. ToldOnce'
    BY <2>2, <2>4 DEF ToldOnce
  <2> QED BY <1>2, <1>3, <1>9, <1>10, <2>2, <2>3, <2>5 DEF AnswerInv, LogGrows
<1>13. CASE ~ conv.completed
  <2>1. ~ conv.failed /\ Resting(conv) /\ Informed
    BY <1>2, <1>13 DEF Converted
  <2>4. Expected(conv, block)
    BY <1>13, PushExpected DEF block
  <2>5. After(conv, conv', block)
    BY <1>1, <2>4, HandleBlockStep
  <2>6. ~ WasHandled("error")
    BY <1>8, <1>13
  <2>7. /\ WasHandled("content")' <=> WasHandled("content") \/ block.type = "content"
        /\ WasHandled("tool")' <=> WasHandled("tool") \/ block.type = "tool"
        /\ WasHandled("[DONE]")' <=> block.type = "[DONE]"
        /\ WasHandled("error")' <=> block.type = "error"
    BY <1>4, <1>6, <2>6
  <2>8. ~ conv'.completed => Informed'
    <3>1. SUFFICES ASSUME ~ conv'.completed PROVE Informed'
      OBVIOUS
    <3>2. conv'.mode = "text" => WasHandled("content")' \/ WasHandled("tool")'
      BY <2>1, <2>5, <2>7, <3>1 DEF After, Informed
    <3>3. ASSUME NEW k \in Tools, conv'.items[k].index # 0
          PROVE  \E n \in 1 .. HandledCount' : Announces(sent'[n], k)
      <4>1. conv.items[k].index # 0 \/ Announces(block, k)
        BY <2>5, <3>1, <3>3 DEF After
      <4>2. CASE Announces(block, k)
        <5>1. h + 1 \in 1 .. h + 1
          BY <1>3
        <5> QED BY <1>1, <1>3, <4>2, <5>1
      <4>3. CASE conv.items[k].index # 0
        <5>1. PICK n \in 1 .. h : Announces(sent[n], k)
          BY <2>1, <4>3 DEF Informed
        <5>2. n \in 1 .. h + 1
          BY <1>3
        <5> QED BY <1>1, <1>3, <5>1, <5>2
      <4> QED BY <4>1, <4>2, <4>3
    <3> QED BY <3>2, <3>3 DEF Informed
  <2>9. Converted'
    <3>1. /\ conv'.mode = "text" => conv'.think = <<>>
          /\ conv'.failed => conv'.completed
          /\ ~ conv'.completed => Resting(conv')
          /\ conv'.completed <=> block.type = "[DONE]" \/ block.type = "error"
          /\ block.type = "error" => conv'.failed
      BY <2>5 DEF After
    <3> QED BY <2>7, <2>8, <3>1 DEF Converted
  <2>10. ToldOnce'
    <3>1. CASE block.type # "[DONE]"
      BY <2>5, <3>1 DEF After, ToldOnce
    <3>2. CASE block.type = "[DONE]"
      <4>1. upstream # "broken"
        BY <1>2, <1>3, <3>2 DEF Looped
      <4>2. ASSUME NEW n \in 1 .. Len(sent) PROVE sent[n].type # "error"
        <5>1. CASE n \in 1 .. h
          BY <2>6, <5>1 DEF WasHandled
        <5>2. CASE n = h + 1
          BY <1>3, <3>2, <5>2
        <5>3. CASE h + 1 < n
          <6>1. MayFollow(sent[h + 1], sent[n])
            BY <1>2, <1>3, <5>3 DEF Ordered
          <6> QED BY <1>3, <3>2, <6>1 DEF MayFollow
        <5>4. n \in 1 .. h \/ n = h + 1 \/ h + 1 < n
          BY <1>3
        <5> QED BY <5>1, <5>2, <5>3, <5>4
      <4> QED BY <1>1, <2>7, <3>2, <4>1, <4>2 DEF ToldOnce
    <3> QED BY <3>1, <3>2
  <2>11. Whole(conv') /\ LogGrows(conv, conv')
    BY <2>5 DEF After, LogGrows
  <2> QED BY <1>3, <1>9, <1>10, <2>9, <2>10, <2>11 DEF AnswerInv
<1> QED BY <1>12, <1>13

LEMMA NothingLeft ==
  ASSUME Placed, wire = <<>>, buffer = <<>>
  PROVE  HandledCount = Len(sent)
BY CountFacts, EmptyLog

LEMMA Finishes ==
  ASSUME AnswerInv, FinishStream
  PROVE  AnswerInv' /\ LogGrows(conv, conv')
<1>1. /\ loop = "reading" /\ wire = <<>> /\ upstream = "ended" /\ loop' = "ended"
      /\ conv' = IF conv.failed THEN conv ELSE Finalize(conv)
      /\ upstream' = upstream /\ sent' = sent /\ wire' = wire /\ buffer' = buffer
  BY DEF FinishStream
<1>2. Placed /\ Ordered /\ Looped /\ Whole(conv) /\ Converted /\ ToldOnce
  BY DEF AnswerInv
<1>3. Placed' /\ Ordered' /\ SameHandled
  BY <1>1, <1>2, BlocksStay
<1>4. /\ WasHandled("[DONE]")' <=> WasHandled("[DONE]")
      /\ WasHandled("error")' <=> WasHandled("error")
  BY <1>3, HandledTheSame
<1>5. CASE conv.completed
  <2>1. conv' = conv
    BY <1>1, <1>5 DEF Finalize
  <2>2. Looped'
    BY <1>1, <1>2, <2>1 DEF Looped
  <2>3. Converted'
    BY <1>1, <1>2, <1>3, <2>1, ConvertedStays
  <2>4. ToldOnce'
    BY <1>1, <1>2, <1>4, <2>1 DEF ToldOnce
  <2> QED BY <1>2, <1>3, <2>1, <2>2, <2>3, <2>4 DEF AnswerInv, LogGrows
<1>6. CASE ~ conv.completed
  <2>1. ~ conv.failed /\ Resting(conv) /\ buffer = <<>>
    BY <1>1, <1>2, <1>6 DEF Converted, Looped
  <2>2. conv' = Finalize(conv)
    BY <1>1, <2>1
  <2>3. /\ Whole(conv') /\ Grows(conv.out, conv'.out) /\ conv'.completed
        /\ conv'.failed = conv.failed /\ conv'.mode = "text" /\ conv'.think = <<>>
    BY <1>2, <1>6, <2>1, <2>2, FinalizeStep
  <2>4. Looped'
    BY <1>1, <1>2, <2>1 DEF Looped
  <2>5. ~ WasHandled("error")
    BY <1>1, <1>2, <1>6 DEF Converted
  <2>6. Converted'
    BY <1>1, <1>4, <2>1, <2>3, <2>5 DEF Converted
  <2>7. \A n \in 1 .. Len(sent) : sent[n].type # "error"
    BY <1>1, <1>2, <2>1, <2>5, NothingLeft DEF WasHandled
  <2>8. ToldOnce'
    BY <1>1, <2>7 DEF ToldOnce
  <2> QED BY <1>3, <2>3, <2>4, <2>6, <2>8 DEF AnswerInv, LogGrows
<1> QED BY <1>5, <1>6

LEMMA Fails ==
  ASSUME AnswerInv, FailStream
  PROVE  AnswerInv' /\ LogGrows(conv, conv')
<1>1. /\ loop = "reading" /\ wire = <<>> /\ upstream = "broken" /\ loop' = "ended"
      /\ conv' = FailedInto(conv)
      /\ upstream' = upstream /\ sent' = sent /\ wire' = wire /\ buffer' = buffer
  BY DEF FailStream
<1>2. Placed /\ Ordered /\ Looped /\ Whole(conv) /\ Converted /\ ToldOnce
  BY DEF AnswerInv
<1>3. Placed' /\ Ordered' /\ SameHandled
  BY <1>1, <1>2, BlocksStay
<1>4. ~ WasHandled("[DONE]") /\ ~ WasHandled("error")
  <2>1. \A n \in 1 .. HandledCount : n \in 1 .. Len(sent)
    BY <1>2, CountFacts
  <2> QED BY <1>1, <1>2, <2>1 DEF Looped, WasHandled
<1>5. ~ conv.completed
  BY <1>1, <1>2, <1>4 DEF Converted
<1>6. /\ Whole(conv') /\ Grows(conv.out, conv'.out) /\ conv'.completed /\ conv'.failed
      /\ SameMode(conv, conv') /\ NeverCompleted(conv'.out)
  BY <1>1, <1>2, <1>5, FailedStep
<1>7. Looped'
  BY <1>1, <1>2 DEF Looped
<1>8. Converted'
  BY <1>1, <1>2, <1>6 DEF Converted, SameMode
<1>9. ToldOnce'
  BY <1>6 DEF ToldOnce
<1> QED BY <1>3, <1>6, <1>7, <1>8, <1>9 DEF AnswerInv, LogGrows

LEMMA StreamStep ==
  ASSUME ~ BreaksAfterEnd, AnswerInv, [Next]_vars
  PROVE  AnswerInv' /\ LogGrows(conv, conv')
<1>1. ASSUME NEW block \in Blocks, UpstreamSends(block)
      PROVE  AnswerInv' /\ LogGrows(conv, conv')
  BY <1>1, Sends DEF UpstreamSends, LogGrows
<1>2. CASE UpstreamEnds
  BY <1>2, Closes DEF UpstreamEnds, LogGrows
<1>3. CASE UpstreamBreaks
  BY <1>3, Closes DEF UpstreamBreaks, LogGrows
<1>4. CASE ReadPiece
  BY <1>4, Reads DEF ReadPiece, LogGrows
<1>5. CASE PushBytes
  BY <1>5, Pushes
<1>6. CASE FinishStream
  BY <1>6, Finishes
<1>7. CASE FailStream
  BY <1>7, Fails
<1>8. CASE UNCHANGED vars
  <2>1. /\ sent' = sent /\ wire' = wire /\ buffer' = buffer
        /\ upstream' = upstream /\ loop' = loop /\ conv' = conv
    BY <1>8 DEF vars
  <2>2. Placed /\ Ordered /\ Looped /\ Whole(conv) /\ Converted /\ ToldOnce
    BY DEF AnswerInv
  <2>3. Placed' /\ Ordered' /\ SameHandled
    BY <2>1, <2>2, BlocksStay
  <2>4. Looped' /\ Whole(conv')
    BY <2>1, <2>2 DEF Looped
  <2>5. Converted'
    BY <2>1, <2>2, <2>3, ConvertedStays
  <2>6. ToldOnce'
    <3>1. WasHandled("[DONE]")' <=> WasHandled("[DONE]")
      BY <2>3, HandledTheSame
    <3> QED BY <2>1, <2>2, <3>1 DEF ToldOnce
  <2> QED BY <2>1, <2>3, <2>4, <2>5, <2>6 DEF AnswerInv, LogGrows
<1> QED BY <1>1, <1>2, <1>3, <1>4, <1>5, <1>6, <1>7, <1>8 DEF Next, Ended

LEMMA StreamMeansInv == AnswerInv => Inv
<1>1. SUFFICES ASSUME AnswerInv PROVE Inv
  OBVIOUS
<1>2. Placed /\ Ordered /\ Looped /\ Whole(conv) /\ Converted /\ ToldOnce
  BY <1>1 DEF AnswerInv
<1>3. /\ sent \in Seq(Blocks) /\ buffer \in Seq(Blocks) /\ wire \in Seq(Blocks)
      /\ DOMAIN sent = 1 .. Len(sent)
  BY <1>2 DEF Placed
<1>4. Range(sent) \subseteq Blocks
  BY <1>3 DEF Range
<1>5. Range(wire \o buffer) \subseteq Range(sent)
  <2> DEFINE rest == wire \o buffer
  <2>1. /\ rest \in Seq(Blocks) /\ Len(rest) = Len(wire) + Len(buffer)
        /\ \A m \in 1 .. Len(wire) + Len(buffer) :
             rest[m] = IF m <= Len(wire) THEN wire[m] ELSE buffer[m - Len(wire)]
    BY <1>3, ConcatProperties
  <2> HIDE DEF rest
  <2>2. /\ Len(sent) \in Nat /\ Len(buffer) \in Nat /\ Len(wire) \in Nat
        /\ HandledCount \in Nat /\ HandledCount + Len(buffer) + Len(wire) = Len(sent)
    BY <1>2, CountFacts
  <2>3. ASSUME NEW m \in 1 .. Len(wire) + Len(buffer)
        PROVE  \E n \in 1 .. Len(sent) : rest[m] = sent[n]
    <3>1. CASE m <= Len(wire)
      <4>1. m \in 1 .. Len(wire) /\ HandledCount + Len(buffer) + m \in 1 .. Len(sent)
        BY <2>2, <3>1
      <4>2. wire[m] = sent[HandledCount + Len(buffer) + m]
        BY <1>2, <4>1 DEF Placed
      <4> QED BY <2>1, <3>1, <4>1, <4>2
    <3>2. CASE ~ (m <= Len(wire))
      <4>1. /\ m - Len(wire) \in 1 .. Len(buffer)
            /\ HandledCount + (m - Len(wire)) \in 1 .. Len(sent)
        BY <2>2, <3>2
      <4>2. buffer[m - Len(wire)] = sent[HandledCount + (m - Len(wire))]
        BY <1>2, <4>1 DEF Placed
      <4> QED BY <2>1, <3>2, <4>1, <4>2
    <3> QED BY <3>1, <3>2
  <2>4. DOMAIN rest = 1 .. Len(wire) + Len(buffer)
    BY <2>1
  <2>5. Range(rest) \subseteq Range(sent)
    BY <1>3, <2>3, <2>4 DEF Range
  <2> QED BY <2>5 DEF rest
<1>6. /\ conv.mode \in {"detecting", "reasoning", "text"} /\ conv.nextIndex \in Nat
      /\ \A k \in Keys : conv.items[k].index \in Nat /\ conv.items[k].index < conv.nextIndex
  BY <1>2 DEF Whole, Recorded, Formed, Numbered, IsItem
<1>7. \A k \in Keys : conv.items[k].index \in 0 .. conv.nextIndex - 1
  BY <1>6
<1>8. TypeOK
  BY <1>2, <1>4, <1>5, <1>6, <1>7 DEF TypeOK, Looped, Converted
<1>9. FailureIsTold
  <2>1. SUFFICES ASSUME HasSent("error") \/ upstream = "broken"
                 PROVE  Written("completed") = {}
    BY DEF FailureIsTold
  <2>2. NeverCompleted(conv.out)
    BY <1>2, <1>3, <2>1 DEF ToldOnce, HasSent
  <2> QED BY <2>2 DEF Written, NeverCompleted, Range
<1> QED BY <1>8, <1>9 DEF Inv

-----------------------------------------------------------------------------
(* Sequences flattened, piece by piece *)

\* A function on 1 .. m is a log.
LEMMA IsALog ==
  ASSUME NEW m \in Nat, NEW f, f = [n \in 1 .. m |-> f[n]]
  PROVE  Log(f) /\ Len(f) = m
<1>1. \A n \in 1 .. m : f[n] \in Range(f)
  BY DEF Range
<1>2. f \in [1 .. m -> Range(f)]
  BY <1>1
<1>3. f \in Seq(Range(f))
  BY <1>2, SeqDef
<1>4. Len(f) \in Nat /\ DOMAIN f = 1 .. Len(f) /\ DOMAIN f = 1 .. m
  BY <1>3, <1>2, LenProperties
<1>5. Len(f) = m
  BY <1>4
<1> QED BY <1>3, <1>5 DEF Log

NextFlat(f, g, n) == IF n = 1 THEN g[n] ELSE f[n - 1] \o g[n]

Flattens(f, g, m) == f = [n \in 1 .. m |-> NextFlat(f, g, n)]

LEMMA FlattensExists ==
  ASSUME NEW g, NEW m \in Nat
  PROVE  \E f : Flattens(f, g, m)
<1> DEFINE T == {k \in Nat : ~ \E f : Flattens(f, g, k)}
<1>1. SUFFICES ASSUME T # {} PROVE FALSE
  OBVIOUS
<1>2. PICK k \in T : \A l \in T : k <= l
  <2>1. T \subseteq Nat
    OBVIOUS
  <2> HIDE DEF T
  <2> QED BY <1>1, <2>1, Least
<1>3. k \in Nat /\ ~ \E f : Flattens(f, g, k)
  OBVIOUS
<1>4. CASE k = 0
  <2> DEFINE f == [n \in 1 .. 0 |-> <<>>]
  <2>1. f = [n \in 1 .. 0 |-> NextFlat(f, g, n)]
    OBVIOUS
  <2> QED BY <1>3, <1>4, <2>1 DEF Flattens
<1>5. CASE k # 0
  <2>1. k - 1 \in Nat /\ k - 1 \notin T
    <3> HIDE DEF T
    <3>1. k - 1 \in Nat /\ ~(k <= k - 1)
      BY <1>3, <1>5
    <3> QED BY <1>2, <3>1
  <2>2. PICK e : Flattens(e, g, k - 1)
    BY <2>1
  <2>3. e = [n \in 1 .. (k - 1) |-> NextFlat(e, g, n)]
    BY <2>2 DEF Flattens
  <2> DEFINE f == [n \in 1 .. k |-> IF n = k THEN NextFlat(e, g, k) ELSE e[n]]
  <2>4. \A n \in 1 .. (k - 1) : f[n] = e[n]
    BY <1>3
  <2>5. f[k] = NextFlat(e, g, k)
    BY <1>3, <1>5
  <2>6. f = [n \in 1 .. k |-> f[n]]
    OBVIOUS
  <2> HIDE DEF f
  <2>7. ASSUME NEW n \in 1 .. k PROVE f[n] = NextFlat(f, g, n)
    <3>1. n # 1 => n - 1 \in 1 .. (k - 1) /\ f[n - 1] = e[n - 1]
      BY <1>3, <2>4
    <3>2. NextFlat(f, g, n) = NextFlat(e, g, n)
      BY <3>1 DEF NextFlat
    <3>3. CASE n = k
      BY <2>5, <3>2, <3>3
    <3>4. CASE n # k
      <4>1. n \in 1 .. (k - 1)
        BY <1>3, <3>4
      <4>2. e[n] = NextFlat(e, g, n)
        BY <2>3, <4>1
      <4> QED BY <2>4, <3>2, <4>1, <4>2
    <3> QED BY <3>3, <3>4
  <2>8. Flattens(f, g, k)
    BY <2>6, <2>7 DEF Flattens
  <2> QED BY <1>3, <2>8
<1> QED BY <1>4, <1>5

LEMMA FlattensSame ==
  ASSUME NEW g, NEW h, NEW k \in Nat, NEW e, NEW f,
         Flattens(e, g, k), Flattens(f, h, k + 1), \A n \in 1 .. k : g[n] = h[n], k # 0
  PROVE  e[k] = f[k]
<1> DEFINE T == {n \in 1 .. k : e[n] # f[n]}
<1>1. SUFFICES ASSUME T # {} PROVE FALSE
  OBVIOUS
<1>2. PICK n \in T : \A o \in T : n <= o
  <2>1. T \subseteq Nat
    OBVIOUS
  <2> HIDE DEF T
  <2> QED BY <1>1, <2>1, Least
<1>3. n \in 1 .. k /\ e[n] # f[n]
  OBVIOUS
<1>4. n \in 1 .. k + 1
  BY <1>3
<1>5. e[n] = NextFlat(e, g, n) /\ f[n] = NextFlat(f, h, n)
  <2>1. e = [o \in 1 .. k |-> NextFlat(e, g, o)]
    BY DEF Flattens
  <2>2. f = [o \in 1 .. k + 1 |-> NextFlat(f, h, o)]
    BY DEF Flattens
  <2> QED BY <1>3, <1>4, <2>1, <2>2
<1>6. CASE n = 1
  BY <1>3, <1>5, <1>6 DEF NextFlat
<1>7. CASE n # 1
  <2>1. n - 1 \in 1 .. k /\ ~(n <= n - 1)
    BY <1>3, <1>7
  <2>2. e[n - 1] = f[n - 1]
    BY <1>2, <2>1
  <2>3. g[n] = h[n]
    BY <1>3, <1>7
  <2> QED BY <1>3, <1>5, <2>2, <2>3 DEF NextFlat
<1> QED BY <1>6, <1>7

LEMMA FlattenSeqFlattens ==
  ASSUME NEW g, Len(g) \in Nat, Len(g) # 0
  PROVE  \E f : Flattens(f, g, Len(g)) /\ FlattenSeq(g) = f[Len(g)]
<1> DEFINE f == CHOOSE f : Flattens(f, g, Len(g))
<1>1. Flattens(f, g, Len(g))
  BY FlattensExists
<1>2. FlattenSeq(g) = f[Len(g)]
  BY DEF FlattenSeq, Flattens, NextFlat
<1> QED BY <1>1, <1>2

(* What sequence h flattens to is what all but its last piece do, and that piece. *)
LEMMA FlattenGrows ==
  ASSUME NEW g, NEW h, Log(g), Log(h), Len(h) = Len(g) + 1,
         \A n \in 1 .. Len(g) : h[n] = g[n], Log(h[Len(g) + 1])
  PROVE  FlattenSeq(h) = FlattenSeq(g) \o h[Len(g) + 1]
<1> DEFINE m == Len(g)
           last == h[m + 1]
<1>1. m \in Nat /\ Len(h) = m + 1 /\ m + 1 \in Nat /\ m + 1 # 0 /\ (m + 1) - 1 = m
  BY LogFacts
<1> HIDE DEF m
<1>2. PICK f : Flattens(f, h, m + 1) /\ FlattenSeq(h) = f[m + 1]
  BY <1>1, FlattenSeqFlattens
<1>3. f[m + 1] = NextFlat(f, h, m + 1)
  <2>1. f = [n \in 1 .. m + 1 |-> NextFlat(f, h, n)]
    BY <1>2 DEF Flattens
  <2>2. m + 1 \in 1 .. m + 1
    BY <1>1
  <2> QED BY <2>1, <2>2
<1>4. CASE m = 0
  <2>1. FlattenSeq(g) = g
    BY <1>4 DEF FlattenSeq, m
  <2>2. g = <<>>
    <3>1. Len(g) = 0 /\ g \in Seq(Range(g))
      BY <1>4 DEF m, Log
    <3> QED BY <3>1, EmptySeq
  <2>3. f[m + 1] = last
    BY <1>3, <1>4 DEF NextFlat
  <2>4. <<>> \o last = last
    <3>1. Log(last)
      BY DEF m
    <3> HIDE DEF last
    <3> QED BY <3>1, LogJoined, EmptyLog
  <2> QED BY <1>2, <2>1, <2>2, <2>3, <2>4 DEF m
<1>5. CASE m # 0
  <2>1. PICK e : Flattens(e, g, m) /\ FlattenSeq(g) = e[m]
    BY <1>1, <1>5, FlattenSeqFlattens DEF m
  <2>2. e[m] = f[m]
    <3>1. \A n \in 1 .. m : g[n] = h[n]
      BY DEF m
    <3>2. Flattens(e, g, m) /\ Flattens(f, h, m + 1)
      BY <1>2, <2>1
    <3> QED BY <1>1, <1>5, <3>1, <3>2, FlattensSame
  <2>3. m + 1 # 1
    BY <1>1, <1>5
  <2>4. f[m + 1] = f[m] \o last
    BY <1>1, <1>3, <2>3 DEF NextFlat
  <2> QED BY <1>2, <2>1, <2>2, <2>4 DEF m
<1> QED BY <1>4, <1>5

LEMMA FlattenOfNone ==
  ASSUME NEW g, Log(g), Len(g) = 0
  PROVE  FlattenSeq(g) = <<>>
<1>1. g = <<>>
  BY EmptySeq DEF Log
<1>2. FlattenSeq(g) = g
  BY DEF FlattenSeq
<1> QED BY <1>1, <1>2

-----------------------------------------------------------------------------
(* What one more block brings *)

\* Q is P and the block b.
OneMore(P, Q, b) == Log(P) /\ Q = Append(P, b)

\* h has the pieces of P that g has.
SamePieces(P, Q, g, h) ==
  /\ g = [n \in DOMAIN P |-> g[n]] /\ h = [n \in DOMAIN Q |-> h[n]]
  /\ \A n \in DOMAIN P : h[n] = g[n]

Gathered(g, h, piece) ==
  /\ FlattenSeq(h) = FlattenSeq(g) \o piece /\ Log(FlattenSeq(h))
  /\ piece = <<>> => FlattenSeq(h) = FlattenSeq(g)

\* Pieces g of blocks P and pieces h of the same blocks and one more.
LEMMA Gathers ==
  ASSUME NEW P, NEW b, NEW Q, OneMore(P, Q, b),
         NEW g, NEW h, SamePieces(P, Q, g, h),
         NEW piece, piece = h[Len(P) + 1], Log(piece), Log(FlattenSeq(g))
  PROVE  Gathered(g, h, piece)
<1>1. Len(P) \in Nat /\ DOMAIN P = 1 .. Len(P)
  BY LogFacts DEF OneMore
<1>0. /\ g = [n \in DOMAIN P |-> g[n]] /\ h = [n \in DOMAIN Q |-> h[n]]
      /\ \A n \in DOMAIN P : h[n] = g[n]
  BY DEF SamePieces
<1>2. DOMAIN Q = 1 .. Len(P) + 1
  BY LogAppend DEF OneMore
<1>3. Log(g) /\ Len(g) = Len(P)
  BY <1>0, <1>1, IsALog
<1>4. Log(h) /\ Len(h) = Len(P) + 1
  <2>1. Len(P) + 1 \in Nat
    BY <1>1
  <2> QED BY <1>0, <1>2, <2>1, IsALog
<1>5. FlattenSeq(h) = FlattenSeq(g) \o piece
  <2>1. \A n \in 1 .. Len(g) : h[n] = g[n]
    BY <1>0, <1>1, <1>3
  <2>2. Log(h[Len(g) + 1])
    BY <1>3
  <2>3. FlattenSeq(h) = FlattenSeq(g) \o h[Len(g) + 1]
    BY <1>3, <1>4, <2>1, <2>2, FlattenGrows
  <2> QED BY <1>3, <2>3
<1> QED BY <1>5, LogJoined DEF Gathered

LEMMA Extended ==
  ASSUME NEW P, NEW b, NEW Q, OneMore(P, Q, b)
  PROVE  /\ Log(Q) /\ Len(P) \in Nat /\ DOMAIN P = 1 .. Len(P) /\ DOMAIN Q = 1 .. Len(P) + 1
         /\ \A n \in DOMAIN P : n \in DOMAIN Q /\ Q[n] = P[n]
         /\ Len(P) + 1 \in DOMAIN Q /\ Q[Len(P) + 1] = b
BY LogAppend, LogFacts DEF OneMore

LEMMA ContentGrows ==
  ASSUME NEW P, NEW b, b.type = "content" => Log(b.piece), NEW Q, OneMore(P, Q, b),
         Log(ContentOf(P))
  PROVE  /\ Log(ContentOf(Q))
         /\ b.type = "content" => ContentOf(Q) = Joined(ContentOf(P), b.piece)
         /\ b.type # "content" => ContentOf(Q) = ContentOf(P)
<1> DEFINE g == [n \in DOMAIN P |-> IF P[n].type = "content" THEN P[n].piece ELSE <<>>]
           h == [n \in DOMAIN Q |-> IF Q[n].type = "content" THEN Q[n].piece ELSE <<>>]
           piece == IF b.type = "content" THEN b.piece ELSE <<>>
<1>1. g = [n \in DOMAIN P |-> g[n]] /\ h = [n \in DOMAIN Q |-> h[n]]
  OBVIOUS
<1>2. \A n \in DOMAIN P : h[n] = g[n]
  BY Extended
<1>3. piece = h[Len(P) + 1]
  BY Extended
<1>4. Log(piece)
  BY EmptyLog
<1>5. FlattenSeq(g) = ContentOf(P) /\ FlattenSeq(h) = ContentOf(Q)
  BY DEF ContentOf
<1> HIDE DEF g, h
<1>6. /\ FlattenSeq(h) = FlattenSeq(g) \o piece /\ Log(FlattenSeq(h))
      /\ piece = <<>> => FlattenSeq(h) = FlattenSeq(g)
  <2> HIDE DEF piece
  <2>1. SamePieces(P, Q, g, h)
    BY <1>1, <1>2 DEF SamePieces
  <2>2. Log(FlattenSeq(g))
    BY <1>5
  <2>3. Gathered(g, h, piece)
    BY <1>3, <1>4, <2>1, <2>2, Gathers
  <2> QED BY <2>3 DEF Gathered
<1> QED BY <1>5, <1>6 DEF Joined

LEMMA ReasoningGrows ==
  ASSUME NEW P, NEW b, NEW Q, OneMore(P, Q, b), Log(ReasoningOf(P))
  PROVE  /\ Log(ReasoningOf(Q))
         /\ b.type = "reasoning" => ReasoningOf(Q) = Joined(ReasoningOf(P), ReasoningDelta)
         /\ b.type # "reasoning" => ReasoningOf(Q) = ReasoningOf(P)
<1> DEFINE g == [n \in DOMAIN P |-> IF P[n].type = "reasoning" THEN ReasoningDelta ELSE <<>>]
           h == [n \in DOMAIN Q |-> IF Q[n].type = "reasoning" THEN ReasoningDelta ELSE <<>>]
           piece == IF b.type = "reasoning" THEN ReasoningDelta ELSE <<>>
<1>1. g = [n \in DOMAIN P |-> g[n]] /\ h = [n \in DOMAIN Q |-> h[n]]
  OBVIOUS
<1>2. \A n \in DOMAIN P : h[n] = g[n]
  BY Extended
<1>3. piece = h[Len(P) + 1]
  BY Extended
<1>4. Log(piece)
  BY EmptyLog DEF Log
<1>5. FlattenSeq(g) = ReasoningOf(P) /\ FlattenSeq(h) = ReasoningOf(Q)
  BY DEF ReasoningOf
<1> HIDE DEF g, h
<1>6. /\ FlattenSeq(h) = FlattenSeq(g) \o piece /\ Log(FlattenSeq(h))
      /\ piece = <<>> => FlattenSeq(h) = FlattenSeq(g)
  <2> HIDE DEF piece
  <2>1. SamePieces(P, Q, g, h)
    BY <1>1, <1>2 DEF SamePieces
  <2>2. Log(FlattenSeq(g))
    BY <1>5
  <2>3. Gathered(g, h, piece)
    BY <1>3, <1>4, <2>1, <2>2, Gathers
  <2> QED BY <2>3 DEF Gathered
<1> QED BY <1>5, <1>6 DEF Joined

\* The block is a delta of call k.
Speaks(b, k) == b.type = "tool" /\ b.delta.index = k

LEMMA ArgumentsGrow ==
  ASSUME NEW P, NEW k, NEW b,
         Speaks(b, k) => Log(b.delta.arguments),
         NEW Q, OneMore(P, Q, b),
         Log(ArgumentsOf(P, k))
  PROVE  /\ Log(ArgumentsOf(Q, k))
         /\ Speaks(b, k) => ArgumentsOf(Q, k) = Joined(ArgumentsOf(P, k), b.delta.arguments)
         /\ ~ Speaks(b, k) => ArgumentsOf(Q, k) = ArgumentsOf(P, k)
<1> DEFINE g == [n \in DOMAIN P |-> IF P[n].type = "tool" /\ P[n].delta.index = k
                                   THEN P[n].delta.arguments ELSE <<>>]
           h == [n \in DOMAIN Q |-> IF Q[n].type = "tool" /\ Q[n].delta.index = k
                                   THEN Q[n].delta.arguments ELSE <<>>]
           piece == IF Speaks(b, k) THEN b.delta.arguments ELSE <<>>
<1>1. g = [n \in DOMAIN P |-> g[n]] /\ h = [n \in DOMAIN Q |-> h[n]]
  OBVIOUS
<1>2. \A n \in DOMAIN P : h[n] = g[n]
  BY Extended
<1>3. piece = h[Len(P) + 1]
  BY Extended DEF Speaks
<1>4. Log(piece)
  BY EmptyLog
<1>5. FlattenSeq(g) = ArgumentsOf(P, k) /\ FlattenSeq(h) = ArgumentsOf(Q, k)
  BY DEF ArgumentsOf
<1> HIDE DEF g, h
<1>6. /\ FlattenSeq(h) = FlattenSeq(g) \o piece /\ Log(FlattenSeq(h))
      /\ piece = <<>> => FlattenSeq(h) = FlattenSeq(g)
  <2> HIDE DEF piece
  <2>1. SamePieces(P, Q, g, h)
    BY <1>1, <1>2 DEF SamePieces
  <2>2. Log(FlattenSeq(g))
    BY <1>5
  <2>3. Gathered(g, h, piece)
    BY <1>3, <1>4, <2>1, <2>2, Gathers
  <2> QED BY <2>3 DEF Gathered
<1> QED BY <1>5, <1>6 DEF Joined

NoTool(P) == \A n \in DOMAIN P : P[n].type # "tool"

LEMMA UninterruptedGrows ==
  ASSUME NEW P, NEW b, b.type = "content" => Log(b.piece), NEW Q, OneMore(P, Q, b),
         Log(Uninterrupted(P))
  PROVE  /\ Log(Uninterrupted(Q))
         /\ b.type = "content" /\ NoTool(P) => Uninterrupted(Q) = Joined(Uninterrupted(P), b.piece)
         /\ ~ (b.type = "content" /\ NoTool(P)) => Uninterrupted(Q) = Uninterrupted(P)
         /\ NoTool(Q) <=> NoTool(P) /\ b.type # "tool"
<1> DEFINE g == [n \in DOMAIN P |->
                   IF P[n].type = "content" /\ \A m \in 1 .. n : P[m].type # "tool"
                   THEN P[n].piece ELSE <<>>]
           h == [n \in DOMAIN Q |->
                   IF Q[n].type = "content" /\ \A m \in 1 .. n : Q[m].type # "tool"
                   THEN Q[n].piece ELSE <<>>]
           piece == IF b.type = "content" /\ NoTool(P) THEN b.piece ELSE <<>>
<1>1. g = [n \in DOMAIN P |-> g[n]] /\ h = [n \in DOMAIN Q |-> h[n]]
  OBVIOUS
<1>2. ASSUME NEW n \in DOMAIN P PROVE h[n] = g[n]
  <2>1. n \in DOMAIN Q /\ Q[n] = P[n]
    BY Extended
  <2>2. \A m \in 1 .. n : Q[m] = P[m]
    <3>1. n \in 1 .. Len(P) /\ Len(P) \in Nat /\ DOMAIN P = 1 .. Len(P)
      BY Extended
    <3>2. \A m \in 1 .. n : m \in DOMAIN P
      BY <3>1
    <3> QED BY <3>2, Extended
  <2> QED BY <2>1, <2>2
<1>3. piece = h[Len(P) + 1]
  <2>1. Len(P) + 1 \in DOMAIN Q /\ Q[Len(P) + 1] = b
    BY Extended
  <2>2. b.type = "content" =>
          ((\A m \in 1 .. Len(P) + 1 : Q[m].type # "tool") <=> NoTool(P))
    <3>1. /\ Len(P) \in Nat /\ DOMAIN P = 1 .. Len(P)
          /\ \A n \in DOMAIN P : Q[n] = P[n]
      BY Extended
    <3> QED BY <2>1, <3>1 DEF NoTool
  <2> QED BY <2>1, <2>2
<1>4. Log(piece)
  BY EmptyLog
<1>5. FlattenSeq(g) = Uninterrupted(P) /\ FlattenSeq(h) = Uninterrupted(Q)
  BY DEF Uninterrupted
<1> HIDE DEF g, h
<1>6. /\ FlattenSeq(h) = FlattenSeq(g) \o piece /\ Log(FlattenSeq(h))
      /\ piece = <<>> => FlattenSeq(h) = FlattenSeq(g)
  <2> HIDE DEF piece
  <2>1. SamePieces(P, Q, g, h)
    BY <1>1, <1>2 DEF SamePieces
  <2>2. Log(FlattenSeq(g))
    BY <1>5
  <2>3. Gathered(g, h, piece)
    BY <1>3, <1>4, <2>1, <2>2, Gathers
  <2> QED BY <2>3 DEF Gathered
<1>7. NoTool(Q) <=> NoTool(P) /\ b.type # "tool"
  <2>1. /\ \A n \in DOMAIN P : n \in DOMAIN Q /\ Q[n] = P[n]
        /\ Len(P) + 1 \in DOMAIN Q /\ Q[Len(P) + 1] = b
        /\ DOMAIN P = 1 .. Len(P) /\ DOMAIN Q = 1 .. Len(P) + 1 /\ Len(P) \in Nat
    BY Extended
  <2>2. \A n \in DOMAIN Q : n \in DOMAIN P \/ n = Len(P) + 1
    BY <2>1
  <2> QED BY <2>1, <2>2 DEF NoTool
<1> QED BY <1>5, <1>6, <1>7 DEF Joined

LEMMA NothingBrought ==
  /\ ContentOf(<<>>) = <<>> /\ ReasoningOf(<<>>) = <<>> /\ Uninterrupted(<<>>) = <<>>
  /\ \A k : ArgumentsOf(<<>>, k) = <<>>
  /\ NoTool(<<>>) /\ Naming(<<>>) = {}
<1>1. ASSUME NEW g, g = [n \in DOMAIN <<>> |-> g[n]]
      PROVE  FlattenSeq(g) = <<>>
  <2>1. g = [n \in 1 .. 0 |-> g[n]]
    BY <1>1, EmptyLog
  <2> QED BY <2>1, IsALog, FlattenOfNone
<1>2. ContentOf(<<>>) = <<>>
  BY <1>1 DEF ContentOf
<1>3. ReasoningOf(<<>>) = <<>>
  BY <1>1 DEF ReasoningOf
<1>4. Uninterrupted(<<>>) = <<>>
  BY <1>1 DEF Uninterrupted
<1>5. ASSUME NEW k PROVE ArgumentsOf(<<>>, k) = <<>>
  BY <1>1 DEF ArgumentsOf
<1>6. NoTool(<<>>) /\ Naming(<<>>) = {}
  BY EmptyLog DEF NoTool, Naming
<1> QED BY <1>2, <1>3, <1>4, <1>5, <1>6

-----------------------------------------------------------------------------
(* Texts and their trimming *)

LEMMA SameLogs ==
  ASSUME NEW s, NEW t, Log(s), Log(t), Len(s) = Len(t), \A i \in 1 .. Len(s) : s[i] = t[i]
  PROVE  s = t
<1> DEFINE S == Range(s) \cup Range(t)
<1>1. s \in Seq(S) /\ t \in Seq(S)
  BY SeqMonotonic DEF Log
<1> HIDE DEF S
<1> QED BY <1>1, SeqEqual

\* A part of a text.
LEMMA Part ==
  ASSUME NEW s, Log(s), NEW m \in Nat, m >= 1, NEW n \in Nat, n <= Len(s)
  PROVE  LET p == SubSeq(s, m, n)
         IN  /\ Log(p) /\ Len(p) = IF m <= n THEN n - m + 1 ELSE 0
             /\ \A i \in 1 .. n - m + 1 : p[i] = s[m + i - 1]
<1> DEFINE S == Range(s)
           p == SubSeq(s, m, n)
<1>1. s \in Seq(S)
  BY DEF Log
<1> HIDE DEF S
<1>2. \A i \in m .. n : s[i] \in S
  <2>1. Len(s) \in Nat
    BY <1>1
  <2>2. \A i \in m .. n : i \in 1 .. Len(s)
    BY <2>1
  <2> QED BY <1>1, <2>2, ElementOfSeq
<1>3. m \in Int /\ n \in Int
  OBVIOUS
<1>4. /\ p \in Seq(S) /\ Len(p) = IF m <= n THEN n - m + 1 ELSE 0
      /\ \A i \in 1 .. n - m + 1 : p[i] = s[m + i - 1]
  BY <1>2, <1>3, SubSeqProperties
<1>5. Log(p)
  BY <1>4, SeqOfRange DEF Log
<1> QED BY <1>4, <1>5

LEMMA JoinedIs ==
  ASSUME NEW s, NEW t, Log(s), Log(t)
  PROVE  LET u == s \o t
         IN  /\ Log(u) /\ Len(u) = Len(s) + Len(t) /\ Len(s) \in Nat /\ Len(t) \in Nat
             /\ \A i \in 1 .. Len(s) : u[i] = s[i]
             /\ \A i \in 1 .. Len(t) : u[Len(s) + i] = t[i]
<1> DEFINE S == Range(s) \cup Range(t)
           u == s \o t
<1>1. s \in Seq(S) /\ t \in Seq(S)
  BY SeqMonotonic DEF Log
<1> HIDE DEF S
<1>2. /\ Len(u) = Len(s) + Len(t)
      /\ \A i \in 1 .. Len(s) + Len(t) : u[i] = IF i <= Len(s) THEN s[i] ELSE t[i - Len(s)]
  BY <1>1, ConcatProperties
<1>3. Len(s) \in Nat /\ Len(t) \in Nat
  BY <1>1
<1>4. Log(u)
  BY LogJoined
<1> HIDE DEF u
<1>5. ASSUME NEW i \in 1 .. Len(s) PROVE u[i] = s[i]
  <2>1. i \in 1 .. Len(s) + Len(t) /\ i <= Len(s)
    BY <1>3
  <2> QED BY <1>2, <2>1
<1>6. ASSUME NEW i \in 1 .. Len(t) PROVE u[Len(s) + i] = t[i]
  <2>1. /\ Len(s) + i \in 1 .. Len(s) + Len(t) /\ ~ (Len(s) + i <= Len(s))
        /\ (Len(s) + i) - Len(s) = i
    BY <1>3
  <2> QED BY <1>2, <2>1
<1>7. /\ Log(u) /\ Len(u) = Len(s) + Len(t) /\ Len(s) \in Nat /\ Len(t) \in Nat
      /\ \A i \in 1 .. Len(s) : u[i] = s[i]
      /\ \A i \in 1 .. Len(t) : u[Len(s) + i] = t[i]
  BY <1>2, <1>3, <1>4, <1>5, <1>6
<1> QED BY <1>7 DEF u

\* The end of a text joined with another.
LEMMA EndJoined ==
  ASSUME NEW s, NEW t, Log(s), Log(t), NEW n \in Nat, n >= 1, n <= Len(s) + 1
  PROVE  SubSeq(s \o t, n, Len(s \o t)) = SubSeq(s, n, Len(s)) \o t
<1> DEFINE u == s \o t
           p == SubSeq(u, n, Len(u))
           q == SubSeq(s, n, Len(s))
           r == q \o t
<1>1. /\ Log(u) /\ Len(u) = Len(s) + Len(t) /\ Len(s) \in Nat /\ Len(t) \in Nat
      /\ \A i \in 1 .. Len(s) : u[i] = s[i]
      /\ \A i \in 1 .. Len(t) : u[Len(s) + i] = t[i]
  BY JoinedIs
<1>2. /\ Log(p) /\ Len(p) = Len(u) - n + 1
      /\ \A i \in 1 .. Len(u) - n + 1 : p[i] = u[n + i - 1]
  <2> HIDE DEF u
  <2>1. /\ Log(p) /\ Len(p) = IF n <= Len(u) THEN Len(u) - n + 1 ELSE 0
        /\ \A i \in 1 .. Len(u) - n + 1 : p[i] = u[n + i - 1]
    <3>1. Len(u) \in Nat /\ Len(u) <= Len(u)
      BY <1>1
    <3> QED BY <1>1, <3>1, Part
  <2> QED BY <1>1, <2>1
<1>3. /\ Log(q) /\ Len(q) = Len(s) - n + 1
      /\ \A i \in 1 .. Len(s) - n + 1 : q[i] = s[n + i - 1]
  <2>1. /\ Log(q) /\ Len(q) = IF n <= Len(s) THEN Len(s) - n + 1 ELSE 0
        /\ \A i \in 1 .. Len(s) - n + 1 : q[i] = s[n + i - 1]
    <3>1. Len(s) <= Len(s)
      BY <1>1
    <3> QED BY <1>1, <3>1, Part
  <2> QED BY <1>1, <2>1
<1>0. Log(q)
  BY <1>3
<1> HIDE DEF p, q, u
<1>4. /\ Log(r) /\ Len(r) = Len(q) + Len(t)
      /\ \A i \in 1 .. Len(q) : r[i] = q[i]
      /\ \A i \in 1 .. Len(t) : r[Len(q) + i] = t[i]
  BY <1>0, JoinedIs
<1> HIDE DEF r
<1>5. Len(p) = Len(r)
  BY <1>1, <1>2, <1>3, <1>4
<1>6. ASSUME NEW i \in 1 .. Len(p) PROVE p[i] = r[i]
  <2>0. i \in Nat /\ i >= 1 /\ i <= Len(s) + Len(t) - n + 1
    BY <1>1, <1>2
  <2>1. CASE i <= Len(q)
    <3>1. i \in 1 .. Len(q) /\ i \in 1 .. Len(s) - n + 1 /\ n + i - 1 \in 1 .. Len(s)
          /\ i \in 1 .. Len(u) - n + 1
      BY <1>1, <1>3, <2>0, <2>1
    <3> QED BY <1>1, <1>2, <1>3, <1>4, <3>1
  <2>2. CASE ~ (i <= Len(q))
    <3> DEFINE j == i - Len(q)
    <3>1. j \in 1 .. Len(t) /\ Len(q) + j = i /\ n + i - 1 = Len(s) + j
          /\ i \in 1 .. Len(u) - n + 1
      BY <1>1, <1>3, <2>0, <2>2
    <3> HIDE DEF j
    <3>2. p[i] = u[Len(s) + j] /\ u[Len(s) + j] = t[j]
      BY <1>1, <1>2, <3>1
    <3>3. r[Len(q) + j] = t[j]
      BY <1>4, <3>1
    <3> QED BY <3>1, <3>2, <3>3
  <2> QED BY <2>1, <2>2
<1>7. p = r
  BY <1>2, <1>4, <1>5, <1>6, SameLogs
<1> QED BY <1>7 DEF p, r, q, u

-----------------------------------------------------------------------------
\* n is where the ink of s begins.
Starts(s, n) ==
  /\ n \in Nat /\ n >= 1 /\ n <= Len(s) + 1
  /\ \A m \in 1 .. n - 1 : s[m] = Blank
  /\ n <= Len(s) => s[n] # Blank

LEMMA InkStarts ==
  ASSUME NEW s, Log(s)
  PROVE  \E n : Starts(s, n)
<1> DEFINE T == {n \in DOMAIN s : s[n] # Blank}
<1>1. Len(s) \in Nat /\ DOMAIN s = 1 .. Len(s)
  BY LogFacts
<1>2. CASE T = {}
  <2>1. \A m \in 1 .. (Len(s) + 1) - 1 : s[m] = Blank
    BY <1>1, <1>2
  <2>2. Starts(s, Len(s) + 1)
    BY <1>1, <2>1 DEF Starts
  <2> QED BY <2>2
<1>3. CASE T # {}
  <2>1. PICK n \in T : \A m \in T : n <= m
    <3>1. T \subseteq Nat
      BY <1>1
    <3> HIDE DEF T
    <3> QED BY <1>3, <3>1, Least
  <2>2. n \in 1 .. Len(s) /\ s[n] # Blank
    BY <1>1
  <2>3. ASSUME NEW m \in 1 .. n - 1 PROVE s[m] = Blank
    <3>1. m \in DOMAIN s /\ ~ (n <= m)
      BY <1>1, <2>2
    <3> QED BY <2>1, <3>1
  <2>4. Starts(s, n)
    BY <1>1, <2>2, <2>3 DEF Starts
  <2> QED BY <2>4
<1> QED BY <1>2, <1>3

LEMMA TrimmedIs ==
  ASSUME NEW s, Log(s), NEW n, Starts(s, n)
  PROVE  TrimLeft(s) = SubSeq(s, n, Len(s))
<1> DEFINE T == {m \in DOMAIN s : s[m] # Blank}
<1>1. Len(s) \in Nat /\ DOMAIN s = 1 .. Len(s)
  BY LogFacts
<1>2. /\ n \in Nat /\ n >= 1 /\ n <= Len(s) + 1
      /\ \A m \in 1 .. n - 1 : s[m] = Blank
      /\ n <= Len(s) => s[n] # Blank
  BY DEF Starts
<1>3. TrimLeft(s) = IF T = {} THEN <<>>
                    ELSE SubSeq(s, CHOOSE m \in T : \A o \in T : m <= o, Len(s))
  BY DEF TrimLeft
<1>4. \A m \in T : n <= m
  <2>1. SUFFICES ASSUME NEW m \in T, ~ (n <= m) PROVE FALSE
    OBVIOUS
  <2>2. m \in 1 .. n - 1
    BY <1>1, <1>2, <2>1
  <2> QED BY <1>2, <2>2
<1>5. CASE n <= Len(s)
  <2>1. n \in T
    BY <1>1, <1>2, <1>5
  <2>2. T \subseteq Nat
    BY <1>1
  <2> HIDE DEF T
  <2>3. \A m \in T : (\A o \in T : m <= o) => m = n
    BY <1>4, <2>1, <2>2
  <2>4. (CHOOSE m \in T : \A o \in T : m <= o) = n
    BY <1>4, <2>1, <2>3
  <2>5. T # {}
    BY <2>1
  <2> QED BY <1>3, <2>4, <2>5
<1>6. CASE ~ (n <= Len(s))
  <2>1. T = {}
    <3>1. \A m \in T : m <= Len(s) /\ m \in Nat
      BY <1>1
    <3> HIDE DEF T
    <3>2. \A m \in T : FALSE
      BY <1>1, <1>2, <1>4, <1>6, <3>1
    <3> QED BY <3>2
  <2>2. SubSeq(s, n, Len(s)) = <<>>
    BY <1>1, <1>2, <1>6, SubSeqEmpty
  <2> QED BY <1>3, <2>1, <2>2
<1> QED BY <1>5, <1>6

\* A trimmed text is the end of the text from where its ink begins.
LEMMA Trimmed ==
  ASSUME NEW s, Log(s), NEW n, Starts(s, n)
  PROVE  LET t == TrimLeft(s)
         IN  /\ Log(t) /\ Len(t) = Len(s) - n + 1 /\ Len(s) \in Nat
             /\ \A i \in 1 .. Len(t) : t[i] = s[n + i - 1]
             /\ t = <<>> <=> n = Len(s) + 1
             /\ t # <<>> => t[1] # Blank
<1> DEFINE t == SubSeq(s, n, Len(s))
<1>1. TrimLeft(s) = t
  BY TrimmedIs
<1>2. /\ n \in Nat /\ n >= 1 /\ n <= Len(s) + 1
      /\ n <= Len(s) => s[n] # Blank
  BY DEF Starts
<1>3. Len(s) \in Nat /\ Len(s) <= Len(s)
  BY LogFacts
<1>4. /\ Log(t) /\ Len(t) = IF n <= Len(s) THEN Len(s) - n + 1 ELSE 0
      /\ \A i \in 1 .. Len(s) - n + 1 : t[i] = s[n + i - 1]
  BY <1>2, <1>3, Part
<1> HIDE DEF t
<1>5. Len(t) = Len(s) - n + 1
  BY <1>2, <1>3, <1>4
<1>6. t = <<>> <=> Len(t) = 0
  BY <1>4, EmptyLog, EmptySeq DEF Log
<1>7. t = <<>> <=> n = Len(s) + 1
  BY <1>2, <1>3, <1>5, <1>6
<1>8. t # <<>> => t[1] # Blank
  <2>1. t # <<>> => n <= Len(s) /\ 1 \in 1 .. Len(s) - n + 1 /\ n + 1 - 1 = n
    BY <1>2, <1>3, <1>7
  <2> QED BY <1>2, <1>4, <2>1
<1> QED BY <1>1, <1>3, <1>4, <1>5, <1>7, <1>8

LEMMA TrimLog ==
  ASSUME NEW s, Log(s)
  PROVE  Log(TrimLeft(s))
BY InkStarts, Trimmed

\* Trimming a text that another one follows.
LEMMA TrimJoined ==
  ASSUME NEW s, NEW t, Log(s), Log(t)
  PROVE  TrimLeft(s \o t) = IF TrimLeft(s) = <<>> THEN TrimLeft(t) ELSE TrimLeft(s) \o t
<1> DEFINE u == s \o t
<1>1. /\ Log(u) /\ Len(u) = Len(s) + Len(t) /\ Len(s) \in Nat /\ Len(t) \in Nat
      /\ \A i \in 1 .. Len(s) : u[i] = s[i]
      /\ \A i \in 1 .. Len(t) : u[Len(s) + i] = t[i]
  BY JoinedIs
<1>2. PICK n : Starts(s, n)
  BY InkStarts
<1>3. /\ n \in Nat /\ n >= 1 /\ n <= Len(s) + 1
      /\ \A m \in 1 .. n - 1 : s[m] = Blank
      /\ n <= Len(s) => s[n] # Blank
  BY <1>2 DEF Starts
<1>4. TrimLeft(s) = SubSeq(s, n, Len(s)) /\ (TrimLeft(s) = <<>> <=> n = Len(s) + 1)
  BY <1>2, TrimmedIs, Trimmed
<1>5. CASE n <= Len(s)
  <2> HIDE DEF u
  <2>1. \A m \in 1 .. n - 1 : u[m] = Blank
    <3>1. \A m \in 1 .. n - 1 : m \in 1 .. Len(s)
      BY <1>1, <1>3
    <3> QED BY <1>1, <1>3, <3>1
  <2>2. u[n] # Blank
    BY <1>1, <1>3, <1>5, n \in 1 .. Len(s)
  <2>3. n <= Len(u) + 1
    BY <1>1, <1>3, <1>5
  <2>4. Starts(u, n)
    BY <1>3, <2>1, <2>2, <2>3 DEF Starts
  <2>5. TrimLeft(u) = SubSeq(u, n, Len(u))
    BY <1>1, <2>4, TrimmedIs
  <2>6. SubSeq(u, n, Len(u)) = SubSeq(s, n, Len(s)) \o t
    BY <1>3, EndJoined DEF u
  <2>7. TrimLeft(s) # <<>>
    BY <1>1, <1>3, <1>4, <1>5
  <2> QED BY <1>4, <2>5, <2>6, <2>7 DEF u
<1>6. CASE ~ (n <= Len(s))
  <2>0. n = Len(s) + 1 /\ TrimLeft(s) = <<>>
    BY <1>1, <1>3, <1>4, <1>6
  <2>1. PICK k : Starts(t, k)
    BY InkStarts
  <2>2. /\ k \in Nat /\ k >= 1 /\ k <= Len(t) + 1
        /\ \A m \in 1 .. k - 1 : t[m] = Blank
        /\ k <= Len(t) => t[k] # Blank
    BY <2>1 DEF Starts
  <2> DEFINE l == Len(s) + k
  <2> HIDE DEF u
  <2>3. ASSUME NEW m \in 1 .. l - 1 PROVE u[m] = Blank
    <3>1. CASE m <= Len(s)
      <4>1. m \in 1 .. n - 1 /\ m \in 1 .. Len(s)
        BY <1>1, <2>0, <3>1
      <4> QED BY <1>1, <1>3, <4>1
    <3>2. CASE ~ (m <= Len(s))
      <4> DEFINE o == m - Len(s)
      <4>1. o \in 1 .. k - 1 /\ o \in 1 .. Len(t) /\ Len(s) + o = m
        BY <1>1, <2>2, <3>2
      <4> HIDE DEF o
      <4>2. u[Len(s) + o] = t[o] /\ t[o] = Blank
        BY <1>1, <2>2, <4>1
      <4> QED BY <4>1, <4>2
    <3> QED BY <3>1, <3>2
  <2>4. l <= Len(u) => u[l] # Blank
    <3>1. l <= Len(u) => k \in 1 .. Len(t)
      BY <1>1, <2>2
    <3> QED BY <1>1, <2>2, <3>1
  <2>5. l \in Nat /\ l >= 1 /\ l <= Len(u) + 1
    BY <1>1, <2>2
  <2>6. Starts(u, l)
    BY <2>3, <2>4, <2>5 DEF Starts
  <2> HIDE DEF l
  <2>7. /\ Log(TrimLeft(u)) /\ Len(TrimLeft(u)) = Len(u) - l + 1
        /\ \A i \in 1 .. Len(TrimLeft(u)) : TrimLeft(u)[i] = u[l + i - 1]
    <3>1. Log(u)
      BY <1>1
    <3> QED BY <2>6, <3>1, Trimmed
  <2>8. /\ Log(TrimLeft(t)) /\ Len(TrimLeft(t)) = Len(t) - k + 1
        /\ \A i \in 1 .. Len(TrimLeft(t)) : TrimLeft(t)[i] = t[k + i - 1]
    BY <2>1, Trimmed
  <2>9. Len(TrimLeft(u)) = Len(TrimLeft(t))
    BY <1>1, <2>2, <2>7, <2>8 DEF l
  <2>10. ASSUME NEW i \in 1 .. Len(TrimLeft(u)) PROVE TrimLeft(u)[i] = TrimLeft(t)[i]
    <3>1. /\ i \in 1 .. Len(TrimLeft(t)) /\ k + i - 1 \in 1 .. Len(t)
          /\ l + i - 1 = Len(s) + (k + i - 1)
      BY <1>1, <2>2, <2>8, <2>9 DEF l
    <3>2. u[Len(s) + (k + i - 1)] = t[k + i - 1]
      BY <1>1, <3>1
    <3> QED BY <2>7, <2>8, <3>1, <3>2
  <2>11. TrimLeft(u) = TrimLeft(t)
    BY <2>7, <2>8, <2>9, <2>10, SameLogs
  <2> QED BY <2>0, <2>11 DEF u
<1> QED BY <1>5, <1>6

LEMMA TrimTrimmed ==
  ASSUME NEW s, Log(s)
  PROVE  TrimLeft(TrimLeft(s)) = TrimLeft(s)
<1> DEFINE t == TrimLeft(s)
<1>1. PICK n : Starts(s, n)
  BY InkStarts
<1>2. /\ Log(t) /\ (t # <<>> => t[1] # Blank)
  BY <1>1, Trimmed
<1> HIDE DEF t
<1>3. Len(t) \in Nat /\ t = SubSeq(t, 1, Len(t))
  BY <1>2, LogFacts, SubSeqFull DEF Log
<1>4. Starts(t, 1)
  <2>1. 1 <= Len(t) => t # <<>>
    BY EmptyLog
  <2>2. \A m \in 1 .. 1 - 1 : t[m] = Blank
    OBVIOUS
  <2> QED BY <1>2, <1>3, <2>1, <2>2 DEF Starts
<1>5. TrimLeft(t) = t
  BY <1>2, <1>3, <1>4, TrimmedIs
<1> QED BY <1>5 DEF t

LEMMA TrimOfNone == TrimLeft(<<>>) = <<>>
<1>1. Starts(<<>>, 1)
  BY EmptyLog DEF Starts
<1>2. 1 = Len(<<>>) + 1
  BY EmptyLog
<1> QED BY <1>1, <1>2, EmptyLog, Trimmed

-----------------------------------------------------------------------------
(* Think blocks *)

LEMMA PrefixIs ==
  ASSUME NEW s, NEW t, Log(s), Log(t)
  PROVE  IsPrefix(s, t) <=> Len(s) <= Len(t) /\ \A i \in 1 .. Len(s) : s[i] = t[i]
<1>1. Len(s) \in Nat /\ Len(t) \in Nat /\ SubSeq(s, 1, Len(s)) = s
  BY LogFacts, SubSeqFull DEF Log
<1>2. CASE ~ (Len(s) <= Len(t))
  BY <1>2 DEF IsPrefix
<1>3. CASE Len(s) <= Len(t)
  <2> DEFINE p == SubSeq(t, 1, Len(s))
  <2>1. /\ Log(p) /\ Len(p) = IF 1 <= Len(s) THEN Len(s) - 1 + 1 ELSE 0
        /\ \A i \in 1 .. Len(s) - 1 + 1 : p[i] = t[1 + i - 1]
    BY <1>1, <1>3, Part
  <2>2. IsPrefix(s, t) <=> s = p
    BY <1>1, <1>3 DEF IsPrefix
  <2> HIDE DEF p
  <2>3. Len(p) = Len(s)
    BY <1>1, <2>1
  <2>4. ASSUME NEW i \in 1 .. Len(s) PROVE p[i] = t[i]
    <3>1. i \in 1 .. Len(s) - 1 + 1 /\ 1 + i - 1 = i
      BY <1>1
    <3> QED BY <2>1, <3>1
  <2>5. (\A i \in 1 .. Len(s) : s[i] = t[i]) => s = p
    BY <2>1, <2>3, <2>4, SameLogs
  <2> QED BY <1>3, <2>2, <2>4, <2>5
<1> QED BY <1>2, <1>3

Tagged(body) == Len(body) >= 2 /\ body[1] = ThinkOpen /\ body[2] = TagEnd

LEMMA OpenTagFacts ==
  /\ Log(OpenTag) /\ Len(OpenTag) = 2 /\ OpenTag[1] = ThinkOpen /\ OpenTag[2] = TagEnd
  /\ ThinkOpen # TagEnd
<1>1. OpenTag = [n \in 1 .. 2 |-> OpenTag[n]]
  BY DEF OpenTag
<1>2. 2 \in Nat
  OBVIOUS
<1>3. Log(OpenTag)
  BY <1>1, <1>2, IsALog
<1> QED BY <1>3 DEF OpenTag, ThinkOpen, TagEnd

LEMMA TaggedIs ==
  ASSUME NEW body, Log(body)
  PROVE  IsPrefix(OpenTag, body) <=> Tagged(body)
<1>1. IsPrefix(OpenTag, body) <=> 2 <= Len(body) /\ \A i \in 1 .. 2 : OpenTag[i] = body[i]
  <2>1. Log(OpenTag) /\ Len(OpenTag) = 2
    BY OpenTagFacts
  <2>2. IsPrefix(OpenTag, body) <=>
          Len(OpenTag) <= Len(body) /\ \A i \in 1 .. Len(OpenTag) : OpenTag[i] = body[i]
    BY <2>1, PrefixIs
  <2> QED BY <2>1, <2>2
<1>2. \A i : i \in 1 .. 2 <=> i = 1 \/ i = 2
  OBVIOUS
<1>3. Len(body) \in Nat
  BY LogFacts
<1>4. (\A i \in 1 .. 2 : OpenTag[i] = body[i]) <=> body[1] = ThinkOpen /\ body[2] = TagEnd
  BY <1>2, OpenTagFacts
<1> QED BY <1>1, <1>3, <1>4 DEF Tagged

Opens(text) == IsPrefix(OpenTag, TrimLeft(text))

LEMMA OpensIs ==
  ASSUME NEW s, Log(s)
  PROVE  Opens(s) <=> Tagged(TrimLeft(s))
BY TrimLog, TaggedIs DEF Opens

LEMMA TagStays ==
  ASSUME NEW s, NEW t, Log(s), Log(t), Tagged(s)
  PROVE  Tagged(s \o t)
<1> DEFINE u == s \o t
<1>1. /\ Len(u) = Len(s) + Len(t) /\ Len(s) \in Nat /\ Len(t) \in Nat
      /\ \A i \in 1 .. Len(s) : u[i] = s[i]
  BY JoinedIs
<1> HIDE DEF u
<1>2. 1 \in 1 .. Len(s) /\ 2 \in 1 .. Len(s) /\ Len(u) >= 2
  BY <1>1 DEF Tagged
<1>3. Tagged(u)
  BY <1>1, <1>2 DEF Tagged
<1> QED BY <1>3 DEF u

LEMMA TrimStays ==
  ASSUME NEW s, NEW t, Log(s), Log(t), TrimLeft(s) # <<>>
  PROVE  TrimLeft(s \o t) = TrimLeft(s) \o t
BY TrimJoined

LEMMA TaggedIsInked ==
  ASSUME NEW s, Tagged(s)
  PROVE  s # <<>>
BY EmptyLog DEF Tagged

LEMMA OpensStays ==
  ASSUME NEW s, NEW t, Log(s), Log(t), Opens(s)
  PROVE  Opens(s \o t)
<1>1. Tagged(TrimLeft(s)) /\ Log(TrimLeft(s))
  BY OpensIs, TrimLog
<1>2. TrimLeft(s \o t) = TrimLeft(s) \o t
  BY <1>1, TaggedIsInked, TrimStays
<1>3. Tagged(TrimLeft(s \o t))
  BY <1>1, <1>2, TagStays
<1>4. Log(s \o t)
  BY LogJoined
<1> QED BY <1>3, <1>4, OpensIs

LEMMA Decisions ==
  ASSUME NEW s
  PROVE  /\ Decision(s) \in {"reasoning", "need_more", "text"}
         /\ Decision(s) = "reasoning" <=> Opens(s)
         /\ Decision(s) = "text" <=> ~ Opens(s) /\ ~ IsPrefix(TrimLeft(s), OpenTag)
BY DEF Decision, Opens

\* A text that does not begin a tag will not do so when it goes on.
LEMMA TextStaysText ==
  ASSUME NEW s, NEW t, Log(s), Log(t), Decision(s) = "text"
  PROVE  Decision(s \o t) = "text"
<1> DEFINE b == TrimLeft(s)
<1>1. ~ Opens(s) /\ ~ IsPrefix(b, OpenTag) /\ Log(b)
  BY Decisions, TrimLog
<1>2. /\ Len(b) \in Nat
      /\ ~ (Len(b) <= 2 /\ \A i \in 1 .. Len(b) : b[i] = OpenTag[i])
      /\ ~ Tagged(b)
  BY <1>1, LogFacts, PrefixIs, OpenTagFacts, OpensIs
<1>3. b # <<>>
  <2>1. SUFFICES ASSUME b = <<>> PROVE FALSE
    OBVIOUS
  <2>2. Len(b) = 0
    BY <2>1, EmptyLog
  <2> HIDE DEF b
  <2> QED BY <1>2, <2>2
<1> DEFINE u == s \o t
           d == b \o t
<1>4. TrimLeft(u) = d /\ Log(u) /\ Log(d)
  BY <1>1, <1>3, TrimStays, LogJoined
<1>5. /\ Len(d) = Len(b) + Len(t) /\ Len(t) \in Nat
      /\ \A i \in 1 .. Len(b) : d[i] = b[i]
  BY <1>1, JoinedIs
<1> HIDE DEF b, d, u
<1>6. Len(b) # 0
  BY <1>1, <1>3, EmptySeq DEF Log
<1>7. ~ Opens(u)
  <2>1. SUFFICES ASSUME Tagged(d) PROVE FALSE
    BY <1>4, OpensIs
  <2>2. CASE Len(b) >= 2
    <3>1. 1 \in 1 .. Len(b) /\ 2 \in 1 .. Len(b)
      BY <1>2, <2>2
    <3> QED BY <1>2, <1>5, <2>1, <2>2, <3>1 DEF Tagged
  <2>3. CASE ~ (Len(b) >= 2)
    <3>0. Len(b) \in Nat
      BY <1>2
    <3>a. \A l \in Nat : l # 0 /\ ~ (l >= 2) => l = 1 /\ 1 \in 1 .. l
      OBVIOUS
    <3>1. Len(b) = 1 /\ 1 \in 1 .. Len(b)
      BY ONLY <1>6, <2>3, <3>0, <3>a
    <3>2. b[1] = OpenTag[1]
      BY <1>5, <2>1, <3>1, OpenTagFacts DEF Tagged
    <3>3. \A i \in 1 .. Len(b) : b[i] = OpenTag[i]
      BY <3>1, <3>2
    <3> QED BY <1>2, <3>1, <3>3
  <2> QED BY <2>2, <2>3
<1>8. ~ IsPrefix(d, OpenTag)
  <2>1. SUFFICES ASSUME Len(d) <= 2, \A i \in 1 .. Len(d) : d[i] = OpenTag[i] PROVE FALSE
    BY <1>4, PrefixIs, OpenTagFacts
  <2>2. Len(b) <= 2 /\ \A i \in 1 .. Len(b) : i \in 1 .. Len(d)
    BY <1>2, <1>5, <2>1
  <2>3. \A i \in 1 .. Len(b) : b[i] = OpenTag[i]
    BY <1>5, <2>1, <2>2
  <2> QED BY <1>2, <2>2, <2>3
<1>9. Decision(u) = "text"
  BY <1>4, <1>7, <1>8, Decisions
<1> QED BY <1>9 DEF u

LEMMA ClosesIs ==
  ASSUME NEW body, Log(body), NEW n
  PROVE  n \in ClosesAt(body) <=>
           n \in 3 .. Len(body) - 1 /\ body[n] = ThinkClose /\ body[n + 1] = TagEnd
<1>1. Len(body) \in Nat
  BY LogFacts
<1>2. SUFFICES ASSUME n \in 3 .. Len(body) - 1
               PROVE  SubSeq(body, n, n + 1) = CloseTag <=>
                        body[n] = ThinkClose /\ body[n + 1] = TagEnd
  BY DEF ClosesAt
<1> DEFINE p == SubSeq(body, n, n + 1)
<1>3. n \in Nat /\ n >= 1 /\ n + 1 \in Nat /\ n + 1 <= Len(body) /\ n <= n + 1
      /\ (n + 1) - n + 1 = 2
  BY <1>1, <1>2
<1>4. /\ Log(p) /\ Len(p) = IF n <= n + 1 THEN (n + 1) - n + 1 ELSE 0
      /\ \A i \in 1 .. (n + 1) - n + 1 : p[i] = body[n + i - 1]
  BY <1>3, Part
<1>5. Log(CloseTag) /\ Len(CloseTag) = 2 /\ CloseTag[1] = ThinkClose /\ CloseTag[2] = TagEnd
  <2>1. CloseTag = [i \in 1 .. 2 |-> CloseTag[i]]
    BY DEF CloseTag
  <2>2. 2 \in Nat
    OBVIOUS
  <2>3. Log(CloseTag)
    BY <2>1, <2>2, IsALog
  <2> QED BY <2>3 DEF CloseTag
<1> HIDE DEF p
<1>6. Len(p) = 2 /\ p[1] = body[n] /\ p[2] = body[n + 1]
  <2>1. 1 \in 1 .. (n + 1) - n + 1 /\ 2 \in 1 .. (n + 1) - n + 1
        /\ n + 1 - 1 = n /\ n + 2 - 1 = n + 1
    BY <1>3
  <2> QED BY <1>3, <1>4, <2>1
<1>7. p[1] = ThinkClose /\ p[2] = TagEnd => p = CloseTag
  <2>1. SUFFICES ASSUME p[1] = ThinkClose, p[2] = TagEnd PROVE p = CloseTag
    OBVIOUS
  <2>2. \A i \in 1 .. Len(p) : i = 1 \/ i = 2
    BY <1>6
  <2>3. \A i \in 1 .. Len(p) : p[i] = CloseTag[i]
    BY <1>5, <2>1, <2>2
  <2> QED BY <1>4, <1>5, <1>6, <2>3, SameLogs
<1> QED BY <1>5, <1>6, <1>7 DEF p

\* The first tag that closes a think block.
FirstClose(body, n) == n \in ClosesAt(body) /\ \A m \in ClosesAt(body) : n <= m

LEMMA CloseIs ==
  ASSUME NEW body, Log(body), NEW n, FirstClose(body, n)
  PROVE  (CHOOSE m \in ClosesAt(body) : \A o \in ClosesAt(body) : m <= o) = n
<1> DEFINE T == ClosesAt(body)
<1>1. Len(body) \in Nat
  BY LogFacts
<1>2. T \subseteq Nat
  BY <1>1 DEF ClosesAt
<1>3. n \in T /\ \A m \in T : n <= m
  BY DEF FirstClose
<1> HIDE DEF T
<1>4. \A m \in T : (\A o \in T : m <= o) => m = n
  BY <1>2, <1>3
<1>5. (CHOOSE m \in T : \A o \in T : m <= o) = n
  BY <1>3, <1>4
<1> QED BY <1>5 DEF T

LEMMA FirstCloseExists ==
  ASSUME NEW body, Log(body), ClosesAt(body) # {}
  PROVE  \E n : FirstClose(body, n)
<1>1. Len(body) \in Nat
  BY LogFacts
<1>2. ClosesAt(body) \subseteq Nat
  BY <1>1 DEF ClosesAt
<1>3. PICK n \in ClosesAt(body) : \A m \in ClosesAt(body) : n <= m
  BY <1>2, Least
<1> QED BY <1>3 DEF FirstClose

\* It stays the first when the text goes on.
LEMMA FirstCloseStays ==
  ASSUME NEW body, NEW t, Log(body), Log(t), NEW n, FirstClose(body, n)
  PROVE  FirstClose(body \o t, n)
<1> DEFINE u == body \o t
<1>1. /\ Log(u) /\ Len(u) = Len(body) + Len(t) /\ Len(body) \in Nat /\ Len(t) \in Nat
      /\ \A i \in 1 .. Len(body) : u[i] = body[i]
  BY JoinedIs
<1> HIDE DEF u
<1>2. n \in 3 .. Len(body) - 1 /\ body[n] = ThinkClose /\ body[n + 1] = TagEnd
  BY ClosesIs DEF FirstClose
<1>3. n \in 3 .. Len(u) - 1 /\ u[n] = body[n] /\ u[n + 1] = body[n + 1]
  <2>1. n \in 1 .. Len(body) /\ n + 1 \in 1 .. Len(body) /\ n \in 3 .. Len(u) - 1
    BY <1>1, <1>2
  <2> QED BY <1>1, <2>1
<1>4. n \in ClosesAt(u)
  BY <1>1, <1>2, <1>3, ClosesIs
<1>5. ASSUME NEW m \in ClosesAt(u) PROVE n <= m
  <2>1. m \in 3 .. Len(u) - 1 /\ u[m] = ThinkClose /\ u[m + 1] = TagEnd
    BY <1>1, ClosesIs
  <2>2. CASE m <= n
    <3>1. m \in 3 .. Len(body) - 1 /\ m \in 1 .. Len(body) /\ m + 1 \in 1 .. Len(body)
      BY <1>1, <1>2, <2>1, <2>2
    <3>2. body[m] = ThinkClose /\ body[m + 1] = TagEnd
      BY <1>1, <2>1, <3>1
    <3>3. m \in ClosesAt(body)
      BY <3>1, <3>2, ClosesIs
    <3> QED BY <3>3 DEF FirstClose
  <2>3. CASE ~ (m <= n)
    BY <1>1, <1>2, <2>1, <2>3
  <2> QED BY <2>2, <2>3
<1>6. FirstClose(u, n)
  BY <1>4, <1>5 DEF FirstClose
<1> QED BY <1>6 DEF u

LEMMA ReverseLog ==
  ASSUME NEW s, Log(s)
  PROVE  Log(Reverse(s))
<1>1. Len(s) \in Nat
  BY LogFacts
<1>2. Reverse(s) = [i \in 1 .. Len(s) |-> Reverse(s)[i]]
  BY DEF Reverse
<1> QED BY <1>1, <1>2, IsALog

LEMMA TrimIsLog ==
  ASSUME NEW s, Log(s)
  PROVE  Log(Trim(s))
BY TrimLog, ReverseLog DEF Trim

LEMMA ThinkBlockCloses ==
  ASSUME NEW s, Log(s), HasThinkBlock(s)
  PROVE  Opens(s) /\ Log(TrimLeft(s)) /\ \E n : FirstClose(TrimLeft(s), n)
BY TrimLog, FirstCloseExists DEF HasThinkBlock, Opens

\* Where the block closes and what it is split into.
LEMMA SplitIs ==
  ASSUME NEW s, Log(s), NEW body, body = TrimLeft(s), NEW n, FirstClose(body, n)
  PROVE  /\ SplitThink(s).reasoning = Trim(SubSeq(body, 3, n - 1))
         /\ SplitThink(s).answer = TrimLeft(SubSeq(body, n + 2, Len(body)))
         /\ n \in Nat /\ n >= 3 /\ n + 1 <= Len(body) /\ Len(body) \in Nat
         /\ Log(SubSeq(body, 3, n - 1)) /\ Log(SubSeq(body, n + 2, Len(body)))
<1>1. Log(body) /\ Len(body) \in Nat
  BY TrimLog, LogFacts
<1>2. (CHOOSE m \in ClosesAt(body) : \A o \in ClosesAt(body) : m <= o) = n
  BY <1>1, CloseIs
<1>3. /\ SplitThink(s).reasoning = Trim(SubSeq(body, 3, n - 1))
      /\ SplitThink(s).answer = TrimLeft(SubSeq(body, n + 2, Len(body)))
  BY <1>2 DEF SplitThink
<1>4. n \in 3 .. Len(body) - 1
  BY <1>1, ClosesIs DEF FirstClose
<1>5. n \in Nat /\ n >= 3 /\ n + 1 <= Len(body)
  BY <1>1, <1>4
<1>6. Log(SubSeq(body, 3, n - 1))
  <2>1. 3 \in Nat /\ 3 >= 1 /\ n - 1 \in Nat /\ n - 1 <= Len(body)
    BY <1>1, <1>5
  <2> QED BY <1>1, <2>1, Part
<1>7. Log(SubSeq(body, n + 2, Len(body)))
  <2>1. n + 2 \in Nat /\ n + 2 >= 1 /\ Len(body) <= Len(body)
    BY <1>1, <1>5
  <2> QED BY <1>1, <2>1, Part
<1> QED BY <1>1, <1>3, <1>5, <1>6, <1>7

LEMMA SplitLogs ==
  ASSUME NEW s, Log(s), HasThinkBlock(s)
  PROVE  /\ Log(SplitThink(s).reasoning) /\ Log(SplitThink(s).answer)
         /\ TrimLeft(SplitThink(s).answer) = SplitThink(s).answer
<1> DEFINE body == TrimLeft(s)
<1>1. PICK n : FirstClose(body, n)
  BY ThinkBlockCloses
<1>2. /\ SplitThink(s).reasoning = Trim(SubSeq(body, 3, n - 1))
      /\ SplitThink(s).answer = TrimLeft(SubSeq(body, n + 2, Len(body)))
      /\ Log(SubSeq(body, 3, n - 1)) /\ Log(SubSeq(body, n + 2, Len(body)))
  BY <1>1, SplitIs
<1> HIDE DEF body
<1> QED BY <1>2, TrimIsLog, TrimLog, TrimTrimmed

\* A part that ends before the text goes on.
LEMMA PartOfJoined ==
  ASSUME NEW s, NEW t, Log(s), Log(t), NEW m \in Nat, m >= 1, NEW n \in Nat, n <= Len(s)
  PROVE  SubSeq(s \o t, m, n) = SubSeq(s, m, n)
<1> DEFINE u == s \o t
           p == SubSeq(u, m, n)
           q == SubSeq(s, m, n)
<1>1. /\ Log(u) /\ Len(u) = Len(s) + Len(t) /\ Len(s) \in Nat /\ Len(t) \in Nat
      /\ \A i \in 1 .. Len(s) : u[i] = s[i]
  BY JoinedIs
<1>2. /\ Log(q) /\ Len(q) = IF m <= n THEN n - m + 1 ELSE 0
      /\ \A i \in 1 .. n - m + 1 : q[i] = s[m + i - 1]
  BY Part
<1> HIDE DEF u
<1>3. /\ Log(p) /\ Len(p) = IF m <= n THEN n - m + 1 ELSE 0
      /\ \A i \in 1 .. n - m + 1 : p[i] = u[m + i - 1]
  <2>1. Log(u) /\ n <= Len(u)
    BY <1>1
  <2> QED BY <2>1, Part
<1> HIDE DEF p, q
<1>4. ASSUME NEW i \in 1 .. Len(p) PROVE p[i] = q[i]
  <2>1. i \in 1 .. n - m + 1 /\ m + i - 1 \in 1 .. Len(s)
    BY <1>1, <1>3
  <2> QED BY <1>1, <1>2, <1>3, <2>1
<1>5. p = q
  BY <1>2, <1>3, <1>4, SameLogs
<1> QED BY <1>5 DEF p, q, u

\* A think block that was found is the same when the text goes on.
LEMMA SplitStays ==
  ASSUME NEW s, NEW t, Log(s), Log(t), HasThinkBlock(s)
  PROVE  /\ HasThinkBlock(s \o t)
         /\ SplitThink(s \o t).reasoning = SplitThink(s).reasoning
         /\ SplitThink(s \o t).answer =
              IF SplitThink(s).answer = <<>> THEN TrimLeft(t) ELSE SplitThink(s).answer \o t
<1> DEFINE body == TrimLeft(s)
           u == s \o t
           whole == body \o t
<1>1. Opens(s) /\ Log(body)
  BY ThinkBlockCloses
<1>2. PICK n : FirstClose(body, n)
  BY ThinkBlockCloses
<1>3. TrimLeft(u) = whole /\ Log(u)
  <2>1. Tagged(body)
    BY <1>1, OpensIs
  <2>2. body # <<>>
    BY <2>1, TaggedIsInked
  <2> QED BY <2>2, TrimStays, LogJoined
<1>4. FirstClose(whole, n)
  BY <1>1, <1>2, FirstCloseStays
<1>5. /\ SplitThink(s).reasoning = Trim(SubSeq(body, 3, n - 1))
      /\ SplitThink(s).answer = TrimLeft(SubSeq(body, n + 2, Len(body)))
      /\ n \in Nat /\ n >= 3 /\ n + 1 <= Len(body) /\ Len(body) \in Nat
      /\ Log(SubSeq(body, n + 2, Len(body)))
  BY <1>2, SplitIs
<1>6. /\ SplitThink(u).reasoning = Trim(SubSeq(whole, 3, n - 1))
      /\ SplitThink(u).answer = TrimLeft(SubSeq(whole, n + 2, Len(whole)))
  BY <1>3, <1>4, SplitIs
<1>7. SubSeq(whole, 3, n - 1) = SubSeq(body, 3, n - 1)
  <2>1. 3 \in Nat /\ 3 >= 1 /\ n - 1 \in Nat /\ n - 1 <= Len(body)
    BY <1>5
  <2> QED BY <1>1, <2>1, PartOfJoined
<1>8. SubSeq(whole, n + 2, Len(whole)) = SubSeq(body, n + 2, Len(body)) \o t
  <2>1. n + 2 \in Nat /\ n + 2 >= 1 /\ n + 2 <= Len(body) + 1
    BY <1>5
  <2> QED BY <1>1, <2>1, EndJoined
<1> DEFINE rest == SubSeq(body, n + 2, Len(body))
<1>9. TrimLeft(rest \o t) = IF TrimLeft(rest) = <<>> THEN TrimLeft(t) ELSE TrimLeft(rest) \o t
  <2>1. Log(rest)
    BY <1>5
  <2> HIDE DEF rest
  <2> QED BY <2>1, TrimJoined
<1>10. HasThinkBlock(u)
  <2>1. Opens(u)
    BY <1>1, OpensStays
  <2>2. ClosesAt(TrimLeft(u)) # {}
    BY <1>3, <1>4 DEF FirstClose
  <2> QED BY <2>1, <2>2 DEF HasThinkBlock, Opens
<1> HIDE DEF body, u, whole, rest
<1>11. SplitThink(u).answer = TrimLeft(rest \o t)
  BY <1>6, <1>8 DEF rest
<1>12. SplitThink(s).answer = TrimLeft(rest)
  BY <1>5 DEF rest
<1>13. SplitThink(u).reasoning = SplitThink(s).reasoning
  BY <1>5, <1>6, <1>7
<1> QED BY <1>9, <1>10, <1>11, <1>12, <1>13 DEF u

LEMMA WithoutOpenTagLog ==
  ASSUME NEW s, Log(s), Opens(s)
  PROVE  Log(WithoutOpenTag(s))
<1> DEFINE b == TrimLeft(s)
<1>1. Log(b) /\ Len(b) \in Nat /\ Len(b) <= Len(b)
  BY TrimLog, LogFacts
<1> HIDE DEF b
<1>2. Log(SubSeq(b, 3, Len(b)))
  <2>1. 3 \in Nat /\ 3 >= 1
    OBVIOUS
  <2> QED BY <1>1, <2>1, Part
<1>3. Log(Trim(SubSeq(b, 3, Len(b))))
  BY <1>2, TrimIsLog
<1>4. WithoutOpenTag(s) = Trim(SubSeq(b, 3, Len(b)))
  BY DEF WithoutOpenTag, Opens, b
<1> QED BY <1>3, <1>4

LEMMA NoThinkBlockInNone ==
  ~ HasThinkBlock(<<>>) /\ ~ Opens(<<>>) /\ Decision(<<>>) = "need_more"
<1>1. ~ Opens(<<>>)
  <2>1. ~ Tagged(<<>>)
    BY EmptyLog DEF Tagged
  <2> QED BY <2>1, TrimOfNone, EmptyLog, OpensIs
<1>2. IsPrefix(<<>>, OpenTag)
  <2>1. Len(<<>>) <= Len(OpenTag) /\ \A i \in 1 .. Len(<<>>) : <<>>[i] = OpenTag[i]
    BY EmptyLog, OpenTagFacts
  <2> QED BY <2>1, EmptyLog, OpenTagFacts, PrefixIs
<1>3. ~ HasThinkBlock(<<>>)
  BY <1>1 DEF HasThinkBlock, Opens
<1>4. Decision(<<>>) = "need_more"
  BY <1>1, <1>2, TrimOfNone, Decisions
<1> QED BY <1>1, <1>3, <1>4

-----------------------------------------------------------------------------
(* What the client is told of the items that are done *)

DoneEvents(h) == {e \in Range(h) : e.type = "done"}

DoneOf(k, it) ==
  [type |-> "done", index |-> it.index, kind |-> KindOf(k, it), id |-> IdOf(k, it),
   content |-> IF k \in Texts THEN it.text ELSE ToolContent(it.name, it.text)]

DoneOnes(c) == {k \in Keys : c.items[k].done}

Tells(c) == DoneEvents(c.out) = {DoneOf(k, c.items[k]) : k \in DoneOnes(c)}

LEMMA DoneEventsGrow ==
  ASSUME NEW h, Log(h), NEW e, NEW g, g = Append(h, e)
  PROVE  /\ e.type = "done" => DoneEvents(g) = DoneEvents(h) \cup {e}
         /\ e.type # "done" => DoneEvents(g) = DoneEvents(h)
<1>1. /\ Len(h) \in Nat /\ DOMAIN h = 1 .. Len(h) /\ DOMAIN g = 1 .. Len(h) + 1
      /\ \A n \in 1 .. Len(h) : g[n] = h[n]
      /\ g[Len(h) + 1] = e
  BY LogFacts, LogAppend
<1>2. \A n \in 1 .. Len(h) + 1 : n \in 1 .. Len(h) \/ n = Len(h) + 1
  BY <1>1
<1>3. 1 .. Len(h) \subseteq 1 .. Len(h) + 1 /\ Len(h) + 1 \in 1 .. Len(h) + 1
  BY <1>1
<1>4. Range(g) = Range(h) \cup {e}
  BY <1>1, <1>2, <1>3 DEF Range
<1> QED BY <1>4 DEF DoneEvents

\* An item that is not done changed, and nothing was done.
LEMMA TellsStill ==
  ASSUME NEW c, NEW d, NEW k \in Keys, OthersSame(c, d, k), ~ c.items[k].done,
         ~ d.items[k].done, DoneEvents(d.out) = DoneEvents(c.out), Tells(c)
  PROVE  Tells(d)
<1>1. DoneOnes(d) = DoneOnes(c)
  BY DEF DoneOnes, OthersSame
<1>2. \A j \in DoneOnes(c) : d.items[j] = c.items[j]
  BY DEF DoneOnes, OthersSame
<1>3. {DoneOf(j, d.items[j]) : j \in DoneOnes(d)} = {DoneOf(j, c.items[j]) : j \in DoneOnes(c)}
  BY <1>1, <1>2
<1> QED BY <1>3 DEF Tells

\* An item was done.
LEMMA TellsDone ==
  ASSUME NEW c, NEW d, NEW k \in Keys, OthersSame(c, d, k), ~ c.items[k].done,
         d.items[k].done, DoneEvents(d.out) = DoneEvents(c.out) \cup {DoneOf(k, d.items[k])},
         Tells(c)
  PROVE  Tells(d)
<1>1. DoneOnes(d) = DoneOnes(c) \cup {k}
  BY DEF DoneOnes, OthersSame
<1>2. \A j \in DoneOnes(c) : d.items[j] = c.items[j]
  BY DEF DoneOnes, OthersSame
<1>3. {DoneOf(j, d.items[j]) : j \in DoneOnes(d)}
        = {DoneOf(j, c.items[j]) : j \in DoneOnes(c)} \cup {DoneOf(k, d.items[k])}
  BY <1>1, <1>2
<1> QED BY <1>3 DEF Tells

\* The reason to finish is not touched and the client is told of what is done.
Faithful(c, d) == d.finishReason = c.finishReason /\ (Tells(c) => Tells(d))

LEMMA FaithfulSelf ==
  ASSUME NEW c
  PROVE  Faithful(c, c)
BY DEF Faithful

LEMMA FaithfulOn ==
  ASSUME NEW b, NEW c, NEW d, Faithful(b, c), Faithful(c, d)
  PROVE  Faithful(b, d)
BY DEF Faithful

\* Nothing but the log changed, and no item was done.
LEMMA FaithfulWrite ==
  ASSUME NEW c, NEW d, d.items = c.items, d.finishReason = c.finishReason,
         DoneEvents(d.out) = DoneEvents(c.out)
  PROVE  Faithful(c, d)
<1>1. DoneOnes(d) = DoneOnes(c)
  BY DEF DoneOnes
<1> QED BY <1>1 DEF Faithful, Tells

-----------------------------------------------------------------------------
(* The reason to finish *)

LEMMA ReasonStays ==
  ASSUME NEW c, Formed(c), NEW k \in Keys, NEW x, NEW y
  PROVE  /\ Write(c, x).finishReason = c.finishReason
         /\ AddItem(c, k, x, y).finishReason = c.finishReason
         /\ WithText(c, k, x).finishReason = c.finishReason
         /\ Called(c, k, x, y).finishReason = c.finishReason
         /\ Renamed(c, k, x).finishReason = c.finishReason
         /\ Heard(c, k, x).finishReason = c.finishReason
<1>1. IsConverter(c)
  BY DEF Formed, IsConverter
<1>2. ASSUME NEW e PROVE Write(c, e).finishReason = c.finishReason
  BY <1>1 DEF Write, IsConverter
<1>3. AddItem(c, k, x, y).finishReason = c.finishReason
  BY <1>1 DEF AddItem, Write, IsConverter
<1>4. WithText(c, k, x).finishReason = c.finishReason
  BY <1>1 DEF WithText, IsConverter
<1>5. Called(c, k, x, y).finishReason = c.finishReason
  BY <1>1 DEF Called, IsConverter
<1>6. Renamed(c, k, x).finishReason = c.finishReason
  BY <1>1 DEF Renamed, IsConverter
<1>7. Heard(c, k, x).finishReason = c.finishReason
  BY <1>1 DEF Heard, IsConverter
<1> QED BY <1>2, <1>3, <1>4, <1>5, <1>6, <1>7

LEMMA ReasonStaysDone ==
  ASSUME NEW c, Formed(c), NEW k \in Keys, NEW kind, NEW id, NEW content
  PROVE  WriteDone(c, k, kind, id, content).finishReason = c.finishReason
<1>1. IsConverter(c)
  BY DEF Formed, IsConverter
<1> QED BY <1>1 DEF WriteDone, Write, IsConverter

LEMMA ReasonStaysDelta ==
  ASSUME NEW c, Formed(c), NEW index, NEW id, NEW piece
  PROVE  WriteDelta(c, index, id, piece).finishReason = c.finishReason
<1>1. IsConverter(c)
  BY DEF Formed, IsConverter
<1> QED BY <1>1 DEF WriteDelta, Write, IsConverter

-----------------------------------------------------------------------------
(* Reasoning and text *)

\* The text of item k got this piece, and no other item changed.
Continues(c, d, k, piece) ==
  /\ Faithful(c, d)
  /\ d.items[k].text = Joined(c.items[k].text, piece) /\ Log(d.items[k].text)
  /\ d.items[k].text # <<>> /\ d.items[k].index # 0

LEMMA PushDeltaTells ==
  ASSUME NEW c, Going(c), NEW k, NEW kind, IsTextKind(k, kind), ~ c.items[k].done,
         NEW piece, piece # <<>>, Log(piece), Log(c.items[k].text),
         NEW d, d = PushDelta(c, k, kind, piece)
  PROVE  Continues(c, d, k, piece)
<1> DEFINE a == IF c.items[k].index = 0 THEN AddItem(c, k, kind, <<kind>>) ELSE c
           b == WithText(a, k, piece)
           e == [type |-> "delta", index |-> b.items[k].index, id |-> b.items[k].id,
                 piece |-> piece]
<1>1. k \in Keys /\ k \in Texts
  BY TextKinds
<1>2. d = WriteDelta(b, b.items[k].index, b.items[k].id, piece)
  BY DEF PushDelta, WithText
<1>3. /\ Formed(a) /\ Log(a.out) /\ a.items[k].text = c.items[k].text
      /\ DoneEvents(a.out) = DoneEvents(c.out) /\ a.finishReason = c.finishReason
  <2>1. Formed(c) /\ Log(c.out)
    BY GoingFacts
  <2>2. CASE c.items[k].index # 0
    BY <2>1, <2>2
  <2>3. CASE c.items[k].index = 0
    <3>1. a = AddItem(c, k, kind, <<kind>>)
      BY <2>3
    <3> HIDE DEF a
    <3> DEFINE n == [type |-> "added", index |-> c.nextIndex, kind |-> kind, id |-> <<kind>>]
    <3>2. Formed(a) /\ a.items[k].text = c.items[k].text /\ a.out = Append(c.out, n)
      BY <1>1, <2>1, <3>1, AddItemIs
    <3>3. n.type # "done"
      OBVIOUS
    <3> HIDE DEF n
    <3>4. DoneEvents(a.out) = DoneEvents(c.out)
      BY <2>1, <3>2, <3>3, DoneEventsGrow
    <3>5. a.finishReason = c.finishReason
      <4>1. Formed(c) /\ k \in Keys
        BY <1>1, <2>1
      <4> QED BY ONLY <3>1, <4>1, ReasonStays
    <3>6. Log(a.out)
      BY <3>2 DEF Formed
    <3> QED BY <3>2, <3>4, <3>5, <3>6
  <2> QED BY <2>2, <2>3
<1> HIDE DEF a
<1>4. /\ Formed(b) /\ b.items[k].text = Joined(a.items[k].text, piece) /\ b.out = a.out
      /\ b.finishReason = a.finishReason
  <2>1. b.finishReason = a.finishReason
    <3>1. Formed(a) /\ k \in Keys
      BY <1>1, <1>3
    <3> QED BY ONLY <3>1, ReasonStays
  <2>2. Formed(b) /\ b.items[k].text = Joined(a.items[k].text, piece) /\ b.out = a.out
    BY <1>1, <1>3, TextAdded
  <2> QED BY <2>1, <2>2
<1> HIDE DEF b
<1>5. /\ d.items = b.items /\ d.out = Append(b.out, e) /\ d.finishReason = b.finishReason
  <2>1. d = Write(b, e)
    BY <1>2 DEF WriteDelta
  <2>2. d.items = b.items /\ d.out = Append(b.out, e)
    BY <1>4, <2>1, WriteIs
  <2> QED BY <1>2, <1>4, <2>2, ReasonStaysDelta
<1>6. DoneEvents(d.out) = DoneEvents(c.out)
  <2>1. e.type # "done" /\ Log(b.out)
    BY <1>3, <1>4
  <2>2. d.out = Append(b.out, e)
    BY <1>5
  <2> HIDE DEF e
  <2>3. DoneEvents(d.out) = DoneEvents(b.out)
    BY ONLY <2>1, <2>2, DoneEventsGrow
  <2> QED BY <1>3, <1>4, <2>3
<1>7. /\ d.items[k].text = Joined(c.items[k].text, piece) /\ d.finishReason = c.finishReason
  BY <1>3, <1>4, <1>5
<1>8. Log(d.items[k].text) /\ d.items[k].text # <<>>
  BY <1>7, LogJoined DEF Joined
<1>9. /\ Step(c, d, {k}) /\ d.items[k].index # 0 /\ ~ d.items[k].done
  BY PushDeltaStep
<1>10. OthersSame(c, d, k)
  BY <1>9 DEF Step, OthersSame
<1>11. Faithful(c, d)
  BY <1>1, <1>6, <1>7, <1>9, <1>10, TellsStill DEF Faithful
<1> QED BY <1>7, <1>8, <1>9, <1>11 DEF Continues

\* Item k may have been done, and no text changed.
Concludes(c, d, k) ==
  /\ Faithful(c, d)
  /\ d.items[k].text = c.items[k].text /\ d.items[k].index = c.items[k].index

LEMMA FinalizeItemTells ==
  ASSUME NEW c, Going(c), NEW k, NEW kind, IsTextKind(k, kind),
         NEW d, d = FinalizeItem(c, k, kind)
  PROVE  Concludes(c, d, k)
<1>1. k \in Keys /\ k \in Texts
      /\ \A it : KindOf(k, it) = kind /\ IdOf(k, it) = <<kind>> /\ Streamed(k, it)
  BY TextKinds
<1>2. CASE c.items[k].index = 0 \/ c.items[k].done
  <2>1. d = c
    BY <1>2 DEF FinalizeItem
  <2> QED BY <2>1, FaithfulSelf DEF Concludes
<1>3. CASE ~ (c.items[k].index = 0 \/ c.items[k].done)
  <2> DEFINE content == c.items[k].text
             id == c.items[k].id
             e == [type |-> "done", index |-> c.items[k].index, kind |-> kind,
                   id |-> id, content |-> content]
  <2>1. d = WriteDone(c, k, kind, id, content)
    BY <1>3 DEF FinalizeItem
  <2>2. Running(c) /\ Recorded(c) /\ Formed(c) /\ Log(c.out)
    BY <1>1, GoingFacts
  <2>3. id = IdOf(k, c.items[k])
    BY <1>1, <1>3, <2>2 DEF Recorded, Identities
  <2> HIDE DEF content, id
  <2>4. /\ d.items[k].index = c.items[k].index /\ d.items[k].done
        /\ d.items[k].text = c.items[k].text
        /\ OthersSame(c, d, k) /\ d.out = Append(c.out, e)
    BY <1>1, <2>1, <2>2, WriteDoneIs
  <2>5. DoneEvents(d.out) = DoneEvents(c.out) \cup {e}
    <3>1. e.type = "done"
      OBVIOUS
    <3>2. d.out = Append(c.out, e) /\ Log(c.out)
      BY <2>2, <2>4
    <3> HIDE DEF e
    <3> QED BY ONLY <3>1, <3>2, DoneEventsGrow
  <2>6. e = DoneOf(k, d.items[k])
    BY <1>1, <2>3, <2>4 DEF DoneOf, content
  <2>7. d.finishReason = c.finishReason
    BY <1>1, <2>1, <2>2, ReasonStaysDone
  <2> HIDE DEF e
  <2>8. Faithful(c, d)
    BY <1>1, <1>3, <2>4, <2>5, <2>6, <2>7, TellsDone DEF Faithful
  <2> QED BY <2>4, <2>8 DEF Concludes
<1> QED BY <1>2, <1>3

LEMMA ReasoningPushedTells ==
  ASSUME NEW c, Going(c), ~ c.items["reasoning"].done, NEW piece, piece # <<>>, Log(piece),
         Log(c.items["reasoning"].text), NEW d, d = PushReasoning(c, piece)
  PROVE  Continues(c, d, "reasoning", piece)
BY PushDeltaTells DEF PushReasoning, IsTextKind

LEMMA TextPushedTells ==
  ASSUME NEW c, Going(c), ~ c.items["text"].done, NEW piece, piece # <<>>, Log(piece),
         Log(c.items["text"].text), NEW d, d = PushText(c, piece)
  PROVE  Continues(c, d, "text", piece)
BY PushDeltaTells DEF PushText, IsTextKind

LEMMA ReasoningFinalizedTells ==
  ASSUME NEW c, Going(c), NEW d, d = FinalizeReasoning(c)
  PROVE  Concludes(c, d, "reasoning")
BY FinalizeItemTells DEF FinalizeReasoning, IsTextKind

LEMMA TextFinalizedTells ==
  ASSUME NEW c, Going(c), NEW d, d = FinalizeText(c)
  PROVE  Concludes(c, d, "text")
BY FinalizeItemTells DEF FinalizeText, IsTextKind

-----------------------------------------------------------------------------
(* The two texts of an answer *)

Thought(c) == c.items["reasoning"].text
Answer(c) == c.items["text"].text

\* The texts are sequences, and empty until their items are announced.
Inked(c) ==
  \A k \in Texts : Log(c.items[k].text) /\ (c.items[k].index # 0 => c.items[k].text # <<>>)

\* The texts became these.
Becomes(c, d, thought, answer) ==
  Faithful(c, d) /\ Inked(d) /\ Thought(d) = thought /\ Answer(d) = answer

LEMMA BecomesOn ==
  ASSUME NEW b, NEW c, NEW d, NEW s, NEW t, NEW u, NEW v,
         Becomes(b, c, s, t), Becomes(c, d, u, v)
  PROVE  Becomes(b, d, u, v)
BY FaithfulOn DEF Becomes

LEMMA InkedTexts ==
  ASSUME NEW c, Inked(c)
  PROVE  Log(Thought(c)) /\ Log(Answer(c))
BY OtherText DEF Inked, Thought, Answer, Texts

LEMMA ReasoningPushedBecomes ==
  ASSUME NEW c, Going(c), ~ c.items["reasoning"].done, Inked(c), NEW piece, piece # <<>>,
         Log(piece), NEW d, d = PushReasoning(c, piece)
  PROVE  Becomes(c, d, Joined(Thought(c), piece), Answer(c))
<1>1. Continues(c, d, "reasoning", piece)
  BY InkedTexts, ReasoningPushedTells DEF Thought
<1>2. d.items["text"] = c.items["text"]
  BY ReasoningPushed, OtherText DEF Step
<1>3. Inked(d)
  BY <1>1, <1>2 DEF Inked, Continues, Texts
<1> QED BY <1>1, <1>2, <1>3 DEF Becomes, Continues, Thought, Answer

LEMMA TextPushedBecomes ==
  ASSUME NEW c, Going(c), ~ c.items["text"].done, Inked(c), NEW piece, piece # <<>>,
         Log(piece), NEW d, d = PushText(c, piece)
  PROVE  Becomes(c, d, Thought(c), Joined(Answer(c), piece))
<1>1. Continues(c, d, "text", piece)
  BY InkedTexts, TextPushedTells DEF Answer
<1>2. d.items["reasoning"] = c.items["reasoning"]
  BY TextPushed, OtherText DEF Step
<1>3. Inked(d)
  BY <1>1, <1>2 DEF Inked, Continues, Texts
<1> QED BY <1>1, <1>2, <1>3 DEF Becomes, Continues, Thought, Answer

LEMMA ReasoningFinalizedBecomes ==
  ASSUME NEW c, Going(c), Inked(c), NEW d, d = FinalizeReasoning(c)
  PROVE  /\ Becomes(c, d, Thought(c), Answer(c))
         /\ d.items["text"] = c.items["text"]
<1>1. Concludes(c, d, "reasoning")
  BY ReasoningFinalizedTells
<1>2. d.items["text"] = c.items["text"]
  BY ReasoningFinalized, OtherText DEF Step
<1>3. Inked(d)
  BY <1>1, <1>2 DEF Inked, Concludes, Texts
<1> QED BY <1>1, <1>2, <1>3 DEF Becomes, Concludes, Thought, Answer

LEMMA TextFinalizedBecomes ==
  ASSUME NEW c, Going(c), Inked(c), NEW d, d = FinalizeText(c)
  PROVE  /\ Becomes(c, d, Thought(c), Answer(c))
         /\ d.items["reasoning"] = c.items["reasoning"]
<1>1. Concludes(c, d, "text")
  BY TextFinalizedTells
<1>2. d.items["reasoning"] = c.items["reasoning"]
  BY TextFinalized, OtherText DEF Step
<1>3. Inked(d)
  BY <1>1, <1>2 DEF Inked, Concludes, Texts
<1> QED BY <1>1, <1>2, <1>3 DEF Becomes, Concludes, Thought, Answer

LEMMA AnswerBecomes ==
  ASSUME NEW c, Going(c), ~ c.items["text"].done, Inked(c), NEW piece, piece # <<>>, Log(piece),
         NEW d, d = PushText(FinalizeReasoning(c), piece)
  PROVE  Becomes(c, d, Thought(c), Joined(Answer(c), piece))
<1> DEFINE a == FinalizeReasoning(c)
<1>1. Going(a)
  BY ReasoningFinalized DEF Step
<1>2. Becomes(c, a, Thought(c), Answer(c)) /\ ~ a.items["text"].done
  BY ReasoningFinalizedBecomes
<1>3. d = PushText(a, piece)
  OBVIOUS
<1> HIDE DEF a
<1>4. Inked(a) /\ Thought(a) = Thought(c) /\ Answer(a) = Answer(c)
  BY <1>2 DEF Becomes
<1>5. Becomes(a, d, Thought(a), Joined(Answer(a), piece))
  BY <1>1, <1>2, <1>3, <1>4, TextPushedBecomes
<1> QED BY <1>2, <1>4, <1>5, BecomesOn

\* The reasoning and the answer of a split text, each unless it is empty.
LEMMA PushSplitBecomes ==
  ASSUME NEW c, Going(c), ~ c.items["reasoning"].done, ~ c.items["text"].done, Inked(c),
         NEW split, Log(split.reasoning), Log(split.answer),
         NEW d, d = PushSplit(c, split)
  PROVE  Becomes(c, d, Joined(Thought(c), split.reasoning), Joined(Answer(c), split.answer))
<1> DEFINE a == IF split.reasoning = <<>> THEN c
                ELSE FinalizeReasoning(PushReasoning(c, split.reasoning))
<1>1. d = IF split.answer = <<>> THEN a ELSE PushText(a, split.answer)
  BY DEF PushSplit
<1>2. /\ Going(a) /\ ~ a.items["text"].done
      /\ Becomes(c, a, Joined(Thought(c), split.reasoning), Answer(c))
  <2>1. CASE split.reasoning = <<>>
    <3>1. Joined(Thought(c), <<>>) = Thought(c)
      BY InkedTexts, LogJoined DEF Joined
    <3>2. a = c
      BY <2>1
    <3> QED BY <2>1, <3>1, <3>2, FaithfulSelf DEF Becomes
  <2>2. CASE split.reasoning # <<>>
    <3> DEFINE b == PushReasoning(c, split.reasoning)
    <3>1. a = FinalizeReasoning(b)
      BY <2>2
    <3>2. Going(b) /\ b.items["text"] = c.items["text"]
      BY <2>2, ReasoningPushed, OtherText DEF Step
    <3>3. Becomes(c, b, Joined(Thought(c), split.reasoning), Answer(c))
      BY <2>2, ReasoningPushedBecomes
    <3> HIDE DEF a, b
    <3>4. Inked(b) /\ Thought(b) = Joined(Thought(c), split.reasoning) /\ Answer(b) = Answer(c)
      BY <3>3 DEF Becomes
    <3>5. Becomes(b, a, Thought(b), Answer(b)) /\ a.items["text"] = b.items["text"]
      BY <3>1, <3>2, <3>4, ReasoningFinalizedBecomes
    <3>6. Going(a)
      BY <3>1, <3>2, ReasoningFinalized DEF Step
    <3> QED BY <3>2, <3>3, <3>4, <3>5, <3>6, BecomesOn
  <2> QED BY <2>1, <2>2
<1> HIDE DEF a
<1>3. Inked(a) /\ Thought(a) = Joined(Thought(c), split.reasoning) /\ Answer(a) = Answer(c)
  BY <1>2 DEF Becomes
<1>4. CASE split.answer = <<>>
  <2>1. Joined(Answer(c), <<>>) = Answer(c)
    BY InkedTexts, LogJoined DEF Joined
  <2> QED BY <1>1, <1>2, <1>4, <2>1
<1>5. CASE split.answer # <<>>
  <2>1. d = PushText(a, split.answer)
    BY <1>1, <1>5
  <2>2. Becomes(a, d, Thought(a), Joined(Answer(a), split.answer))
    BY <1>2, <1>3, <1>5, <2>1, TextPushedBecomes
  <2> QED BY <1>2, <1>3, <2>2, BecomesOn
<1> QED BY <1>4, <1>5

\* The converter reads content in another way.
LEMMA ModeBecomes ==
  ASSUME NEW c, Inked(c), NEW d, d.items = c.items, d.out = c.out,
         d.finishReason = c.finishReason
  PROVE  Becomes(c, d, Thought(c), Answer(c))
<1>1. Faithful(c, d)
  BY FaithfulWrite
<1>2. Inked(d)
  BY DEF Inked
<1> QED BY <1>1, <1>2 DEF Becomes, Thought, Answer

LEMMA ModesBecome ==
  ASSUME NEW c, Formed(c), Inked(c), NEW piece
  PROVE  /\ Becomes(c, [c EXCEPT !.mode = "text", !.think = <<>>], Thought(c), Answer(c))
         /\ Becomes(c, [c EXCEPT !.think = @ \o piece], Thought(c), Answer(c))
         /\ Becomes(c, [c EXCEPT !.mode = "reasoning"], Thought(c), Answer(c))
<1>1. IsConverter(c)
  BY DEF Formed, IsConverter
<1>2. ASSUME NEW d, d = [c EXCEPT !.mode = "text", !.think = <<>>]
      PROVE  Becomes(c, d, Thought(c), Answer(c))
  <2>1. d.items = c.items /\ d.out = c.out /\ d.finishReason = c.finishReason
    BY <1>1, <1>2 DEF IsConverter
  <2> QED BY <2>1, ModeBecomes
<1>3. ASSUME NEW d, d = [c EXCEPT !.think = @ \o piece]
      PROVE  Becomes(c, d, Thought(c), Answer(c))
  <2>1. d.items = c.items /\ d.out = c.out /\ d.finishReason = c.finishReason
    BY <1>1, <1>3 DEF IsConverter
  <2> QED BY <2>1, ModeBecomes
<1>4. ASSUME NEW d, d = [c EXCEPT !.mode = "reasoning"]
      PROVE  Becomes(c, d, Thought(c), Answer(c))
  <2>1. d.items = c.items /\ d.out = c.out /\ d.finishReason = c.finishReason
    BY <1>1, <1>4 DEF IsConverter
  <2> QED BY <2>1, ModeBecomes
<1> QED BY <1>2, <1>3, <1>4

-----------------------------------------------------------------------------
(* What the texts are of the blocks that were handled *)

\* C is the content and R the reasoning so far, U the content before any tool call.
Answered(thought, answer, C, R, U) ==
  /\ ~ Opens(C) => thought = R /\ answer = C
  /\ R = <<>> /\ HasThinkBlock(U) =>
       /\ HasThinkBlock(C) /\ thought = SplitThink(C).reasoning
       /\ TrimLeft(answer) = SplitThink(C).answer

\* What comes next can not open a think block.
Decided(C) == HasThinkBlock(C) \/ Decision(C) = "text"

LEMMA DecidedStays ==
  ASSUME NEW C, NEW p, Log(C), Log(p), Decided(C)
  PROVE  Decided(Joined(C, p))
BY SplitStays, TextStaysText DEF Decided, Joined

LEMMA ThinkBlockOpens ==
  ASSUME NEW s, HasThinkBlock(s)
  PROVE  Opens(s)
BY DEF HasThinkBlock, Opens

LEMMA AnsweredMore ==
  ASSUME NEW thought, NEW answer, NEW C, NEW R, NEW U, NEW p, NEW V,
         Log(answer), Log(C), Log(p), Answered(thought, answer, C, R, U),
         V = U \/ (U = C /\ V = Joined(C, p) /\ Decided(C))
  PROVE  Answered(thought, Joined(answer, p), Joined(C, p), R, V)
<1> DEFINE D == C \o p
           a == answer \o p
<1>1. ASSUME ~ Opens(D) PROVE thought = R /\ a = D
  <2>1. ~ Opens(C)
    BY <1>1, OpensStays
  <2> QED BY <2>1 DEF Answered
<1>2. ASSUME R = <<>>, HasThinkBlock(V)
      PROVE  /\ HasThinkBlock(D) /\ thought = SplitThink(D).reasoning
             /\ TrimLeft(a) = SplitThink(D).answer
  <2> HIDE DEF D, a
  <2>1. CASE HasThinkBlock(U)
    <3>1. /\ HasThinkBlock(C) /\ thought = SplitThink(C).reasoning
          /\ TrimLeft(answer) = SplitThink(C).answer
      BY <1>2, <2>1 DEF Answered
    <3>2. /\ HasThinkBlock(D) /\ SplitThink(D).reasoning = SplitThink(C).reasoning
          /\ SplitThink(D).answer =
               IF SplitThink(C).answer = <<>> THEN TrimLeft(p) ELSE SplitThink(C).answer \o p
      BY <3>1, SplitStays DEF D
    <3>3. TrimLeft(a) = IF TrimLeft(answer) = <<>> THEN TrimLeft(p) ELSE TrimLeft(answer) \o p
      BY TrimJoined DEF a
    <3> QED BY <3>1, <3>2, <3>3
  <2>2. CASE ~ HasThinkBlock(U)
    <3>1. U = C /\ ~ HasThinkBlock(C) /\ Decision(C) = "text" /\ V # U
      BY <1>2, <2>2 DEF Decided
    <3>2. Decision(D) = "text" /\ ~ Opens(D)
      BY <3>1, TextStaysText, Decisions DEF D
    <3>3. V = D
      BY <3>1 DEF D, Joined
    <3> QED BY <1>2, <3>2, <3>3, ThinkBlockOpens
  <2> QED BY <2>1, <2>2
<1>3. Answered(thought, a, D, R, V)
  BY <1>1, <1>2 DEF Answered
<1> QED BY <1>3 DEF Joined

\* A think block was found, or the answer begins with it, or it never ended.
LEMMA AnsweredSplit ==
  ASSUME NEW C, NEW R, NEW U, Log(C), HasThinkBlock(C), NEW answer, answer = <<>>
  PROVE  Answered(Joined(R, SplitThink(C).reasoning), Joined(answer, SplitThink(C).answer),
                  C, R, U)
<1>1. /\ Log(SplitThink(C).reasoning) /\ Log(SplitThink(C).answer)
      /\ TrimLeft(SplitThink(C).answer) = SplitThink(C).answer
  BY SplitLogs
<1>2. R = <<>> => Joined(R, SplitThink(C).reasoning) = SplitThink(C).reasoning
  BY <1>1, LogJoined, EmptyLog DEF Joined
<1>3. Joined(answer, SplitThink(C).answer) = SplitThink(C).answer
  BY <1>1, LogJoined, EmptyLog DEF Joined
<1>4. Opens(C)
  BY ThinkBlockOpens
<1> QED BY <1>1, <1>2, <1>3, <1>4 DEF Answered

LEMMA AnsweredPlain ==
  ASSUME NEW C, NEW R, ~ Opens(C)
  PROVE  Answered(R, C, C, R, C)
BY ThinkBlockOpens DEF Answered

LEMMA AnsweredOpen ==
  ASSUME NEW C, NEW R, Opens(C), ~ HasThinkBlock(C), NEW thought, NEW answer
  PROVE  Answered(thought, answer, C, R, C)
BY DEF Answered

\* The converter c mirrors the content C, the reasoning R and the content U before any
\* tool call; nt, if there was no tool call.
Mirrors(c, C, R, U, nt) ==
  /\ Inked(c) /\ Log(C) /\ Log(R) /\ Log(U) /\ (nt => U = C)
  /\ c.mode # "text" =>
       nt /\ c.think = C /\ Thought(c) = R /\ Answer(c) = <<>>
  /\ c.mode = "detecting" => Decision(C) = "need_more"
  /\ c.mode = "reasoning" => Opens(C) /\ ~ HasThinkBlock(C)
  /\ c.mode = "text" =>
       Answered(Thought(c), Answer(c), C, R, U) /\ (nt => Decided(C))

-----------------------------------------------------------------------------
(* Content *)

\* c holds back the text D, which opens a think block.
Holds(c, D, R) ==
  /\ Going(c) /\ TextOpen(c) /\ c.mode = "reasoning" /\ c.think = D /\ Log(D) /\ Opens(D)
  /\ Inked(c) /\ Thought(c) = R /\ Answer(c) = <<>>

LEMMA DrainThinkMirrors ==
  ASSUME NEW c, NEW D, NEW R, Log(R), Holds(c, D, R), NEW d, d = DrainThink(c),
         NEW nt, nt
  PROVE  Mirrors(d, D, R, D, nt) /\ Faithful(c, d)
<1>1. /\ Going(c) /\ TextOpen(c) /\ c.mode = "reasoning" /\ c.think = D /\ Log(D) /\ Opens(D)
      /\ Inked(c) /\ Thought(c) = R /\ Answer(c) = <<>>
  BY DEF Holds
<1>2. CASE ~ HasThinkBlock(D)
  <2>1. d = c
    BY <1>1, <1>2 DEF DrainThink
  <2> QED BY <1>1, <1>2, <2>1, FaithfulSelf DEF Mirrors
<1>3. CASE HasThinkBlock(D)
  <2> DEFINE a == [c EXCEPT !.mode = "text", !.think = <<>>]
             split == SplitThink(D)
  <2>1. d = PushSplit(a, split)
    BY <1>1, <1>3 DEF DrainThink
  <2>2. Step(c, a, Texts) /\ a.items = c.items /\ a.mode = "text"
    BY <1>1, AnsweringStep, Zenon
  <2>3. Becomes(c, a, Thought(c), Answer(c))
    BY <1>1, GoingFacts, ModesBecome, Zenon
  <2> HIDE DEF a
  <2>4. /\ Going(a) /\ ~ a.items["reasoning"].done /\ ~ a.items["text"].done
    BY <1>1, <2>2 DEF Step, TextOpen
  <2>5. Inked(a) /\ Thought(a) = R /\ Answer(a) = <<>>
    BY <1>1, <2>3 DEF Becomes
  <2>6. Log(split.reasoning) /\ Log(split.answer)
    BY <1>1, <1>3, SplitLogs
  <2>7. Becomes(a, d, Joined(Thought(a), split.reasoning), Joined(Answer(a), split.answer))
    <3> HIDE DEF split
    <3> QED BY <2>1, <2>4, <2>5, <2>6, PushSplitBecomes
  <2>8. d.mode = "text"
    <3>1. SameMode(a, d)
      BY <2>1, <2>4, PushSplitStep
    <3> QED BY <2>2, <3>1 DEF SameMode
  <2>9. Answered(Joined(R, split.reasoning), Joined(Answer(a), split.answer), D, R, D)
    BY <1>1, <1>3, <2>5, AnsweredSplit
  <2> HIDE DEF split
  <2>10. Answered(Thought(d), Answer(d), D, R, D) /\ Inked(d)
    BY <2>5, <2>7, <2>9 DEF Becomes
  <2>11. Faithful(c, d)
    BY <2>3, <2>7, FaithfulOn DEF Becomes
  <2> QED BY <1>1, <1>3, <2>8, <2>10, <2>11 DEF Mirrors, Decided
<1> QED BY <1>2, <1>3

LEMMA ThinkIs ==
  ASSUME NEW c, Formed(c), NEW piece
  PROVE  /\ [c EXCEPT !.think = @ \o piece].think = Joined(c.think, piece)
         /\ [c EXCEPT !.mode = "reasoning"].think = c.think
<1>1. IsConverter(c)
  BY DEF Formed, IsConverter
<1> QED BY <1>1 DEF IsConverter, Joined

LEMMA PushContentMirrors ==
  ASSUME NEW c, Going(c), TextOpen(c), NEW piece, piece # <<>>, Log(piece),
         NEW C, NEW R, NEW U, NEW nt, Mirrors(c, C, R, U, nt),
         NEW d, d = PushContent(c, piece),
         NEW V, V = IF nt THEN Joined(C, piece) ELSE U
  PROVE  Mirrors(d, Joined(C, piece), R, V, nt) /\ Faithful(c, d)
<1> DEFINE more == [c EXCEPT !.think = @ \o piece]
           D == Joined(C, piece)
<1>0. Formed(c)
  BY GoingFacts
<1>1. Step(c, more, Texts) /\ more.items = c.items /\ more.mode = c.mode
  BY ThinkingStep
<1>2. Becomes(c, more, Thought(c), Answer(c)) /\ more.think = Joined(c.think, piece)
  <2>1. Inked(c)
    BY DEF Mirrors
  <2> QED BY <1>0, <2>1, ModesBecome, ThinkIs, Zenon
<1>3. /\ Inked(c) /\ Log(C) /\ Log(R) /\ Log(U) /\ (nt => U = C)
  BY DEF Mirrors
<1>4. Log(D) /\ Log(V) /\ (nt => V = D)
  BY <1>3, LogJoined DEF Joined
<1>5. c.mode \in {"detecting", "reasoning", "text"}
  BY <1>0 DEF Formed
<1>6. CASE c.mode = "text"
  <2>1. d = PushText(FinalizeReasoning(c), piece)
    BY <1>6 DEF PushContent
  <2>2. ~ c.items["text"].done
    BY DEF TextOpen
  <2>3. SameMode(c, d)
    BY <2>1, <2>2, AnswerStep
  <2>4. Becomes(c, d, Thought(c), Joined(Answer(c), piece))
    BY <1>3, <2>1, <2>2, AnswerBecomes
  <2>5. Answered(Thought(c), Answer(c), C, R, U) /\ (nt => Decided(C))
    BY <1>6 DEF Mirrors
  <2>6. Answered(Thought(c), Joined(Answer(c), piece), D, R, V)
    <3>1. Log(Answer(c))
      BY <1>3, InkedTexts
    <3>2. V = U \/ (U = C /\ V = Joined(C, piece) /\ Decided(C))
      BY <1>3, <2>5
    <3> QED BY <1>3, <2>5, <3>1, <3>2, AnsweredMore
  <2>7. nt => Decided(D)
    BY <1>3, <2>5, DecidedStays
  <2> HIDE DEF D
  <2>8. Answered(Thought(d), Answer(d), D, R, V) /\ Inked(d) /\ Faithful(c, d)
    BY <2>4, <2>6 DEF Becomes
  <2>9. d.mode = "text"
    BY <1>6, <2>3 DEF SameMode
  <2> QED BY <1>3, <1>4, <2>7, <2>8, <2>9 DEF Mirrors, D
<1>7. ASSUME c.mode # "text"
      PROVE  /\ nt /\ more.think = D /\ Thought(more) = R /\ Answer(more) = <<>>
             /\ Inked(more) /\ Faithful(c, more) /\ Going(more) /\ TextOpen(more) /\ V = D
             /\ Formed(more)
  <2>1. nt /\ c.think = C /\ Thought(c) = R /\ Answer(c) = <<>>
    BY <1>7 DEF Mirrors
  <2>2. more.think = D
    BY <1>2, <2>1
  <2> HIDE DEF more, D
  <2>3. Going(more) /\ TextOpen(more)
    BY <1>1, <1>7 DEF Step, TextOpen
  <2>4. Formed(more)
    BY <2>3, GoingFacts
  <2> QED BY <1>2, <1>4, <2>1, <2>2, <2>3, <2>4 DEF Becomes
<1>8. CASE c.mode = "reasoning"
  <2>1. d = DrainThink(more)
    BY <1>8 DEF PushContent
  <2>2. Opens(D)
    BY <1>3, <1>8, OpensStays DEF Mirrors, Joined
  <2>3. Holds(more, D, R)
    <3>1. more.mode = "reasoning"
      BY <1>1, <1>8
    <3> HIDE DEF more, D
    <3> QED BY <1>4, <1>7, <1>8, <2>2, <3>1 DEF Holds
  <2> HIDE DEF more, D
  <2>4. Mirrors(d, D, R, D, nt) /\ Faithful(more, d)
    BY <1>3, <1>7, <1>8, <2>1, <2>3, DrainThinkMirrors
  <2> QED BY <1>7, <1>8, <2>4, FaithfulOn DEF D
<1>9. CASE c.mode = "detecting"
  <2> DEFINE decision == Decision(more.think)
             thinking == [more EXCEPT !.mode = "reasoning"]
             answering == [more EXCEPT !.mode = "text", !.think = <<>>]
             text == more.think
  <2>0. /\ nt /\ more.think = D /\ Thought(more) = R /\ Answer(more) = <<>>
        /\ Inked(more) /\ Faithful(c, more) /\ Going(more) /\ TextOpen(more) /\ V = D
        /\ Formed(more) /\ more.mode = "detecting"
    BY <1>1, <1>7, <1>9
  <2>1. decision \in {"need_more", "reasoning", "text"} /\ decision = Decision(D)
    BY <2>0 DEF Decision
  <2>2. d = CASE decision = "need_more" -> more
              [] decision = "reasoning" -> DrainThink(thinking)
              [] decision = "text" -> PushText(FinalizeReasoning(answering), text)
    BY <1>9 DEF PushContent
  <2> HIDE DEF more, decision, D
  <2>3. CASE decision = "need_more"
    <3>1. d = more
      BY <2>2, <2>3
    <3> QED BY <1>3, <1>4, <2>0, <2>1, <2>3, <3>1 DEF Mirrors, D
  <2>4. CASE decision = "reasoning"
    <3>1. Step(more, thinking, Texts) /\ thinking.items = more.items /\ thinking.mode = "reasoning"
      BY <2>0, ReasoningModeStep
    <3>2. d = DrainThink(thinking)
      BY <2>2, <2>4
    <3>3. thinking.think = D /\ Becomes(more, thinking, Thought(more), Answer(more))
      BY <2>0, ThinkIs, ModesBecome, Zenon
    <3>4. Opens(D)
      BY <2>1, <2>4, Decisions
    <3> HIDE DEF thinking
    <3>5. Going(thinking) /\ TextOpen(thinking)
      BY <2>0, <3>1 DEF Step, TextOpen
    <3>6. Holds(thinking, D, R)
      BY <1>4, <2>0, <3>1, <3>3, <3>4, <3>5 DEF Holds, Becomes, D
    <3>7. Mirrors(d, D, R, D, nt) /\ Faithful(thinking, d)
      BY <1>3, <2>0, <3>2, <3>6, DrainThinkMirrors
    <3>8. Faithful(c, d)
      BY <2>0, <3>3, <3>7, FaithfulOn DEF Becomes
    <3> QED BY <2>0, <3>7, <3>8 DEF D
  <2>5. CASE decision = "text"
    <3>1. Step(more, answering, Texts) /\ answering.items = more.items /\ answering.mode = "text"
      BY <2>0, AnsweringStep, Zenon
    <3>2. d = PushText(FinalizeReasoning(answering), text)
      BY <2>2, <2>5
    <3>3. Becomes(more, answering, Thought(more), Answer(more))
      BY <2>0, ModesBecome, Zenon
    <3>4. ~ Opens(D)
      BY <2>1, <2>5, Decisions
    <3>5. text = D
      BY <2>0
    <3>6. D # <<>>
      BY <3>4, <2>1, <2>5, NoThinkBlockInNone
    <3> HIDE DEF answering, text
    <3>7. Going(answering) /\ ~ answering.items["text"].done
      BY <2>0, <3>1 DEF Step, TextOpen
    <3>8. Inked(answering) /\ Thought(answering) = R /\ Answer(answering) = <<>>
      BY <2>0, <3>3 DEF Becomes
    <3>9. Becomes(answering, d, Thought(answering), Joined(Answer(answering), D))
          /\ SameMode(answering, d)
      BY <1>4, <3>2, <3>5, <3>6, <3>7, <3>8, AnswerBecomes, AnswerStep DEF D
    <3>10. Joined(<<>>, D) = D
      BY <1>4, LogJoined, EmptyLog DEF Joined, D
    <3>11. Inked(d) /\ Thought(d) = R /\ Answer(d) = D /\ d.mode = "text"
      BY <3>1, <3>8, <3>9, <3>10 DEF Becomes, SameMode
    <3>12. Faithful(c, d)
      BY <2>0, <3>3, <3>9, FaithfulOn DEF Becomes
    <3>13. Answered(R, D, D, R, D) /\ Decided(D)
      BY <2>1, <2>5, <3>4, AnsweredPlain DEF Decided
    <3> QED BY <1>3, <1>4, <2>0, <3>11, <3>12, <3>13 DEF Mirrors, D
  <2> QED BY <2>1, <2>3, <2>4, <2>5
<1> QED BY <1>5, <1>6, <1>8, <1>9

LEMMA MirrorsSame ==
  ASSUME NEW c, NEW C, NEW R, NEW U, NEW nt, Mirrors(c, C, R, U, nt),
         NEW d, SameMode(c, d), Becomes(c, d, Thought(c), Answer(c))
  PROVE  Mirrors(d, C, R, U, nt) /\ Faithful(c, d)
BY DEF Mirrors, SameMode, Becomes

\* The response is begun.
LEMMA StartedMirrors ==
  ASSUME NEW c, Whole(c), ~ c.completed, NEW C, NEW R, NEW U, NEW nt, Mirrors(c, C, R, U, nt),
         NEW d, d = EnsureStarted(c)
  PROVE  Mirrors(d, C, R, U, nt) /\ Faithful(c, d)
<1>1. SameMode(c, d) /\ d.items = c.items
  BY StartedStep
<1>2. IsConverter(c) /\ Log(c.out)
  BY DEF Whole, Recorded, Formed, IsConverter
<1>3. d.finishReason = c.finishReason
  BY <1>2 DEF EnsureStarted, Write, IsConverter
<1>4. DoneEvents(d.out) = DoneEvents(c.out)
  <2>1. CASE c.started
    BY <2>1 DEF EnsureStarted
  <2>2. CASE ~ c.started
    <3> DEFINE e == [type |-> "created"]
    <3>1. d.out = Append(c.out, e)
      BY <1>2, <2>2 DEF EnsureStarted, Write, IsConverter
    <3>2. e.type # "done"
      OBVIOUS
    <3>3. d.out = Append(c.out, e) /\ Log(c.out)
      BY <1>2, <3>1
    <3> HIDE DEF e
    <3> QED BY ONLY <3>2, <3>3, DoneEventsGrow
  <2> QED BY <2>1, <2>2
<1>5. Faithful(c, d)
  BY <1>1, <1>3, <1>4, FaithfulWrite
<1>6. Becomes(c, d, Thought(c), Answer(c))
  BY <1>1, <1>5 DEF Becomes, Inked, Thought, Answer, Mirrors
<1> QED BY <1>1, <1>6, MirrorsSame

\* What was held back is told before anything else.
LEMMA FlushThinkMirrors ==
  ASSUME NEW c, Going(c), TextOpen(c), NEW C, NEW R, NEW U, NEW nt, Mirrors(c, C, R, U, nt),
         NEW d, d = FlushThink(c)
  PROVE  Mirrors(d, C, R, U, FALSE) /\ Faithful(c, d)
<1> DEFINE flushed == [c EXCEPT !.mode = "text", !.think = <<>>]
<1>0. Formed(c) /\ c.mode \in {"detecting", "reasoning", "text"}
  BY GoingFacts DEF Formed
<1>1. /\ Inked(c) /\ Log(C) /\ Log(R) /\ Log(U) /\ (nt => U = C)
  BY DEF Mirrors
<1>2. CASE c.mode = "text"
  <2>1. d = c
    BY <1>2 DEF FlushThink
  <2> QED BY <1>1, <1>2, <2>1, FaithfulSelf DEF Mirrors
<1>3. ASSUME c.mode # "text"
      PROVE  /\ nt /\ U = C /\ c.think = C /\ Going(flushed)
             /\ ~ flushed.items["text"].done /\ ~ flushed.items["reasoning"].done
             /\ Inked(flushed) /\ Thought(flushed) = R /\ Answer(flushed) = <<>>
             /\ Faithful(c, flushed) /\ flushed.mode = "text"
  <2>1. nt /\ U = C /\ c.think = C /\ Thought(c) = R /\ Answer(c) = <<>>
    BY <1>3 DEF Mirrors
  <2>2. Step(c, flushed, Texts) /\ flushed.items = c.items /\ flushed.mode = "text"
    BY AnsweringStep, Zenon
  <2>3. Becomes(c, flushed, Thought(c), Answer(c))
    BY <1>0, <1>1, ModesBecome, Zenon
  <2> HIDE DEF flushed
  <2> QED BY <1>3, <2>1, <2>2, <2>3 DEF Step, TextOpen, Becomes
<1>4. CASE c.mode = "detecting"
  <2>1. d = IF c.think = <<>> THEN flushed ELSE PushText(FinalizeReasoning(flushed), c.think)
    BY <1>4 DEF FlushThink
  <2>2. ~ Opens(C)
    BY <1>4, Decisions DEF Mirrors
  <2>3. Answered(R, C, C, R, U)
    BY <1>3, <1>4, <2>2, AnsweredPlain
  <2> HIDE DEF flushed
  <2>4. CASE c.think = <<>>
    <3>1. d = flushed /\ C = <<>>
      BY <1>3, <1>4, <2>1, <2>4
    <3> QED BY <1>1, <1>3, <1>4, <2>3, <3>1 DEF Mirrors
  <2>5. CASE c.think # <<>>
    <3>1. d = PushText(FinalizeReasoning(flushed), C) /\ C # <<>>
      BY <1>3, <1>4, <2>1, <2>5
    <3>2. /\ Becomes(flushed, d, Thought(flushed), Joined(Answer(flushed), C))
          /\ SameMode(flushed, d)
      BY <1>1, <1>3, <1>4, <3>1, AnswerBecomes, AnswerStep
    <3>3. Joined(<<>>, C) = C
      BY <1>1, LogJoined, EmptyLog DEF Joined
    <3>4. Inked(d) /\ Thought(d) = R /\ Answer(d) = C /\ d.mode = "text"
      BY <1>3, <1>4, <3>2, <3>3 DEF Becomes, SameMode
    <3>5. Faithful(c, d)
      BY <1>3, <1>4, <3>2, FaithfulOn DEF Becomes
    <3> QED BY <1>1, <2>3, <3>4, <3>5 DEF Mirrors
  <2> QED BY <2>4, <2>5
<1>5. CASE c.mode = "reasoning"
  <2> DEFINE split == IF HasThinkBlock(c.think) THEN SplitThink(c.think)
                      ELSE [reasoning |-> WithoutOpenTag(c.think), answer |-> <<>>]
  <2>1. d = PushSplit(flushed, split)
    BY <1>5 DEF FlushThink
  <2>2. Opens(C) /\ ~ HasThinkBlock(C)
    BY <1>5 DEF Mirrors
  <2>3. Log(split.reasoning) /\ Log(split.answer)
    BY <1>1, <1>3, <1>5, <2>2, WithoutOpenTagLog, EmptyLog
  <2> HIDE DEF flushed, split
  <2>4. /\ Becomes(flushed, d, Joined(Thought(flushed), split.reasoning),
                   Joined(Answer(flushed), split.answer))
        /\ SameMode(flushed, d)
    BY <1>3, <1>5, <2>1, <2>3, PushSplitBecomes, PushSplitStep
  <2>5. Answered(Thought(d), Answer(d), C, R, U)
    BY <1>3, <1>5, <2>2, AnsweredOpen
  <2>6. Inked(d) /\ d.mode = "text" /\ Faithful(c, d)
    BY <1>3, <1>5, <2>4, FaithfulOn DEF Becomes, SameMode
  <2> QED BY <1>1, <2>5, <2>6 DEF Mirrors
<1> QED BY <1>0, <1>2, <1>4, <1>5

\* Reasoning comes before the answer is begun.
LEMMA PushReasoningMirrors ==
  ASSUME NEW c, Going(c), TextOpen(c), c.mode # "text",
         NEW C, NEW R, NEW U, NEW nt, Mirrors(c, C, R, U, nt),
         NEW piece, piece # <<>>, Log(piece), NEW d, d = PushReasoning(c, piece)
  PROVE  Mirrors(d, C, Joined(R, piece), U, nt) /\ Faithful(c, d)
<1>1. ~ c.items["reasoning"].done /\ Inked(c)
  BY DEF TextOpen, Mirrors
<1>2. Becomes(c, d, Joined(Thought(c), piece), Answer(c)) /\ SameMode(c, d)
  BY <1>1, ReasoningPushedBecomes, ReasoningPushed
<1>3. Log(R) /\ Log(piece)
  BY DEF Mirrors
<1>4. Log(Joined(R, piece))
  BY <1>3, LogJoined DEF Joined
<1> QED BY <1>2, <1>4 DEF Mirrors, SameMode, Becomes

\* The steps that leave the texts.
LEMMA FinalizeReasoningMirrors ==
  ASSUME NEW c, Going(c), NEW C, NEW R, NEW U, NEW nt, Mirrors(c, C, R, U, nt),
         NEW d, d = FinalizeReasoning(c)
  PROVE  Mirrors(d, C, R, U, nt) /\ Faithful(c, d)
<1>1. Inked(c)
  BY DEF Mirrors
<1> QED BY <1>1, ReasoningFinalizedBecomes, ReasoningFinalized, MirrorsSame

LEMMA FinalizeTextMirrors ==
  ASSUME NEW c, Going(c), NEW C, NEW R, NEW U, NEW nt, Mirrors(c, C, R, U, nt),
         NEW d, d = FinalizeText(c)
  PROVE  Mirrors(d, C, R, U, nt) /\ Faithful(c, d)
<1>1. Inked(c)
  BY DEF Mirrors
<1> QED BY <1>1, TextFinalizedBecomes, TextFinalized, MirrorsSame

-----------------------------------------------------------------------------
(* Tool calls *)

IsNamed(it, delta) == it.index # 0 /\ it.name = delta.name /\ it.call = CallId(delta)

LEMMA ReasonNoted ==
  ASSUME NEW c, Formed(c), NEW k \in Keys, NEW x
  PROVE  /\ Renamed(c, k, x).finishReason = c.finishReason
         /\ Heard(c, k, x).finishReason = c.finishReason
BY ReasonStays

\* An event was written that is no done event.
Passes(c, d) ==
  d.items = c.items /\ d.finishReason = c.finishReason /\ DoneEvents(d.out) = DoneEvents(c.out)

LEMMA DeltaPasses ==
  ASSUME NEW c, Formed(c), NEW index, NEW id, NEW piece, NEW d, d = WriteDelta(c, index, id, piece)
  PROVE  Passes(c, d) /\ Formed(d)
<1> DEFINE e == [type |-> "delta", index |-> index, id |-> id, piece |-> piece]
<1>1. d = Write(c, e) /\ e.type # "done" /\ Log(c.out)
  BY DEF WriteDelta, Formed
<1> HIDE DEF e
<1>2. d.items = c.items /\ d.out = Append(c.out, e) /\ Formed(d)
  BY <1>1, WriteIs
<1>3. DoneEvents(d.out) = DoneEvents(c.out)
  BY <1>1, <1>2, DoneEventsGrow
<1>4. d.finishReason = c.finishReason
  BY ReasonStaysDelta
<1> QED BY <1>2, <1>3, <1>4 DEF Passes

LEMMA ArgumentsPass ==
  ASSUME NEW c, Formed(c), NEW k, NEW piece, NEW d, d = WriteArguments(c, k, piece)
  PROVE  Passes(c, d)
<1>1. Passes(c, c)
  BY DEF Passes
<1> QED BY <1>1, DeltaPasses DEF WriteArguments

\* The call is announced under what is known of it.
AddedAs(c, d, k) ==
  /\ d.items[k].index = c.nextIndex /\ d.items[k].text = c.items[k].text
  /\ d.items[k].call =
       (IF c.items[k].call = NoCall THEN DefaultCall(k) ELSE c.items[k].call)
  /\ d.items[k].name = (IF c.items[k].name = NoName THEN "unknown_tool" ELSE c.items[k].name)
  /\ d.finishReason = c.finishReason /\ DoneEvents(d.out) = DoneEvents(c.out)

LEMMA AddToolTells ==
  ASSUME NEW c, Formed(c), NEW k \in Keys, NEW d, d = AddTool(c, k)
  PROVE  AddedAs(c, d, k)
<1> DEFINE call == IF c.items[k].call = NoCall THEN DefaultCall(k) ELSE c.items[k].call
           name == IF c.items[k].name = NoName THEN "unknown_tool" ELSE c.items[k].name
           a == Called(c, k, call, name)
           id == <<"function_call">> \o call
           kind == ToolKind(name)
           told == ToolId(name, call)
           b == AddItem(a, k, kind, told)
           e == [type |-> "added", index |-> a.nextIndex, kind |-> kind, id |-> told]
<1>1. d = Renamed(b, k, id)
  BY Zenon DEF AddTool, Called, Renamed
<1>2. /\ ItemBecame(c, a, k) /\ a.items[k].call = call /\ a.items[k].name = name
      /\ a.items[k].text = c.items[k].text
  <2> HIDE DEF call, name
  <2> QED BY CalledIs
<1>3. a.finishReason = c.finishReason
  <2> HIDE DEF call, name
  <2> QED BY ReasonStays
<1> HIDE DEF a, call, name, kind, told
<1>4. Formed(a) /\ a.out = c.out /\ a.nextIndex = c.nextIndex /\ Log(a.out)
  BY <1>2 DEF ItemBecame, Formed
<1>5. /\ Formed(b) /\ b.items[k].index = a.nextIndex /\ b.items[k].text = a.items[k].text
      /\ b.items[k].call = a.items[k].call /\ b.items[k].name = a.items[k].name
      /\ b.out = Append(a.out, e)
  BY <1>4, AddItemIs
<1>6. b.finishReason = a.finishReason
  BY <1>4, ReasonStays
<1>7. e.type # "done"
  OBVIOUS
<1> HIDE DEF b, id, e
<1>8. DoneEvents(b.out) = DoneEvents(a.out)
  <2>1. b.out = Append(a.out, e) /\ Log(a.out)
    BY <1>4, <1>5
  <2> QED BY ONLY <1>7, <2>1, DoneEventsGrow
<1>9. /\ ItemBecame(b, d, k) /\ d.items[k].index = b.items[k].index
      /\ d.items[k].call = b.items[k].call /\ d.items[k].name = b.items[k].name
      /\ d.items[k].text = b.items[k].text
  BY <1>1, <1>5, RenamedIs
<1>10. d.finishReason = b.finishReason
  BY <1>1, <1>5, ReasonNoted
<1>11. d.out = b.out
  BY <1>9 DEF ItemBecame
<1> QED BY <1>2, <1>3, <1>4, <1>5, <1>6, <1>8, <1>9, <1>10, <1>11 DEF AddedAs, call, name

\* The call k got what the delta says of it.
Hears(c, d, k, delta) ==
  /\ Faithful(c, d) /\ d.items[k].text = Joined(c.items[k].text, delta.arguments)
  /\ c.items[k].index # 0 =>
       /\ d.items[k].index # 0 /\ d.items[k].name = c.items[k].name
       /\ d.items[k].call = c.items[k].call
  /\ c.items[k].index = 0 /\ delta.name # NoName => IsNamed(d.items[k], delta)

LEMMA PushToolTells ==
  ASSUME NEW c, Going(c), NEW delta \in ToolDeltas,
         ~ c.items[delta.index].done,
         c.items[delta.index].index # 0 => ~ Identified(delta),
         NEW d, d = PushTool(c, delta)
  PROVE  Hears(c, d, delta.index, delta)
<1> DEFINE k == delta.index
           a == Heard(c, k, delta)
           item == a.items[k]
           identified == item.call # NoCall \/ item.name # NoName
<1>1. k \in Keys \ Texts /\ k \in Keys /\ Log(delta.arguments)
  BY DEF Keys, Texts, Log
<1>2. d = IF item.index # 0 THEN WriteArguments(a, k, delta.arguments)
          ELSE IF identified THEN WriteArguments(AddTool(a, k), k, item.text)
          ELSE a
  BY DEF PushTool, Heard
<1>3. /\ Recorded(c) /\ Formed(c) /\ Log(c.items[k].text) /\ c.nextIndex >= 1
  BY <1>1, GoingFacts DEF Formed, Recorded, Numbered
<1>4. /\ OthersSame(c, d, k) /\ ~ d.items[k].done
  <2>1. Step(c, d, {delta.index}) /\ ~ d.items[delta.index].done
    BY PushToolStep
  <2> QED BY <1>1, <2>1 DEF Step, OthersSame
<1>5. a.finishReason = c.finishReason
  BY <1>1, <1>3, ReasonNoted
<1> HIDE DEF k
<1>6. /\ ItemBecame(c, a, k) /\ a.items[k].index = c.items[k].index
      /\ a.items[k].call = (IF delta.id = Absent THEN c.items[k].call ELSE delta.id)
      /\ a.items[k].name = (IF delta.name = NoName THEN c.items[k].name ELSE delta.name)
      /\ a.items[k].text = Joined(c.items[k].text, delta.arguments)
  BY <1>1, <1>3, HeardIs
<1> HIDE DEF a
<1>7. Formed(a) /\ a.out = c.out /\ a.nextIndex = c.nextIndex
  BY <1>6 DEF ItemBecame
<1>8. ~ c.items[k].done
  BY DEF k
<1>9. ASSUME DoneEvents(d.out) = DoneEvents(c.out), d.finishReason = c.finishReason
      PROVE  Faithful(c, d)
  BY <1>1, <1>4, <1>8, <1>9, TellsStill DEF Faithful
<1>10. CASE c.items[k].index # 0
  <2>1. Passes(a, d)
    BY <1>2, <1>6, <1>7, <1>10, ArgumentsPass
  <2>2. a.items[k].call = c.items[k].call /\ a.items[k].name = c.items[k].name
    BY <1>6, <1>10 DEF Identified, k
  <2>3. Faithful(c, d)
    BY <1>5, <1>7, <1>9, <2>1 DEF Passes
  <2> QED BY <1>6, <1>10, <2>1, <2>2, <2>3 DEF Hears, Passes, k
<1>11. CASE c.items[k].index = 0 /\ identified
  <2> DEFINE b == AddTool(a, k)
  <2>1. d = WriteArguments(b, k, a.items[k].text)
    BY <1>2, <1>6, <1>11
  <2>2. AddedAs(a, b, k) /\ Formed(b)
    BY <1>1, <1>7, AddToolTells, AddToolIs
  <2> HIDE DEF b
  <2>3. Passes(b, d)
    BY <2>1, <2>2, ArgumentsPass
  <2>4. Faithful(c, d)
    BY <1>5, <1>7, <1>9, <2>2, <2>3 DEF Passes, AddedAs
  <2>5. d.items[k].text = Joined(c.items[k].text, delta.arguments) /\ d.items[k].index # 0
    BY <1>3, <1>6, <1>7, <2>2, <2>3 DEF Passes, AddedAs
  <2>6. ASSUME delta.name # NoName PROVE IsNamed(d.items[k], delta)
    <3>1. c.items[k].call = NoCall
      BY <1>1, <1>3, <1>11 DEF Recorded, Identities
    <3>2. d.items[k].name = delta.name
      BY <1>6, <2>2, <2>3, <2>6 DEF Passes, AddedAs
    <3>3. d.items[k].call = CallId(delta)
      BY <1>6, <2>2, <2>3, <3>1 DEF Passes, AddedAs, CallId, k
    <3> QED BY <2>5, <3>2, <3>3 DEF IsNamed
  <2> QED BY <1>11, <2>4, <2>5, <2>6 DEF Hears, k
<1>12. CASE c.items[k].index = 0 /\ ~ identified
  <2>1. d = a
    BY <1>2, <1>6, <1>12
  <2>2. delta.name = NoName
    BY <1>6, <1>12
  <2>3. Faithful(c, d)
    BY <1>5, <1>7, <1>9, <2>1
  <2> QED BY <1>6, <1>12, <2>1, <2>2, <2>3 DEF Hears, k
<1> QED BY <1>10, <1>11, <1>12

\* An item keeps its text and, once it is announced, its identity.
Kept(o, p) ==
  /\ p.text = o.text
  /\ o.index # 0 => p.index # 0 /\ p.name = o.name /\ p.call = o.call

LEMMA FinalizeToolTells ==
  ASSUME NEW c, Going(c), NEW k \in Tools, NEW d, d = FinalizeTool(c, k)
  PROVE  Faithful(c, d) /\ Kept(c.items[k], d.items[k])
<1>1. k \in Keys /\ k \in Keys \ Texts /\ Formed(c) /\ Recorded(c)
  BY GoingFacts DEF Tools
<1>2. CASE ~ c.items[k].known \/ c.items[k].done
  <2>1. d = c
    BY <1>2 DEF FinalizeTool
  <2> QED BY <2>1, FaithfulSelf DEF Kept
<1>3. CASE ~ (~ c.items[k].known \/ c.items[k].done)
  <2> DEFINE a == IF c.items[k].index = 0 THEN AddTool(c, k) ELSE c
             item == a.items[k]
             id == ToolId(item.name, item.call)
             content == ToolContent(item.name, item.text)
             b == IF IsCustom(item.name) THEN WriteDelta(a, item.index, id, content) ELSE a
             kind == ToolKind(item.name)
  <2>1. d = WriteDone(b, k, kind, id, content)
    BY <1>3 DEF FinalizeTool
  <2>2. /\ Formed(a) /\ Kept(c.items[k], a.items[k]) /\ a.finishReason = c.finishReason
        /\ DoneEvents(a.out) = DoneEvents(c.out)
    <3>1. CASE c.items[k].index = 0
      <4>1. a = AddTool(c, k)
        BY <3>1
      <4> HIDE DEF a
      <4>2. AddedAs(c, a, k) /\ Formed(a)
        BY <1>1, <4>1, AddToolTells, AddToolIs
      <4> QED BY <3>1, <4>2 DEF AddedAs, Kept
    <3>2. CASE c.items[k].index # 0
      <4>1. a = c
        BY <3>2
      <4> QED BY <1>1, <4>1 DEF Kept
    <3> QED BY <3>1, <3>2
  <2> HIDE DEF a
  <2>3. Passes(a, b) /\ Formed(b)
    <3>1. CASE IsCustom(item.name)
      <4>1. b = WriteDelta(a, item.index, id, content)
        BY <3>1
      <4> HIDE DEF b, id, content
      <4> QED BY <2>2, <4>1, DeltaPasses
    <3>2. CASE ~ IsCustom(item.name)
      <4>1. b = a
        BY <3>2
      <4> HIDE DEF b
      <4> QED BY <2>2, <4>1 DEF Passes
    <3> QED BY <3>1, <3>2
  <2> DEFINE e == [type |-> "done", index |-> b.items[k].index, kind |-> kind, id |-> id,
                   content |-> content]
  <2>4. /\ d.items[k].index = b.items[k].index /\ d.items[k].done
        /\ d.items[k].text = b.items[k].text
        /\ d.items[k].call = b.items[k].call /\ d.items[k].name = b.items[k].name
        /\ d.out = Append(b.out, e)
    <3> HIDE DEF b, kind, id, content
    <3> QED BY <1>1, <2>1, <2>3, WriteDoneIs
  <2>5. DoneEvents(d.out) = DoneEvents(b.out) \cup {e}
    <3>1. e.type = "done"
      OBVIOUS
    <3>2. d.out = Append(b.out, e) /\ Log(b.out)
      BY <2>3, <2>4, Zenon DEF Formed
    <3> HIDE DEF e
    <3> QED BY ONLY <3>1, <3>2, DoneEventsGrow
  <2>6. d.finishReason = c.finishReason
    <3> HIDE DEF b, kind, id, content
    <3>1. d.finishReason = b.finishReason
      BY <1>1, <2>1, <2>3, ReasonStaysDone
    <3> QED BY <2>2, <2>3, <3>1 DEF Passes
  <2>7. d.items[k].name = item.name /\ d.items[k].call = item.call /\ d.items[k].text = item.text
        /\ d.items[k].index = item.index
    <3> HIDE DEF b
    <3> QED BY <2>3, <2>4 DEF Passes
  <2>8. e = DoneOf(k, d.items[k])
    <3>1. KindOf(k, d.items[k]) = kind /\ IdOf(k, d.items[k]) = id
      BY <1>1, <2>7, ToolKeys
    <3>2. content = ToolContent(d.items[k].name, d.items[k].text) /\ k \notin Texts
      BY <1>1, <2>7
    <3> HIDE DEF b, kind, id, content
    <3> QED BY <2>4, <3>1, <3>2 DEF DoneOf
  <2>9. DoneEvents(d.out) = DoneEvents(c.out) \cup {DoneOf(k, d.items[k])}
    <3> HIDE DEF b, e
    <3> QED BY <2>2, <2>3, <2>5, <2>8 DEF Passes
  <2> HIDE DEF b, e, kind, id, content
  <2>10. OthersSame(c, d, k)
    BY FinalizeToolStep, <1>1 DEF Step, OthersSame
  <2>11. Faithful(c, d)
    BY <1>1, <1>3, <2>4, <2>6, <2>9, <2>10, TellsDone DEF Faithful
  <2>12. Kept(c.items[k], d.items[k])
    BY <2>2, <2>7 DEF Kept
  <2> QED BY <2>11, <2>12
<1> QED BY <1>2, <1>3

LEMMA KeptOn ==
  ASSUME NEW o, NEW p, NEW q, Kept(o, p), Kept(p, q)
  PROVE  Kept(o, q)
BY DEF Kept

KeptAll(c, d) == \A k \in Tools : Kept(c.items[k], d.items[k])

LEMMA FinalizeToolsTells ==
  ASSUME NEW c, Going(c), NEW d, d = FinalizeTools(c)
  PROVE  Faithful(c, d) /\ KeptAll(c, d)
<1> DEFINE m == Len(ToolIndexes)
           f == CHOOSE f : Finalizes(f, c, m)
           Upto(n) == /\ Step(c, f[n], Tools) /\ Faithful(c, f[n]) /\ KeptAll(c, f[n])
<1>1. m \in Nat /\ \A i \in 1 .. m : ToolIndexes[i] \in Tools
  <2>1. ToolIndexes \in Seq(Range(ToolIndexes))
    OBVIOUS
  <2> QED BY <2>1 DEF Tools, Keys, Texts
<1>2. Finalizes(f, c, m)
  BY <1>1, FinalizesExists
<1>3. d = f[m]
  BY DEF FinalizeTools, Finalizes
<1> HIDE DEF f, m
<1>4. f[0] = c /\ \A n \in 1 .. m : f[n] = FinalizeTool(f[n - 1], ToolIndexes[n])
  <2>1. f = [n \in 0 .. m |-> IF n = 0 THEN c ELSE FinalizeTool(f[n - 1], ToolIndexes[n])]
    BY <1>2 DEF Finalizes
  <2>2. 0 \in 0 .. m /\ \A n \in 1 .. m : n \in 0 .. m /\ n # 0
    BY <1>1
  <2> QED BY <2>1, <2>2
<1>5. Upto(0)
  <2>1. Step(c, c, Tools) /\ Faithful(c, c) /\ KeptAll(c, c)
    BY StepSelf, FaithfulSelf DEF KeptAll, Kept
  <2> QED BY <1>4, <2>1
<1>6. ASSUME NEW n \in 1 .. m, Upto(n - 1)
      PROVE  Upto(n)
  <2> DEFINE b == f[n - 1]
             e == f[n]
             k == ToolIndexes[n]
  <2>1. e = FinalizeTool(b, k) /\ k \in Tools
    BY <1>1, <1>4
  <2>2. Going(b) /\ Step(c, b, Tools) /\ Faithful(c, b) /\ KeptAll(c, b)
    BY <1>6 DEF Step
  <2> HIDE DEF b, e, k
  <2>3. Step(b, e, {k})
    BY <2>1, <2>2, FinalizeToolStep DEF Tools
  <2>4. Faithful(b, e) /\ Kept(b.items[k], e.items[k])
    BY <2>1, <2>2, FinalizeToolTells
  <2>5. Step(c, e, Tools)
    <3>1. {k} \subseteq Tools
      BY <2>1
    <3>2. Step(b, e, Tools)
      BY <2>3, <3>1, StepWider
    <3> QED BY <2>2, <3>2, StepOn
  <2>6. Faithful(c, e)
    BY <2>2, <2>4, FaithfulOn
  <2>7. KeptAll(c, e)
    <3>1. \A j \in Tools : j = k \/ e.items[j] = b.items[j]
      BY <2>3 DEF Step, Tools
    <3>2. ASSUME NEW j \in Tools PROVE Kept(c.items[j], e.items[j])
      <4>1. Kept(c.items[j], b.items[j])
        BY <2>2 DEF KeptAll
      <4>2. CASE j = k
        BY <2>4, <4>1, <4>2, KeptOn
      <4>3. CASE j # k
        BY <3>1, <4>1, <4>3
      <4> QED BY <4>2, <4>3
    <3> QED BY <3>2 DEF KeptAll
  <2> QED BY <2>5, <2>6, <2>7 DEF e
<1>7. Upto(m)
  <2> DEFINE T == {n \in 0 .. m : ~ Upto(n)}
  <2> HIDE DEF Upto
  <2>1. SUFFICES ASSUME T # {} PROVE FALSE
    BY <1>1
  <2>2. PICK n \in T : \A l \in T : n <= l
    <3>1. T \subseteq Nat
      BY <1>1
    <3> HIDE DEF T
    <3> QED BY <2>1, <3>1, Least
  <2>3. n \in 0 .. m /\ ~ Upto(n)
    OBVIOUS
  <2>4. n # 0
    BY <1>5, <2>3
  <2>5. n \in 1 .. m /\ n - 1 \in 0 .. m /\ ~ (n <= n - 1)
    BY <1>1, <2>3, <2>4
  <2>6. Upto(n - 1)
    BY <2>2, <2>5
  <2> QED BY <1>6, <2>3, <2>5, <2>6
<1> QED BY <1>3, <1>7

-----------------------------------------------------------------------------
(* What the calls are of the blocks that were handled *)

MirrorsTool(it, P, k) ==
  /\ Log(it.text) /\ it.text = ArgumentsOf(P, k)
  /\ \A n \in Naming(P) : P[n].delta.index = k => IsNamed(it, P[n].delta)

MirrorsTools(c, P) == \A k \in Tools : MirrorsTool(c.items[k], P, k)

LEMMA KeptMirrors ==
  ASSUME NEW o, NEW p, Kept(o, p), NEW P, NEW k, MirrorsTool(o, P, k)
  PROVE  MirrorsTool(p, P, k)
BY DEF Kept, MirrorsTool, IsNamed

LEMMA KeptToolsMirror ==
  ASSUME NEW c, NEW d, KeptAll(c, d), NEW P, MirrorsTools(c, P)
  PROVE  MirrorsTools(d, P)
BY KeptMirrors DEF KeptAll, MirrorsTools

LEMMA SameToolsMirror ==
  ASSUME NEW c, NEW d, \A k \in Tools : d.items[k] = c.items[k], NEW P, MirrorsTools(c, P)
  PROVE  MirrorsTools(d, P)
BY DEF MirrorsTools

LEMMA NamingGrows ==
  ASSUME NEW P, NEW b, NEW Q, OneMore(P, Q, b)
  PROVE  /\ \A n \in Naming(P) : n \in Naming(Q) /\ Q[n] = P[n]
         /\ \A n \in Naming(Q) : (n \in Naming(P) /\ Q[n] = P[n])
              \/ (b.type = "tool" /\ b.delta.name # NoName /\ Q[n] = b)
<1>1. /\ \A n \in DOMAIN P : n \in DOMAIN Q /\ Q[n] = P[n]
      /\ Len(P) + 1 \in DOMAIN Q /\ Q[Len(P) + 1] = b
      /\ DOMAIN P = 1 .. Len(P) /\ DOMAIN Q = 1 .. Len(P) + 1 /\ Len(P) \in Nat
  BY Extended
<1>2. \A n \in DOMAIN Q : n \in DOMAIN P \/ n = Len(P) + 1
  BY <1>1
<1> QED BY <1>1, <1>2 DEF Naming

\* A block that is no delta of the call brings nothing to it.
LEMMA ToolUntouched ==
  ASSUME NEW P, NEW k, NEW b, ~ Speaks(b, k), NEW Q, OneMore(P, Q, b),
         NEW it, MirrorsTool(it, P, k)
  PROVE  MirrorsTool(it, Q, k)
<1>1. ArgumentsOf(Q, k) = ArgumentsOf(P, k)
  <2>1. Log(ArgumentsOf(P, k))
    BY DEF MirrorsTool
  <2> QED BY <2>1, ArgumentsGrow
<1>2. ASSUME NEW n \in Naming(Q), Q[n].delta.index = k
      PROVE  IsNamed(it, Q[n].delta)
  <2>1. n \in Naming(P) /\ Q[n] = P[n]
    BY <1>2, NamingGrows DEF Speaks
  <2> QED BY <1>2, <2>1 DEF MirrorsTool
<1> QED BY <1>1, <1>2 DEF MirrorsTool

LEMMA ToolHeard ==
  ASSUME NEW P, NEW k, NEW b, Speaks(b, k),
         Log(b.delta.arguments), NEW Q, OneMore(P, Q, b),
         NEW c, NEW d, MirrorsTool(c.items[k], P, k), Hears(c, d, k, b.delta),
         Identified(b.delta) => c.items[k].index = 0
  PROVE  MirrorsTool(d.items[k], Q, k)
<1>1. /\ Log(c.items[k].text) /\ c.items[k].text = ArgumentsOf(P, k)
      /\ \A n \in Naming(P) : P[n].delta.index = k => IsNamed(c.items[k], P[n].delta)
  BY DEF MirrorsTool
<1>2. ArgumentsOf(Q, k) = Joined(ArgumentsOf(P, k), b.delta.arguments) /\ Log(ArgumentsOf(Q, k))
  <2>1. Log(ArgumentsOf(P, k))
    BY <1>1
  <2> QED BY <2>1, ArgumentsGrow
<1>3. d.items[k].text = ArgumentsOf(Q, k)
  BY <1>1, <1>2 DEF Hears
<1>4. ASSUME NEW n \in Naming(Q), Q[n].delta.index = k
      PROVE  IsNamed(d.items[k], Q[n].delta)
  <2>1. CASE n \in Naming(P) /\ Q[n] = P[n]
    <3>1. IsNamed(c.items[k], Q[n].delta)
      BY <1>1, <1>4, <2>1
    <3> QED BY <3>1 DEF IsNamed, Hears
  <2>2. CASE b.delta.name # NoName /\ Q[n] = b
    BY <2>2 DEF Identified, Hears
  <2> QED BY <2>1, <2>2, NamingGrows
<1> QED BY <1>2, <1>3, <1>4 DEF MirrorsTool

-----------------------------------------------------------------------------
(* The converter and all the blocks that were handled *)

\* The reason to finish that the blocks P gave.
Ending(P) == IF CutShort \in Range(P) THEN "length" ELSE NoName

LEMMA EndingGrows ==
  ASSUME NEW P, NEW b, NEW Q, OneMore(P, Q, b)
  PROVE  Ending(Q) = IF b = CutShort THEN "length" ELSE Ending(P)
<1>1. /\ \A n \in DOMAIN P : n \in DOMAIN Q /\ Q[n] = P[n]
      /\ Len(P) + 1 \in DOMAIN Q /\ Q[Len(P) + 1] = b
      /\ DOMAIN P = 1 .. Len(P) /\ DOMAIN Q = 1 .. Len(P) + 1 /\ Len(P) \in Nat
  BY Extended
<1>2. \A n \in DOMAIN Q : n \in DOMAIN P \/ n = Len(P) + 1
  BY <1>1
<1>3. Range(Q) = Range(P) \cup {b}
  BY <1>1, <1>2 DEF Range
<1> QED BY <1>3 DEF Ending

MirrorsTexts(c, P) ==
  Mirrors(c, ContentOf(P), ReasoningOf(P), Uninterrupted(P), NoTool(P))

\* The converter c has handled the blocks P.
Reflects(c, P) ==
  Log(P) /\ Tells(c) /\ c.finishReason = Ending(P) /\ MirrorsTexts(c, P) /\ MirrorsTools(c, P)

LEMMA BlocksAreLogs ==
  ASSUME NEW b \in Blocks
  PROVE  /\ b.type = "content" => b.piece # <<>> /\ Log(b.piece)
         /\ b.type = "tool" => b.delta \in ToolDeltas /\ b.delta.index \in Tools
                                 /\ Log(b.delta.arguments)
         /\ b.type = "finish" => b = CutShort
         /\ b = CutShort => b.type = "finish"
<1>1. ASSUME b.type = "content" PROVE b.piece # <<>> /\ Log(b.piece)
  <2>1. b.piece \in ContentDeltas
    BY <1>1, BlockKinds
  <2> QED BY <2>1 DEF Log
<1>2. ASSUME b.type = "tool"
      PROVE  b.delta \in ToolDeltas /\ b.delta.index \in Tools /\ Log(b.delta.arguments)
  <2>1. b.delta \in ToolDeltas
    BY <1>2, BlockKinds
  <2> QED BY <2>1 DEF Log, Tools, Keys, Texts
<1>3. (b.type = "finish" => b = CutShort) /\ (b = CutShort => b.type = "finish")
  BY BlockKinds DEF CutShort, Finish
<1> QED BY <1>1, <1>2, <1>3

\* What a block that is no delta of a tool call leaves of the calls.
LEMMA ToolsUntouched ==
  ASSUME NEW P, NEW b, b.type # "tool", NEW Q, OneMore(P, Q, b), NEW c, MirrorsTools(c, P),
         NEW d, \A k \in Tools : d.items[k] = c.items[k]
  PROVE  MirrorsTools(d, Q)
<1>1. ASSUME NEW k \in Tools PROVE MirrorsTool(d.items[k], Q, k)
  <2>1. MirrorsTool(c.items[k], P, k) /\ ~ Speaks(b, k) /\ d.items[k] = c.items[k]
    BY DEF MirrorsTools, Speaks
  <2> QED BY <2>1, ToolUntouched
<1> QED BY <1>1 DEF MirrorsTools

LEMMA ToolsHeard ==
  ASSUME NEW P, NEW b, b.type = "tool", NEW Q, OneMore(P, Q, b), NEW c, MirrorsTools(c, P),
         b.delta.index \in Tools, Log(b.delta.arguments),
         Identified(b.delta) => c.items[b.delta.index].index = 0,
         NEW d, Hears(c, d, b.delta.index, b.delta), OthersSame(c, d, b.delta.index)
  PROVE  MirrorsTools(d, Q)
<1>1. ASSUME NEW k \in Tools PROVE MirrorsTool(d.items[k], Q, k)
  <2>1. MirrorsTool(c.items[k], P, k)
    BY DEF MirrorsTools
  <2>2. CASE k = b.delta.index
    <3>1. Speaks(b, k)
      BY <2>2 DEF Speaks
    <3> QED BY <2>1, <2>2, <3>1, ToolHeard
  <2>3. CASE k # b.delta.index
    <3>1. ~ Speaks(b, k) /\ d.items[k] = c.items[k]
      BY <2>3 DEF Speaks, OthersSame, Tools
    <3> QED BY <2>1, <3>1, ToolUntouched
  <2> QED BY <2>2, <2>3
<1> QED BY <1>1 DEF MirrorsTools

\* What a block brings to the texts.
LEMMA TextsGrow ==
  ASSUME NEW P, NEW b \in Blocks, NEW Q, OneMore(P, Q, b),
         Log(ContentOf(P)), Log(ReasoningOf(P)), Log(Uninterrupted(P))
  PROVE  /\ Log(Q)
         /\ ContentOf(Q) = IF b.type = "content" THEN Joined(ContentOf(P), b.piece)
                           ELSE ContentOf(P)
         /\ ReasoningOf(Q) = IF b.type = "reasoning" THEN Joined(ReasoningOf(P), ReasoningDelta)
                             ELSE ReasoningOf(P)
         /\ Uninterrupted(Q) = IF b.type = "content" /\ NoTool(P)
                               THEN Joined(Uninterrupted(P), b.piece) ELSE Uninterrupted(P)
         /\ NoTool(Q) <=> NoTool(P) /\ b.type # "tool"
<1>1. b.type = "content" => Log(b.piece)
  BY BlocksAreLogs
<1>2. Log(Q)
  BY Extended
<1>3. ContentOf(Q) = IF b.type = "content" THEN Joined(ContentOf(P), b.piece) ELSE ContentOf(P)
  BY <1>1, ContentGrows
<1>4. ReasoningOf(Q) = IF b.type = "reasoning" THEN Joined(ReasoningOf(P), ReasoningDelta)
                       ELSE ReasoningOf(P)
  BY ReasoningGrows
<1>5. /\ Uninterrupted(Q) = IF b.type = "content" /\ NoTool(P)
                            THEN Joined(Uninterrupted(P), b.piece) ELSE Uninterrupted(P)
      /\ NoTool(Q) <=> NoTool(P) /\ b.type # "tool"
  BY <1>1, UninterruptedGrows
<1> QED BY <1>2, <1>3, <1>4, <1>5

LEMMA MirrorsLogs ==
  ASSUME NEW c, NEW P, MirrorsTexts(c, P)
  PROVE  /\ Log(ContentOf(P)) /\ Log(ReasoningOf(P)) /\ Log(Uninterrupted(P))
         /\ NoTool(P) => Uninterrupted(P) = ContentOf(P)
BY DEF MirrorsTexts, Mirrors

\* The same of the texts, said of other blocks.
LEMMA MirrorsAre ==
  ASSUME NEW c, NEW C, NEW R, NEW U, NEW nt, Mirrors(c, C, R, U, nt),
         NEW Q, ContentOf(Q) = C, ReasoningOf(Q) = R, Uninterrupted(Q) = U, NoTool(Q) <=> nt
  PROVE  MirrorsTexts(c, Q)
BY DEF MirrorsTexts, Mirrors

LEMMA StartedReflects ==
  ASSUME NEW c, Whole(c), ~ c.completed, NEW P, Reflects(c, P), NEW d, d = EnsureStarted(c)
  PROVE  Reflects(d, P)
<1>1. d.items = c.items
  BY StartedStep
<1>2. MirrorsTexts(d, P) /\ Faithful(c, d)
  BY StartedMirrors DEF Reflects, MirrorsTexts
<1>3. MirrorsTools(d, P)
  BY <1>1, SameToolsMirror DEF Reflects
<1> QED BY <1>2, <1>3 DEF Reflects, Faithful

LEMMA ReflectsMore ==
  ASSUME NEW c, NEW P, Reflects(c, P), NEW b, b # CutShort, NEW Q, OneMore(P, Q, b),
         NEW d, Faithful(c, d), MirrorsTexts(d, Q), MirrorsTools(d, Q)
  PROVE  Reflects(d, Q)
<1>1. Log(Q)
  BY Extended
<1>2. Ending(Q) = Ending(P)
  BY EndingGrows
<1> QED BY <1>1, <1>2 DEF Reflects, Faithful

\* The converter c is open and has handled P; the block b comes next, and makes it Q.
Awaits(c, P, b, Q) ==
  /\ Going(c) /\ TextOpen(c) /\ Reflects(c, P) /\ b \in Blocks /\ OneMore(P, Q, b)

LEMMA ReasoningReflects ==
  ASSUME NEW c, NEW P, NEW b, NEW Q, Awaits(c, P, b, Q), b.type = "reasoning",
         c.mode # "text", NEW d, d = PushReasoning(c, ReasoningDelta)
  PROVE  Reflects(d, Q)
<1>1. /\ Going(c) /\ TextOpen(c) /\ Reflects(c, P) /\ b \in Blocks /\ OneMore(P, Q, b)
      /\ MirrorsTexts(c, P) /\ MirrorsTools(c, P)
  BY DEF Awaits, Reflects
<1>2. ReasoningDelta # <<>> /\ Log(ReasoningDelta)
  BY DEF Log
<1>3. Mirrors(d, ContentOf(P), Joined(ReasoningOf(P), ReasoningDelta), Uninterrupted(P), NoTool(P))
      /\ Faithful(c, d)
  BY <1>1, <1>2, PushReasoningMirrors DEF MirrorsTexts
<1>4. /\ ContentOf(Q) = ContentOf(P) /\ Uninterrupted(Q) = Uninterrupted(P)
      /\ ReasoningOf(Q) = Joined(ReasoningOf(P), ReasoningDelta)
      /\ NoTool(Q) <=> NoTool(P)
  BY <1>1, TextsGrow, MirrorsLogs
<1>5. MirrorsTexts(d, Q)
  BY <1>3, <1>4, MirrorsAre
<1>6. \A k \in Tools : d.items[k] = c.items[k]
  <2>1. Step(c, d, {"reasoning"})
    BY <1>1, <1>2, ReasoningPushed DEF TextOpen
  <2> QED BY <2>1 DEF Step, Tools, Texts
<1>7. MirrorsTools(d, Q)
  BY <1>1, <1>6, ToolsUntouched
<1>8. b # CutShort
  BY DEF CutShort, Finish
<1> QED BY <1>1, <1>3, <1>5, <1>7, <1>8, ReflectsMore

LEMMA ContentReflects ==
  ASSUME NEW c, NEW P, NEW b, NEW Q, Awaits(c, P, b, Q), b.type = "content",
         NEW d, d = PushContent(c, b.piece)
  PROVE  Reflects(d, Q)
<1>1. /\ Going(c) /\ TextOpen(c) /\ Reflects(c, P) /\ b \in Blocks /\ OneMore(P, Q, b)
      /\ MirrorsTexts(c, P) /\ MirrorsTools(c, P)
  BY DEF Awaits, Reflects
<1> DEFINE piece == b.piece
           V == IF NoTool(P) THEN Joined(ContentOf(P), piece) ELSE Uninterrupted(P)
<1>2. piece # <<>> /\ Log(piece)
  BY <1>1, BlocksAreLogs
<1>3. d = PushContent(c, piece)
  OBVIOUS
<1> HIDE DEF piece
<1>4. Mirrors(d, Joined(ContentOf(P), piece), ReasoningOf(P), V, NoTool(P)) /\ Faithful(c, d)
  <2> HIDE DEF V
  <2>1. V = IF NoTool(P) THEN Joined(ContentOf(P), piece) ELSE Uninterrupted(P)
    BY DEF V
  <2> QED BY <1>1, <1>2, <1>3, <2>1, PushContentMirrors DEF MirrorsTexts
<1>5. /\ ContentOf(Q) = Joined(ContentOf(P), piece) /\ Uninterrupted(Q) = V
      /\ ReasoningOf(Q) = ReasoningOf(P)
      /\ NoTool(Q) <=> NoTool(P)
  BY <1>1, TextsGrow, MirrorsLogs DEF piece
<1>6. MirrorsTexts(d, Q)
  <2> HIDE DEF V
  <2> QED BY <1>4, <1>5, MirrorsAre
<1>7. \A k \in Tools : d.items[k] = c.items[k]
  <2>1. Step(c, d, Texts)
    BY <1>1, <1>2, <1>3, PushContentStep
  <2> QED BY <2>1 DEF Step, Tools, Texts
<1>8. MirrorsTools(d, Q)
  BY <1>1, <1>7, ToolsUntouched
<1>9. b # CutShort
  BY DEF CutShort, Finish
<1> QED BY <1>1, <1>4, <1>6, <1>8, <1>9, ReflectsMore

LEMMA ToolReflects ==
  ASSUME NEW c, NEW P, NEW b, NEW Q, Awaits(c, P, b, Q), b.type = "tool",
         \A k \in Tools : ~ c.items[k].done,
         Identified(b.delta) => c.items[b.delta.index].index = 0,
         NEW d, d = PushTool(FinalizeReasoning(FlushThink(c)), b.delta)
  PROVE  Reflects(d, Q)
<1>1. /\ Going(c) /\ TextOpen(c) /\ Reflects(c, P) /\ b \in Blocks /\ OneMore(P, Q, b)
      /\ MirrorsTexts(c, P) /\ MirrorsTools(c, P)
  BY DEF Awaits, Reflects
<1> DEFINE delta == b.delta
           k == delta.index
           flushed == FlushThink(c)
           told == FinalizeReasoning(flushed)
<1>2. d = PushTool(told, delta)
  OBVIOUS
<1>3. delta \in ToolDeltas /\ k \in Tools /\ Log(delta.arguments)
  BY <1>1, BlocksAreLogs
<1>4. /\ Step(c, flushed, Texts)
      /\ Mirrors(flushed, ContentOf(P), ReasoningOf(P), Uninterrupted(P), FALSE)
      /\ Faithful(c, flushed)
  BY <1>1, FlushThinkStep, FlushThinkMirrors DEF MirrorsTexts
<1> HIDE DEF flushed
<1>5. /\ Step(flushed, told, {"reasoning"})
      /\ Mirrors(told, ContentOf(P), ReasoningOf(P), Uninterrupted(P), FALSE)
      /\ Faithful(flushed, told)
  <2>1. Going(flushed)
    BY <1>4 DEF Step
  <2> QED BY <1>4, <2>1, ReasoningFinalized, FinalizeReasoningMirrors
<1> HIDE DEF told
<1>6. \A j \in Tools : told.items[j] = c.items[j]
  BY <1>4, <1>5 DEF Step, Tools, Texts
<1>7. Going(told) /\ ~ told.items[k].done /\ (told.items[k].index # 0 => ~ Identified(delta))
  BY <1>3, <1>5, <1>6 DEF Step
<1>8. Step(told, d, {k}) /\ SameMode(told, d) /\ Hears(told, d, k, delta)
  BY <1>2, <1>3, <1>7, PushToolStep, PushToolTells
<1>9. d.items["text"] = told.items["text"] /\ d.items["reasoning"] = told.items["reasoning"]
      /\ OthersSame(told, d, k)
  BY <1>3, <1>8, OtherText DEF Step, OthersSame, Tools, Texts
<1>10. Mirrors(d, ContentOf(P), ReasoningOf(P), Uninterrupted(P), FALSE) /\ Faithful(told, d)
  <2>1. Inked(told)
    BY <1>5 DEF Mirrors
  <2>2. Becomes(told, d, Thought(told), Answer(told))
    BY <1>8, <1>9, <2>1 DEF Becomes, Hears, Inked, Thought, Answer, Texts
  <2> DEFINE C == ContentOf(P)
             R == ReasoningOf(P)
             U == Uninterrupted(P)
  <2>3. Mirrors(told, C, R, U, FALSE) /\ SameMode(told, d)
    BY <1>5, <1>8
  <2> HIDE DEF C, R, U
  <2>4. Mirrors(d, C, R, U, FALSE) /\ Faithful(told, d)
    BY ONLY <2>2, <2>3, MirrorsSame, Zenon
  <2> QED BY <2>4 DEF C, R, U
<1>11. Faithful(c, d)
  <2>1. Faithful(c, told)
    BY <1>4, <1>5, FaithfulOn
  <2> QED BY <1>10, <2>1, FaithfulOn
<1>12. /\ ContentOf(Q) = ContentOf(P) /\ Uninterrupted(Q) = Uninterrupted(P)
       /\ ReasoningOf(Q) = ReasoningOf(P)
       /\ NoTool(Q) <=> FALSE
  BY <1>1, TextsGrow, MirrorsLogs
<1>13. MirrorsTexts(d, Q)
  BY <1>10, <1>12, MirrorsAre
<1>14. MirrorsTools(d, Q)
  <2>1. MirrorsTools(told, P)
    BY <1>1, <1>6, SameToolsMirror
  <2>2. Identified(delta) => told.items[k].index = 0
    BY <1>7
  <2> QED BY <1>1, <1>3, <1>8, <1>9, <2>1, <2>2, ToolsHeard
<1>15. b # CutShort
  BY DEF CutShort, Finish
<1> QED BY <1>1, <1>11, <1>13, <1>14, <1>15, ReflectsMore

LEMMA FinishReflects ==
  ASSUME NEW c, NEW P, NEW b, NEW Q, Awaits(c, P, b, Q), b.type = "finish",
         NEW d, d = [c EXCEPT !.finishReason = b.reason]
  PROVE  Reflects(d, Q)
<1>1. /\ Going(c) /\ Reflects(c, P) /\ b \in Blocks /\ OneMore(P, Q, b)
      /\ MirrorsTexts(c, P) /\ MirrorsTools(c, P) /\ Tells(c)
  BY DEF Awaits, Reflects
<1>2. b = CutShort /\ b.reason = "length"
  BY <1>1, BlocksAreLogs DEF CutShort, Finish
<1>3. IsConverter(c)
  BY <1>1, GoingFacts DEF Formed, IsConverter
<1> DEFINE reason == b.reason
<1>4. d = [c EXCEPT !.finishReason = reason]
  OBVIOUS
<1> HIDE DEF reason
<1>5. /\ d.items = c.items /\ d.out = c.out /\ SameMode(c, d) /\ d.finishReason = reason
  BY <1>3, <1>4 DEF IsConverter, SameMode
<1>6. Mirrors(d, ContentOf(P), ReasoningOf(P), Uninterrupted(P), NoTool(P)) /\ Tells(d)
  <2>1. Tells(d)
    BY <1>1, <1>5 DEF Tells, DoneOnes
  <2>2. Inked(d) <=> Inked(c)
    BY <1>5 DEF Inked
  <2>3. Thought(d) = Thought(c) /\ Answer(d) = Answer(c)
    BY <1>5 DEF Thought, Answer
  <2> QED BY <1>1, <1>5, <2>1, <2>2, <2>3 DEF MirrorsTexts, Mirrors, SameMode
<1>7. /\ ContentOf(Q) = ContentOf(P) /\ Uninterrupted(Q) = Uninterrupted(P)
      /\ ReasoningOf(Q) = ReasoningOf(P)
      /\ NoTool(Q) <=> NoTool(P)
  BY <1>1, TextsGrow, MirrorsLogs
<1>8. MirrorsTexts(d, Q)
  BY <1>6, <1>7, MirrorsAre
<1>9. MirrorsTools(d, Q)
  BY <1>1, <1>5, ToolsUntouched
<1>10. Log(Q) /\ d.finishReason = Ending(Q)
  BY <1>1, <1>2, <1>5, Extended, EndingGrows DEF reason
<1> QED BY <1>6, <1>8, <1>9, <1>10 DEF Reflects

\* A block that is not the end is handled.
LEMMA HandledReflects ==
  ASSUME NEW c, NEW b, Expected(c, b), b.type \notin {"[DONE]", "error"},
         NEW P, Reflects(c, P), NEW Q, OneMore(P, Q, b), NEW d, d = HandleBlock(c, b)
  PROVE  Reflects(d, Q)
<1> DEFINE chunk == EnsureStarted(c)
<1>1. /\ Whole(c) /\ ~ c.completed /\ Resting(c) /\ b \in Blocks
      /\ b.type = "reasoning" => c.mode # "text"
      /\ b.type = "tool" /\ Identified(b.delta) => c.items[b.delta.index].index = 0
  BY DEF Expected
<1>2. Going(chunk) /\ SameMode(c, chunk) /\ chunk.items = c.items
  BY <1>1, StartedStep
<1>3. Reflects(chunk, P)
  BY <1>1, StartedReflects
<1>4. d = CASE b.type = "[DONE]" -> Finalize(c)
            [] b.type = "error" -> FailedInto(c)
            [] b.type = "reasoning" -> PushReasoning(chunk, ReasoningDelta)
            [] b.type = "content" -> PushContent(chunk, b.piece)
            [] b.type = "tool" ->
                 PushTool(FinalizeReasoning(FlushThink(chunk)), b.delta)
            [] b.type = "finish" -> [chunk EXCEPT !.finishReason = b.reason]
  BY DEF HandleBlock
<1> HIDE DEF chunk
<1>5. Awaits(chunk, P, b, Q) /\ \A k \in Tools : ~ chunk.items[k].done
  BY <1>1, <1>2, <1>3 DEF Awaits, Resting, TextOpen, SameMode
<1>6. CASE b.type = "reasoning"
  <2>1. d = PushReasoning(chunk, ReasoningDelta) /\ chunk.mode # "text"
    BY <1>1, <1>2, <1>4, <1>6 DEF SameMode
  <2> QED BY <1>5, <1>6, <2>1, ReasoningReflects
<1>7. CASE b.type = "content"
  <2>1. d = PushContent(chunk, b.piece)
    BY <1>4, <1>7
  <2> QED BY <1>5, <1>7, <2>1, ContentReflects
<1>8. CASE b.type = "tool"
  <2>1. d = PushTool(FinalizeReasoning(FlushThink(chunk)), b.delta)
    BY <1>4, <1>8
  <2>2. Identified(b.delta) => chunk.items[b.delta.index].index = 0
    BY <1>1, <1>2, <1>8
  <2> QED BY <1>5, <1>8, <2>1, <2>2, ToolReflects
<1>9. CASE b.type = "finish"
  <2>1. d = [chunk EXCEPT !.finishReason = b.reason]
    BY <1>4, <1>9
  <2> QED BY <1>5, <1>9, <2>1, FinishReflects
<1> QED BY <1>1, <1>6, <1>7, <1>8, <1>9, BlockKinds

\* The end of the answer brings nothing more.
LEMMA EndReflects ==
  ASSUME NEW c, NEW b \in Blocks, b.type \in {"[DONE]", "error"}, NEW P, Reflects(c, P),
         NEW Q, OneMore(P, Q, b)
  PROVE  Reflects(c, Q)
<1>1. Mirrors(c, ContentOf(P), ReasoningOf(P), Uninterrupted(P), NoTool(P))
      /\ MirrorsTexts(c, P) /\ MirrorsTools(c, P)
  BY DEF Reflects, MirrorsTexts
<1>2. b.type # "content" /\ b.type # "tool" /\ b.type # "reasoning"
  OBVIOUS
<1>3. /\ ContentOf(Q) = ContentOf(P) /\ Uninterrupted(Q) = Uninterrupted(P)
      /\ ReasoningOf(Q) = ReasoningOf(P)
      /\ NoTool(Q) <=> NoTool(P)
  BY <1>1, <1>2, TextsGrow, MirrorsLogs
<1>4. MirrorsTexts(c, Q)
  BY <1>1, <1>3, MirrorsAre
<1>5. MirrorsTools(c, Q)
  <2>1. \A k \in Tools : c.items[k] = c.items[k]
    OBVIOUS
  <2> QED BY <1>1, <1>2, <2>1, ToolsUntouched
<1>6. b # CutShort
  BY DEF CutShort, Finish
<1> QED BY <1>4, <1>5, <1>6, FaithfulSelf, ReflectsMore

-----------------------------------------------------------------------------
(* The end of an answer *)

\* The converter told all that it has of the blocks P.
Settled(c, P) ==
  /\ Going(c) /\ Tells(c) /\ AllDone(c) /\ c.finishReason = Ending(P) /\ c.mode = "text"
  /\ Mirrors(c, ContentOf(P), ReasoningOf(P), Uninterrupted(P), FALSE)
  /\ MirrorsTools(c, P)

LEMMA Settles ==
  ASSUME NEW c, Whole(c), ~ c.completed, Resting(c), NEW P, Reflects(c, P), NEW d,
         d = FinalizeTools(FinalizeText(FinalizeReasoning(FlushThink(EnsureStarted(c)))))
  PROVE  Settled(d, P)
<1> DEFINE started == EnsureStarted(c)
           flushed == FlushThink(started)
           reasoned == FinalizeReasoning(flushed)
           answered == FinalizeText(reasoned)
           C == ContentOf(P)
           R == ReasoningOf(P)
           U == Uninterrupted(P)
<1>1. d = FinalizeTools(answered)
  OBVIOUS
<1>2. Going(started) /\ SameMode(c, started) /\ started.items = c.items
  BY StartedStep
<1>3. TextOpen(started)
  BY <1>2 DEF Resting, TextOpen, SameMode
<1>4. Reflects(started, P)
  BY StartedReflects
<1> HIDE DEF started
<1>5. Mirrors(started, C, R, U, NoTool(P)) /\ MirrorsTools(started, P) /\ Tells(started)
      /\ started.finishReason = Ending(P)
  BY <1>4 DEF Reflects, MirrorsTexts
<1> HIDE DEF C, R, U
<1>6. Step(started, flushed, Texts) /\ flushed.mode = "text"
      /\ Mirrors(flushed, C, R, U, FALSE) /\ Faithful(started, flushed)
  BY <1>2, <1>3, <1>5, FlushThinkStep, FlushThinkMirrors
<1> HIDE DEF flushed
<1>7. /\ Step(flushed, reasoned, {"reasoning"}) /\ SameMode(flushed, reasoned)
      /\ reasoned.items["reasoning"].index # 0 => reasoned.items["reasoning"].done
  BY <1>6, ReasoningFinalized DEF Step
<1>8. Mirrors(reasoned, C, R, U, FALSE) /\ Faithful(flushed, reasoned)
  <2>1. Going(flushed)
    BY <1>6 DEF Step
  <2> QED BY <1>6, <2>1, FinalizeReasoningMirrors
<1> HIDE DEF reasoned
<1>9. /\ Step(reasoned, answered, {"text"}) /\ SameMode(reasoned, answered)
      /\ answered.items["text"].index # 0 => answered.items["text"].done
  BY <1>7, TextFinalized DEF Step
<1>10. Mirrors(answered, C, R, U, FALSE) /\ Faithful(reasoned, answered)
  <2>1. Going(reasoned)
    BY <1>7 DEF Step
  <2> QED BY <1>8, <2>1, FinalizeTextMirrors
<1> HIDE DEF answered
<1>11. /\ Step(answered, d, Tools) /\ SameMode(answered, d)
       /\ \A k \in Tools : d.items[k].index # 0 => d.items[k].done
  BY <1>1, <1>9, FinalizeToolsStep DEF Step
<1>12. Faithful(answered, d) /\ KeptAll(answered, d)
  <2>1. Going(answered)
    BY <1>9 DEF Step
  <2> QED BY <1>1, <2>1, FinalizeToolsTells
<1>13. d.items["text"] = answered.items["text"]
       /\ d.items["reasoning"] = answered.items["reasoning"]
       /\ answered.items["reasoning"] = reasoned.items["reasoning"]
  BY <1>9, <1>11, OtherText DEF Step, Tools, Texts
<1>14. Mirrors(d, C, R, U, FALSE)
  <2>1. Inked(answered)
    BY <1>10 DEF Mirrors
  <2>2. Becomes(answered, d, Thought(answered), Answer(answered))
    BY <1>12, <1>13, <2>1 DEF Becomes, Inked, Thought, Answer, Texts
  <2>3. Mirrors(answered, C, R, U, FALSE) /\ SameMode(answered, d)
    BY <1>10, <1>11
  <2>4. Mirrors(d, C, R, U, FALSE) /\ Faithful(answered, d)
    BY ONLY <2>2, <2>3, MirrorsSame, Zenon
  <2> QED BY <2>4
<1>15. Faithful(started, d)
  <2>1. Faithful(started, reasoned)
    BY <1>6, <1>8, FaithfulOn
  <2>2. Faithful(started, answered)
    BY <1>10, <2>1, FaithfulOn
  <2> QED BY <1>12, <2>2, FaithfulOn
<1>16. MirrorsTools(d, P)
  <2>1. \A k \in Tools : answered.items[k] = started.items[k]
    BY <1>6, <1>7, <1>9, OtherText DEF Step, Tools, Texts
  <2>2. MirrorsTools(answered, P)
    BY <1>5, <2>1, SameToolsMirror
  <2> QED BY <1>12, <2>2, KeptToolsMirror
<1>17. AllDone(d)
  <2>1. \A k \in Keys : k \in Tools \/ k = "reasoning" \/ k = "text"
    BY DEF Tools, Texts
  <2> QED BY <1>7, <1>9, <1>11, <1>13, <2>1 DEF AllDone
<1>18. d.mode = "text" /\ Going(d)
  BY <1>6, <1>7, <1>9, <1>11 DEF SameMode, Step
<1> QED BY <1>5, <1>14, <1>15, <1>16, <1>17, <1>18 DEF Settled, Faithful, C, R, U

-----------------------------------------------------------------------------
(* The items the client has whole *)

ItemsOf(h, kinds) ==
  {[kind |-> e.kind, id |-> e.id, content |-> e.content] :
     e \in {x \in DoneEvents(h) : x.kind \in kinds}}

LEMMA KindsDiffer ==
  ASSUME NEW k \in Texts, NEW kind, IsTextKind(k, kind), NEW j \in Keys, NEW it
  PROVE  KindOf(j, it) = kind <=> j = k
BY DEF KindOf, ToolKind, IsTextKind, Texts

\* A text that is done is told, as one item, unless it is empty.
LEMMA TextItems ==
  ASSUME NEW c, Going(c), Tells(c), AllDone(c), Inked(c), NEW k \in Texts, NEW kind,
         IsTextKind(k, kind)
  PROVE  ItemsOf(c.out, {kind}) = Item(kind, c.items[k].text)
<1>1. DoneEvents(c.out) = {DoneOf(j, c.items[j]) : j \in DoneOnes(c)}
  BY DEF Tells
<1>2. k \in Keys /\ Identities(c)
  BY GoingFacts, OtherText DEF Recorded
<1>3. \A j \in Keys : DoneOf(j, c.items[j]).kind = kind <=> j = k
  <2>1. \A j \in Keys : DoneOf(j, c.items[j]).kind = KindOf(j, c.items[j])
    BY DEF DoneOf
  <2> QED BY <2>1, KindsDiffer
<1> DEFINE e == DoneOf(k, c.items[k])
<1>4. {x \in DoneEvents(c.out) : x.kind \in {kind}}
        = IF k \in DoneOnes(c) THEN {e} ELSE {}
  <2>1. \A x \in DoneEvents(c.out) : x.kind = kind => k \in DoneOnes(c) /\ x = e
    BY <1>1, <1>3 DEF DoneOnes
  <2>2. k \in DoneOnes(c) => e \in DoneEvents(c.out) /\ e.kind = kind
    BY <1>1, <1>2, <1>3
  <2> HIDE DEF e
  <2> QED BY <2>1, <2>2
<1>5. e.kind = kind /\ e.id = <<kind>> /\ e.content = c.items[k].text
  BY <1>2, <1>3, TextKinds DEF DoneOf
<1> HIDE DEF e
<1>6. CASE c.items[k].done
  <2>1. c.items[k].text # <<>>
    BY <1>2, <1>6 DEF Identities, Inked
  <2>2. {x \in DoneEvents(c.out) : x.kind \in {kind}} = {e}
    BY <1>2, <1>4, <1>6 DEF DoneOnes
  <2>3. ItemsOf(c.out, {kind})
          = {[kind |-> kind, id |-> <<kind>>, content |-> c.items[k].text]}
    <3>1. ItemsOf(c.out, {kind})
            = {[kind |-> x.kind, id |-> x.id, content |-> x.content] : x \in {e}}
      BY <2>2 DEF ItemsOf
    <3>2. [kind |-> e.kind, id |-> e.id, content |-> e.content]
            = [kind |-> kind, id |-> <<kind>>, content |-> c.items[k].text]
      BY <1>5
    <3> DEFINE it == [kind |-> e.kind, id |-> e.id, content |-> e.content]
    <3>3. {[kind |-> x.kind, id |-> x.id, content |-> x.content] : x \in {e}} = {it}
      OBVIOUS
    <3> HIDE DEF it
    <3>4. it = [kind |-> kind, id |-> <<kind>>, content |-> c.items[k].text]
      BY <3>2 DEF it
    <3> QED BY ONLY <3>1, <3>3, <3>4
  <2> QED BY <2>1, <2>3 DEF Item
<1>7. CASE ~ c.items[k].done
  <2>1. c.items[k].text = <<>>
    BY <1>2, <1>7 DEF AllDone, Identities
  <2>2. {x \in DoneEvents(c.out) : x.kind \in {kind}} = {}
    BY <1>4, <1>7 DEF DoneOnes
  <2>3. ItemsOf(c.out, {kind}) = {}
    BY <2>2 DEF ItemsOf
  <2> QED BY <2>1, <2>3 DEF Item
<1> QED BY <1>6, <1>7

\* A call that a delta named is told with all its arguments.
LEMMA CallItems ==
  ASSUME NEW c, Going(c), Tells(c), AllDone(c), NEW P, \A n \in DOMAIN P : P[n] \in Blocks,
         MirrorsTools(c, P)
  PROVE  WholeCalls(P) \subseteq ItemsOf(c.out, {"custom_tool_call", "function_call"})
<1> DEFINE kinds == {"custom_tool_call", "function_call"}
<1>1. ASSUME NEW n \in Naming(P)
      PROVE  WholeCall(P, P[n].delta) \in ItemsOf(c.out, kinds)
  <2> DEFINE delta == P[n].delta
             k == delta.index
             it == c.items[k]
             e == DoneOf(k, it)
  <2>1. k \in Tools
    <3>1. P[n].type = "tool" /\ P[n] \in Blocks
      BY <1>1 DEF Naming
    <3> QED BY <3>1, BlocksAreLogs
  <2>2. IsNamed(it, delta) /\ it.text = ArgumentsOf(P, k)
    <3>1. MirrorsTool(it, P, k)
      BY <2>1 DEF MirrorsTools
    <3> QED BY <3>1 DEF MirrorsTool
  <2>3. it.done
    BY <2>1, <2>2 DEF IsNamed, AllDone, Tools
  <2>4. e \in DoneEvents(c.out)
    BY <2>1, <2>3 DEF Tells, DoneOnes, Tools
  <2>5. /\ e.kind = ToolKind(delta.name) /\ e.id = ToolId(delta.name, CallId(delta))
        /\ e.content = ToolContent(delta.name, ArgumentsOf(P, k))
    <3>1. KindOf(k, it) = ToolKind(it.name) /\ IdOf(k, it) = ToolId(it.name, it.call)
      BY <2>1, ToolKeys DEF Tools
    <3>2. k \notin Texts
      BY <2>1 DEF Tools
    <3> QED BY <2>2, <3>1, <3>2 DEF DoneOf, IsNamed
  <2>6. e.kind \in kinds
    BY <2>5 DEF ToolKind
  <2>7. WholeCall(P, delta) = [kind |-> e.kind, id |-> e.id, content |-> e.content]
    BY <2>5 DEF WholeCall
  <2> HIDE DEF e, delta, kinds
  <2> QED BY <2>4, <2>6, <2>7 DEF ItemsOf, delta
<1> QED BY <1>1 DEF WholeCalls

-----------------------------------------------------------------------------
(* The whole answer *)

Completions(h) == {e \in Range(h) : e.type = "completed"}

\* What StreamedAsWhole says, of the log h and the blocks P.
AsWhole(h, P) ==
  LET thinks == IsPrefix(OpenTag, TrimLeft(ContentOf(P)))
      thought == Item("reasoning", WholeReasoning(P))
      whole == Item("message", WholeText(P))
      answer == ItemsOf(h, {"message"})
  IN  Completions(h) # {} =>
        /\ \A e \in Completions(h) :
             e.status = IF CutShort \in Range(P) THEN "incomplete" ELSE "completed"
        /\ ~ thinks => ItemsOf(h, {"reasoning"}) = thought /\ answer = whole
        /\ thinks /\ ReasoningOf(P) = <<>> /\ HasThinkBlock(Uninterrupted(P)) =>
             /\ ItemsOf(h, {"reasoning"}) = thought
             /\ UNION {Item("message", TrimLeft(item.content)) : item \in answer} = whole
        /\ WholeCalls(P) \subseteq ItemsOf(h, {"custom_tool_call", "function_call"})

LEMMA StreamedMeans == StreamedAsWhole <=> AsWhole(conv.out, sent)
<1>1. Written("completed") = Completions(conv.out)
  BY DEF Written, Completions
<1>2. \A kinds : Items(kinds) = ItemsOf(conv.out, kinds)
  BY DEF Items, ItemsOf, Written, DoneEvents
<1> QED BY <1>1, <1>2 DEF StreamedAsWhole, AsWhole

LEMMA NeverWhole ==
  ASSUME NEW h, NeverCompleted(h), NEW P
  PROVE  AsWhole(h, P)
<1>1. Completions(h) = {}
  BY DEF Completions, NeverCompleted, Range
<1> QED BY <1>1 DEF AsWhole

\* The texts, when there is no think block and when there is one.
LEMMA TextsAsWhole ==
  ASSUME NEW P, NEW thought, NEW answer,
         Answered(thought, answer, ContentOf(P), ReasoningOf(P), Uninterrupted(P))
  PROVE  /\ ~ Opens(ContentOf(P)) => WholeReasoning(P) = thought /\ WholeText(P) = answer
         /\ ReasoningOf(P) = <<>> /\ HasThinkBlock(Uninterrupted(P)) =>
              WholeReasoning(P) = thought /\ WholeText(P) = TrimLeft(answer)
<1>1. ~ Opens(ContentOf(P)) => ~ HasThinkBlock(ContentOf(P))
  BY ThinkBlockOpens
<1> QED BY <1>1 DEF Answered, WholeReasoning, WholeText

LEMMA TrimmedItems ==
  ASSUME NEW answer
  PROVE  UNION {Item("message", TrimLeft(item.content)) : item \in Item("message", answer)}
           = Item("message", TrimLeft(answer))
<1>1. CASE answer = <<>>
  <2>1. Item("message", answer) = {} /\ Item("message", TrimLeft(answer)) = {}
    BY <1>1, TrimOfNone DEF Item
  <2> QED BY <2>1
<1>2. CASE answer # <<>>
  <2> DEFINE it == [kind |-> "message", id |-> <<"message">>, content |-> answer]
  <2>1. Item("message", answer) = {it} /\ it.content = answer
    BY <1>2 DEF Item
  <2> HIDE DEF it
  <2> QED BY <2>1
<1> QED BY <1>1, <1>2

LEMMA SettledIsWhole ==
  ASSUME NEW c, NEW P, Settled(c, P), \A n \in DOMAIN P : P[n] \in Blocks,
         NEW h, DoneEvents(h) = DoneEvents(c.out),
         \A e \in Completions(h) : e.status = ResponseStatus(c.finishReason)
  PROVE  AsWhole(h, P)
<1> DEFINE C == ContentOf(P)
           R == ReasoningOf(P)
           U == Uninterrupted(P)
<1>1. /\ Going(c) /\ Tells(c) /\ AllDone(c) /\ c.finishReason = Ending(P) /\ c.mode = "text"
      /\ Mirrors(c, C, R, U, FALSE) /\ MirrorsTools(c, P)
  BY DEF Settled
<1>2. Inked(c) /\ Answered(Thought(c), Answer(c), C, R, U)
  BY <1>1 DEF Mirrors
<1>3. \A kinds : ItemsOf(h, kinds) = ItemsOf(c.out, kinds)
  BY DEF ItemsOf
<1>4. ItemsOf(h, {"reasoning"}) = Item("reasoning", Thought(c))
  <2>1. IsTextKind("reasoning", "reasoning") /\ "reasoning" \in Texts
    BY DEF IsTextKind, Texts
  <2>2. ItemsOf(c.out, {"reasoning"}) = Item("reasoning", c.items["reasoning"].text)
    BY <1>1, <1>2, <2>1, TextItems
  <2> QED BY <1>3, <2>2 DEF Thought
<1>5. ItemsOf(h, {"message"}) = Item("message", Answer(c))
  <2>1. IsTextKind("text", "message") /\ "text" \in Texts
    BY DEF IsTextKind, Texts
  <2>2. ItemsOf(c.out, {"message"}) = Item("message", c.items["text"].text)
    BY <1>1, <1>2, <2>1, TextItems
  <2> QED BY <1>3, <2>2 DEF Answer
<1>6. WholeCalls(P) \subseteq ItemsOf(h, {"custom_tool_call", "function_call"})
  BY <1>1, <1>3, CallItems
<1>7. \A e \in Completions(h) :
        e.status = IF CutShort \in Range(P) THEN "incomplete" ELSE "completed"
  BY <1>1, Zenon DEF Ending, ResponseStatus, NoName
<1>8. /\ ~ Opens(C) => WholeReasoning(P) = Thought(c) /\ WholeText(P) = Answer(c)
      /\ R = <<>> /\ HasThinkBlock(U) =>
           WholeReasoning(P) = Thought(c) /\ WholeText(P) = TrimLeft(Answer(c))
  BY <1>2, TextsAsWhole
<1>9. Opens(C) <=> IsPrefix(OpenTag, TrimLeft(C))
  BY DEF Opens
<1>10. UNION {Item("message", TrimLeft(item.content)) : item \in ItemsOf(h, {"message"})}
         = Item("message", TrimLeft(Answer(c)))
  BY <1>5, TrimmedItems
<1> QED BY <1>4, <1>5, <1>6, <1>7, <1>8, <1>9, <1>10 DEF AsWhole

LEMMA FinalizeIsWhole ==
  ASSUME NEW c, Whole(c), ~ c.completed, Resting(c), NEW P, Reflects(c, P),
         \A n \in DOMAIN P : P[n] \in Blocks, NEW d, d = Finalize(c)
  PROVE  AsWhole(d.out, P)
<1> DEFINE all == FinalizeTools(FinalizeText(FinalizeReasoning(FlushThink(EnsureStarted(c)))))
           e == [type |-> "completed", status |-> ResponseStatus(all.finishReason),
                 output |-> CompletedItems(all)]
<1>1. d = Write([all EXCEPT !.completed = TRUE], e)
  BY DEF Finalize
<1>2. Settled(all, P)
  BY Settles
<1> HIDE DEF all
<1>3. IsConverter(all) /\ Log(all.out) /\ NeverCompleted(all.out)
  <2>1. Going(all)
    BY <1>2 DEF Settled
  <2> QED BY <2>1, GoingFacts, GoingIsNeverCompleted DEF Formed, IsConverter
<1>4. e.type # "done" /\ e.status = ResponseStatus(all.finishReason)
  OBVIOUS
<1> HIDE DEF e
<1>5. d.out = Append(all.out, e)
  BY <1>1, <1>3 DEF Write, IsConverter
<1>6. DoneEvents(d.out) = DoneEvents(all.out)
  <2>1. Log(all.out) /\ d.out = Append(all.out, e)
    BY <1>3, <1>5
  <2> QED BY ONLY <1>4, <2>1, DoneEventsGrow
<1>7. \A x \in Completions(d.out) : x = e
  <2>1. OneMore(all.out, d.out, e)
    BY <1>3, <1>5 DEF OneMore
  <2>2. /\ \A n \in DOMAIN all.out : d.out[n] = all.out[n]
        /\ DOMAIN all.out = 1 .. Len(all.out) /\ DOMAIN d.out = 1 .. Len(all.out) + 1
        /\ Len(all.out) \in Nat /\ d.out[Len(all.out) + 1] = e
    BY <2>1, Extended
  <2>3. \A n \in DOMAIN d.out : n \in DOMAIN all.out \/ n = Len(all.out) + 1
    BY <2>2
  <2> QED BY <1>3, <2>2, <2>3 DEF Completions, NeverCompleted, Range
<1>8. \A x \in Completions(d.out) : x.status = ResponseStatus(all.finishReason)
  BY <1>4, <1>7
<1> QED BY <1>2, <1>6, <1>8, SettledIsWhole

-----------------------------------------------------------------------------
(* The blocks that were handled *)

Handled == [n \in 1 .. HandledCount |-> sent[n]]

WholeInv == AnswerInv /\ (~ conv.completed => Reflects(conv, Handled)) /\ StreamedAsWhole

LEMMA HandledFacts ==
  ASSUME Placed
  PROVE  /\ Log(Handled) /\ Len(Handled) = HandledCount
         /\ \A n \in DOMAIN Handled : Handled[n] \in Blocks
<1>1. /\ HandledCount \in Nat /\ 1 .. HandledCount \subseteq 1 .. Len(sent)
      /\ \A n \in 1 .. Len(sent) : sent[n] \in Blocks
  BY CountFacts
<1>2. Handled = [n \in 1 .. HandledCount |-> Handled[n]]
  BY DEF Handled
<1>3. Log(Handled) /\ Len(Handled) = HandledCount
  BY <1>1, <1>2, IsALog
<1>4. \A n \in DOMAIN Handled : Handled[n] \in Blocks
  BY <1>1 DEF Handled
<1> QED BY <1>3, <1>4

LEMMA HandledStays ==
  ASSUME SameHandled
  PROVE  Handled' = Handled
<1>1. HandledCount' = HandledCount /\ \A n \in 1 .. HandledCount : sent'[n] = sent[n]
  BY DEF SameHandled
<1> QED BY <1>1 DEF Handled

\* All blocks were handled when none are left.
LEMMA HandledAll ==
  ASSUME Placed, HandledCount = Len(sent)
  PROVE  Handled = sent
<1>1. sent \in Seq(Blocks)
  BY DEF Placed
<1>2. sent = [n \in 1 .. Len(sent) |-> sent[n]]
  BY <1>1
<1> QED BY <1>2 DEF Handled

\* The same, after a step.
LEMMA HandledAllThen ==
  ASSUME Placed', HandledCount' = Len(sent')
  PROVE  Handled' = sent'
<1>1. sent' \in Seq(Blocks)
  BY DEF Placed
<1>2. sent' = [n \in 1 .. Len(sent') |-> sent'[n]]
  BY <1>1
<1> QED BY <1>2 DEF Handled

LEMMA HandledGrows ==
  ASSUME Placed, HandledCount + 1 \in 1 .. Len(sent), HandledCount' = HandledCount + 1,
         sent' = sent
  PROVE  OneMore(Handled, Handled', sent[HandledCount + 1])
<1> DEFINE h == HandledCount
           P == Handled
           b == sent[h + 1]
           Q == Append(P, b)
<1>1. h \in Nat /\ Log(P) /\ Len(P) = h
  BY HandledFacts, CountFacts
<1>2. OneMore(P, Q, b)
  BY <1>1 DEF OneMore
<1>3. Handled' = [n \in 1 .. h + 1 |-> sent[n]]
  BY DEF Handled
<1>4. \A n \in 1 .. h : P[n] = sent[n]
  BY DEF Handled
<1> HIDE DEF h, P, Q
<1>5. /\ Log(Q) /\ DOMAIN Q = 1 .. h + 1 /\ Q[h + 1] = b
      /\ \A n \in 1 .. h : Q[n] = sent[n]
  BY <1>1, <1>2, <1>4, Extended
<1>6. \A n \in 1 .. h + 1 : n \in 1 .. h \/ n = h + 1
  BY <1>1
<1>7. \A n \in 1 .. h + 1 : Q[n] = sent[n]
  BY <1>5, <1>6
<1>8. Q = [n \in 1 .. h + 1 |-> Q[n]]
  BY <1>5 DEF Log
<1>9. Handled' = Q
  BY <1>3, <1>7, <1>8
<1> QED BY <1>2, <1>9 DEF h, P

-----------------------------------------------------------------------------
(* The steps *)

\* StreamedMeans, after a step.
LEMMA StreamedMeansThen == StreamedAsWhole' <=> AsWhole(conv.out', sent')
<1>1. Written("completed")' = Completions(conv.out')
  BY DEF Written, Completions
<1>2. \A kinds : Items(kinds)' = ItemsOf(conv.out', kinds)
  BY DEF Items, ItemsOf, Written, DoneEvents
<1> QED BY <1>1, <1>2 DEF StreamedAsWhole, AsWhole

LEMMA WholeBegins == Init => WholeInv
<1>1. SUFFICES ASSUME Init PROVE WholeInv
  OBVIOUS
<1>2. AnswerInv
  BY <1>1, StreamBegins
<1>3. conv = NewConverter /\ sent = <<>> /\ wire = <<>> /\ buffer = <<>>
  BY <1>1 DEF Init
<1>4. /\ conv.items = [k \in Keys |-> NewItem] /\ conv.mode = "detecting"
      /\ conv.think = <<>> /\ conv.out = <<>> /\ conv.finishReason = NoName
  BY <1>3 DEF NewConverter
<1>5. \A k \in Keys : /\ conv.items[k].text = <<>> /\ conv.items[k].index = 0
                      /\ ~ conv.items[k].done
  BY <1>4 DEF NewItem
<1>6. Handled = <<>>
  <2>1. HandledCount = Len(sent)
    BY <1>2, <1>3, NothingLeft DEF AnswerInv
  <2> QED BY <1>2, <1>3, <2>1, HandledAll DEF AnswerInv
<1>7. /\ Log(<<>>) /\ ContentOf(<<>>) = <<>> /\ ReasoningOf(<<>>) = <<>>
      /\ Uninterrupted(<<>>) = <<>> /\ NoTool(<<>>) /\ Naming(<<>>) = {}
      /\ \A k : ArgumentsOf(<<>>, k) = <<>>
  BY EmptyLog, NothingBrought
<1>8. Tells(conv)
  <2>1. DoneEvents(conv.out) = {}
    BY <1>4, EmptyLog DEF DoneEvents, Range
  <2>2. DoneOnes(conv) = {}
    BY <1>5 DEF DoneOnes
  <2> QED BY <2>1, <2>2 DEF Tells
<1>9. conv.finishReason = Ending(<<>>)
  BY <1>4, EmptyLog DEF Ending, Range
<1>10. MirrorsTexts(conv, <<>>)
  <2>1. Decision(<<>>) = "need_more"
    BY NoThinkBlockInNone
  <2>2. Inked(conv) /\ Thought(conv) = <<>> /\ Answer(conv) = <<>>
    BY <1>5, <1>7, OtherText DEF Inked, Thought, Answer, Texts, Keys
  <2> QED BY <1>4, <1>7, <2>1, <2>2 DEF MirrorsTexts, Mirrors
<1>11. MirrorsTools(conv, <<>>)
  BY <1>5, <1>7 DEF MirrorsTools, MirrorsTool, Tools
<1>12. Reflects(conv, Handled)
  BY <1>6, <1>7, <1>8, <1>9, <1>10, <1>11 DEF Reflects
<1>13. StreamedAsWhole
  <2>1. NeverCompleted(conv.out)
    BY <1>4, EmptyLog DEF NeverCompleted
  <2> QED BY <2>1, NeverWhole, StreamedMeans
<1> QED BY <1>2, <1>12, <1>13 DEF WholeInv

\* Nothing that the converter knows changes.
LEMMA WholeStays ==
  ASSUME WholeInv, conv' = conv, sent' = sent, SameHandled
  PROVE  (~ conv'.completed => Reflects(conv', Handled')) /\ StreamedAsWhole'
<1>1. Handled' = Handled
  BY HandledStays
<1>2. ~ conv'.completed => Reflects(conv', Handled')
  BY <1>1 DEF WholeInv
<1>3. AsWhole(conv.out, sent)
  BY StreamedMeans DEF WholeInv
<1>4. StreamedAsWhole' <=> AsWhole(conv.out', sent')
  BY StreamedMeansThen
<1> QED BY <1>2, <1>3, <1>4

LEMMA WholeSends ==
  ASSUME WholeInv, NEW block \in Blocks, UpstreamSends(block)
  PROVE  (~ conv'.completed => Reflects(conv', Handled')) /\ StreamedAsWhole'
<1>1. /\ upstream = "open" /\ InOrder(block) /\ sent' = Append(sent, block)
      /\ wire' = Append(wire, block) /\ buffer' = buffer /\ conv' = conv
  BY DEF UpstreamSends
<1>2. AnswerInv /\ Placed /\ Looped /\ ToldOnce
  BY DEF WholeInv, AnswerInv
<1>3. SameHandled
  BY <1>2, Sends
<1>4. Handled' = Handled
  BY <1>3, HandledStays
<1>5. NeverCompleted(conv.out)
  <2>1. loop # "ended"
    BY <1>1, <1>2 DEF Looped
  <2>2. ~ WasHandled("[DONE]")
    <3>1. \A n \in 1 .. HandledCount : n \in DOMAIN sent
      <4>1. sent \in Seq(Blocks)
        BY <1>2 DEF Placed
      <4> QED BY <1>2, <4>1, CountFacts
    <3> QED BY <1>1, <3>1 DEF WasHandled, InOrder, HasSent
  <2> QED BY <1>2, <2>1, <2>2 DEF ToldOnce
<1>6. StreamedAsWhole'
  <2>1. AsWhole(conv'.out, sent')
    BY <1>1, <1>5, NeverWhole
  <2>2. StreamedAsWhole' <=> AsWhole(conv.out', sent')
    BY StreamedMeansThen
  <2> QED BY <2>1, <2>2
<1> QED BY <1>1, <1>4, <1>6 DEF WholeInv

LEMMA WholePushes ==
  ASSUME WholeInv, PushBytes
  PROVE  (~ conv'.completed => Reflects(conv', Handled')) /\ StreamedAsWhole'
<1> DEFINE block == Head(buffer)
           h == HandledCount
<1>1. loop = "handling" /\ conv' = HandleBlock(conv, block) /\ sent' = sent
  BY DEF PushBytes
<1>2. AnswerInv /\ Placed /\ Ordered /\ Looped /\ Whole(conv) /\ Converted
      /\ (~ conv.completed => Reflects(conv, Handled)) /\ StreamedAsWhole
  BY DEF WholeInv, AnswerInv
<1>3. /\ h + 1 \in 1 .. Len(sent) /\ h \in Nat /\ block = sent[h + 1] /\ block \in Blocks
      /\ HandledCount' = h + 1 /\ Placed'
  BY <1>1, <1>2, HandlesNext
<1>4. OneMore(Handled, Handled', block)
  BY <1>1, <1>2, <1>3, HandledGrows
<1>5. ~ conv.completed => Expected(conv, block)
  BY <1>2, PushExpected
<1> HIDE DEF block
<1>6. StreamedAsWhole' <=> AsWhole(conv.out', sent')
  BY StreamedMeansThen
<1>7. CASE conv.completed
  <2>1. block.type = "[DONE]"
    <3>1. PICK n \in 1 .. h : sent[n].type \in {"[DONE]", "error"}
      BY <1>1, <1>2, <1>7 DEF Converted, WasHandled
    <3>2. n \in 1 .. Len(sent) /\ n < h + 1
      BY <1>3
    <3>3. MayFollow(sent[n], block)
      BY <1>2, <1>3, <3>2 DEF Ordered
    <3> QED BY <3>1, <3>3 DEF MayFollow
  <2>2. conv' = conv
    BY <1>1, <1>7, <2>1 DEF HandleBlock, Finalize
  <2>3. AsWhole(conv.out, sent)
    BY <1>2, StreamedMeans
  <2> QED BY <1>1, <1>6, <1>7, <2>2, <2>3
<1>8. CASE ~ conv.completed
  <2>1. Expected(conv, block) /\ Reflects(conv, Handled)
    BY <1>2, <1>5, <1>8
  <2>2. After(conv, conv', block)
    BY <1>1, <2>1, HandleBlockStep
  <2>3. CASE block.type \notin {"[DONE]", "error"}
    <3>1. Reflects(conv', Handled')
      BY <1>1, <1>4, <2>1, <2>3, HandledReflects
    <3>2. NeverCompleted(conv.out')
      BY <2>2, <2>3 DEF After
    <3> QED BY <1>6, <3>1, <3>2, NeverWhole
  <2>4. CASE block.type = "error"
    <3>1. NeverCompleted(conv.out') /\ conv'.completed
      BY <2>2, <2>4 DEF After
    <3> QED BY <1>6, <3>1, NeverWhole
  <2>5. CASE block.type = "[DONE]"
    <3>1. Reflects(conv, Handled')
      BY <1>3, <1>4, <2>1, <2>5, EndReflects
    <3>2. Handled' = sent'
      <4>1. Len(sent) = h + 1
        <5>1. Len(sent) \in Nat
          BY <1>2, CountFacts
        <5>2. SUFFICES ASSUME h + 1 < Len(sent) PROVE FALSE
          BY <1>3, <5>1
        <5>3. MayFollow(sent[h + 1], sent[Len(sent)])
          BY <1>2, <1>3, <5>1, <5>2 DEF Ordered
        <5> QED BY <1>3, <2>5, <5>3 DEF MayFollow
      <4> QED BY <1>1, <1>3, <4>1, HandledAllThen
    <3>3. conv' = Finalize(conv)
      BY <1>1, <2>5 DEF HandleBlock
    <3>4. \A n \in DOMAIN sent' : sent'[n] \in Blocks
      BY <1>3 DEF Placed
    <3>5. Whole(conv) /\ Resting(conv)
      BY <2>1 DEF Expected
    <3>6. AsWhole(conv.out', Handled')
      BY <1>8, <3>1, <3>2, <3>3, <3>4, <3>5, FinalizeIsWhole
    <3>7. conv'.completed
      BY <2>2, <2>5 DEF After
    <3> QED BY <1>6, <3>2, <3>6, <3>7
  <2> QED BY <2>3, <2>4, <2>5
<1> QED BY <1>7, <1>8

LEMMA WholeFinishes ==
  ASSUME WholeInv, FinishStream
  PROVE  (~ conv'.completed => Reflects(conv', Handled')) /\ StreamedAsWhole'
<1>1. /\ wire = <<>> /\ loop = "reading" /\ sent' = sent /\ wire' = wire /\ buffer' = buffer
      /\ conv' = IF conv.failed THEN conv ELSE Finalize(conv)
  BY DEF FinishStream
<1>2. AnswerInv /\ Placed /\ Ordered /\ Looped /\ Whole(conv) /\ Converted
      /\ (~ conv.completed => Reflects(conv, Handled)) /\ StreamedAsWhole
  BY DEF WholeInv, AnswerInv
<1>3. CASE conv.completed
  <2>1. conv' = conv
    BY <1>1, <1>3 DEF Finalize
  <2>2. SameHandled
    BY <1>1, <1>2, BlocksStay
  <2> QED BY <1>1, <2>1, <2>2, WholeStays
<1>4. CASE ~ conv.completed
  <2>1. ~ conv.failed /\ Resting(conv) /\ buffer = <<>>
    BY <1>1, <1>2, <1>4 DEF Converted, Looped
  <2>2. conv' = Finalize(conv)
    BY <1>1, <2>1
  <2>3. Handled = sent
    BY <1>1, <1>2, <2>1, NothingLeft, HandledAll
  <2>4. \A n \in DOMAIN Handled : Handled[n] \in Blocks
    BY <1>2, HandledFacts
  <2>5. AsWhole(conv.out', Handled)
    BY <1>2, <1>4, <2>1, <2>2, <2>4, FinalizeIsWhole
  <2>6. StreamedAsWhole' <=> AsWhole(conv.out', sent')
    BY StreamedMeansThen
  <2>7. conv'.completed
    BY <1>2, <1>4, <2>1, <2>2, FinalizeStep
  <2> QED BY <1>1, <2>3, <2>5, <2>6, <2>7
<1> QED BY <1>3, <1>4

LEMMA WholeFails ==
  ASSUME WholeInv, FailStream
  PROVE  (~ conv'.completed => Reflects(conv', Handled')) /\ StreamedAsWhole'
<1>1. loop = "reading" /\ upstream = "broken" /\ conv' = FailedInto(conv)
  BY DEF FailStream
<1>2. Placed /\ Looped /\ Whole(conv) /\ Converted
  BY DEF WholeInv, AnswerInv
<1>3. ~ WasHandled("[DONE]") /\ ~ WasHandled("error")
  <2>1. \A n \in 1 .. HandledCount : n \in 1 .. Len(sent)
    BY <1>2, CountFacts
  <2> QED BY <1>1, <1>2, <2>1 DEF Looped, WasHandled
<1>4. ~ conv.completed
  BY <1>1, <1>2, <1>3 DEF Converted
<1>5. NeverCompleted(conv.out') /\ conv'.completed
  BY <1>1, <1>2, <1>4, FailedStep
<1> QED BY <1>5, NeverWhole, StreamedMeansThen

LEMMA WholeStep ==
  ASSUME ~ BreaksAfterEnd, WholeInv, [Next]_vars
  PROVE  WholeInv'
<1>1. AnswerInv /\ Placed /\ Ordered /\ AnswerInv'
  BY StreamStep DEF WholeInv, AnswerInv
<1> DEFINE told == (~ conv'.completed => Reflects(conv', Handled')) /\ StreamedAsWhole'
<1>2. ASSUME NEW block \in Blocks, UpstreamSends(block) PROVE told
  BY <1>2, WholeSends
<1>3. ASSUME UNCHANGED <<sent, wire, buffer, conv>> PROVE told
  <2>1. SameHandled
    BY <1>1, <1>3, BlocksStay
  <2> QED BY <1>3, <2>1, WholeStays
<1>4. ASSUME ReadPiece PROVE told
  <2>1. SameHandled
    BY <1>1, <1>4, Reads
  <2> QED BY <1>4, <2>1, WholeStays DEF ReadPiece
<1>5. ASSUME PushBytes PROVE told
  BY <1>5, WholePushes
<1>6. ASSUME FinishStream PROVE told
  BY <1>6, WholeFinishes
<1>7. ASSUME FailStream PROVE told
  BY <1>7, WholeFails
<1>8. UpstreamEnds \/ UpstreamBreaks \/ UNCHANGED vars => UNCHANGED <<sent, wire, buffer, conv>>
  BY DEF UpstreamEnds, UpstreamBreaks, vars
<1> HIDE DEF told
<1>9. told
  BY <1>2, <1>3, <1>4, <1>5, <1>6, <1>7, <1>8 DEF Next, Ended
<1> QED BY <1>1, <1>9 DEF WholeInv, told

-----------------------------------------------------------------------------
(* The theorems *)

(* However the blocks are cut into pieces and wherever the upstream stops, the *)
(* converter's state is well formed, and an answer that an error block or a    *)
(* broken connection ended is never told to the client as completed.           *)
THEOREM AnswerInvariance == ~ BreaksAfterEnd => (Spec => []Inv)
<1> SUFFICES ASSUME ~ BreaksAfterEnd PROVE Spec => []Inv
  OBVIOUS
<1>1. Init => AnswerInv
  BY StreamBegins
<1>2. AnswerInv /\ [Next]_vars => AnswerInv'
  BY StreamStep
<1>3. AnswerInv => Inv
  BY StreamMeansInv
<1> QED BY <1>1, <1>2, <1>3, PTL DEF Spec

(* Every run of the proxy's loop is a run of ResponsesStream for the client:    *)
(* items are announced once and in order, deltas belong to an open item, an     *)
(* item's content is what its deltas made, and nothing follows the event that   *)
(* ends the response, whose output is that of all the items that are done.      *)
THEOREM ProtocolKept == ~ BreaksAfterEnd => (Spec => ResponsesProtocol)
<1> SUFFICES ASSUME ~ BreaksAfterEnd PROVE Spec => ResponsesProtocol
  OBVIOUS
<1>1. Init => AnswerInv
  BY StreamBegins
<1>2. AnswerInv /\ [Next]_vars => AnswerInv'
  BY StreamStep
<1>3. Init => RS!Init
  BY NewConverterIsWhole DEF Init, RS!Init
<1>4. AnswerInv /\ [Next]_vars => [RS!LegalGrowth]_(conv.out)
  <2>1. SUFFICES ASSUME AnswerInv, [Next]_vars
                 PROVE  RS!LegalGrowth \/ conv.out' = conv.out
    OBVIOUS
  <2>2. LogGrows(conv, conv')
    BY <2>1, StreamStep
  <2> QED BY <2>2, GrowthIsLegal DEF LogGrows
<1> QED BY <1>1, <1>2, <1>3, <1>4, PTL DEF Spec, ResponsesProtocol, RS!Spec

(* The client of a completed stream has the answer that converting the whole   *)
(* message would have given it: however the content is cut, inside a think tag  *)
(* too, the reasoning and the answer are told whole (but for the cases that     *)
(* StreamedAsWhole leaves out), and so is every call that a delta named, with   *)
(* the status of the finish.                                                    *)
THEOREM WholeAnswer == ~ BreaksAfterEnd => (Spec => []StreamedAsWhole)
<1> SUFFICES ASSUME ~ BreaksAfterEnd PROVE Spec => []StreamedAsWhole
  OBVIOUS
<1>1. Init => WholeInv
  BY WholeBegins
<1>2. WholeInv /\ [Next]_vars => WholeInv'
  BY WholeStep
<1>3. WholeInv => StreamedAsWhole
  BY DEF WholeInv
<1> QED BY <1>1, <1>2, <1>3, PTL DEF Spec
=============================================================================
