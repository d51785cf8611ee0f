----------------------------- MODULE MonitorProofs -----------------------------
(***************************************************************************)
(* Proofs about Monitor, for every block tree, number of subscribers,      *)
(* retention limit, trail, and number of runs.                             *)
(***************************************************************************)
EXTENDS Monitor, SequenceTheorems, TLAPS

--------------------------------------------------------------------------------
(* Sequences. *)

\* A sequence without its last element.
LEMMA FrontProperties ==
    ASSUME NEW S, NEW s \in Seq(S), s # <<>>
    PROVE  /\ SubSeq(s, 1, Len(s) - 1) \in Seq(S)
           /\ Len(SubSeq(s, 1, Len(s) - 1)) = Len(s) - 1
           /\ \A i \in 1 .. Len(s) - 1 : SubSeq(s, 1, Len(s) - 1)[i] = s[i]
<1> DEFINE n == Len(s) - 1
           t == SubSeq(s, 1, n)
<1>1. Len(s) \in Nat /\ Len(s) > 0
  OBVIOUS
<1>2. n \in Nat
  BY <1>1
<1>3. \A i \in 1 .. n : s[i] \in S
  BY <1>1
<1> HIDE DEF n
<1>4. /\ t \in Seq(S)
      /\ Len(t) = IF 1 <= n THEN n - 1 + 1 ELSE 0
      /\ \A i \in 1 .. n - 1 + 1 : t[i] = s[1 + i - 1]
  BY <1>2, <1>3, SubSeqProperties
<1> HIDE DEF t
<1>5. Len(t) = n
  BY <1>2, <1>4
<1>6. ASSUME NEW i \in 1 .. n
      PROVE  t[i] = s[i]
  <2>1. i \in 1 .. n - 1 + 1 /\ 1 + i - 1 = i
    BY <1>2
  <2>2. QED
    BY <1>4, <2>1
<1>7. t \in Seq(S) /\ Len(t) = n /\ \A i \in 1 .. n : t[i] = s[i]
  BY <1>4, <1>5, <1>6
<1>8. QED
  BY <1>7 DEF n, t

--------------------------------------------------------------------------------
(* Paths of events. *)

\* The parent of a block of the tree is in the tree.
LEMMA ParentInBlocks == ASSUME NEW b \in Blocks PROVE Parent(b) \in Blocks
<1>1. b \in Seq(Nat) /\ Len(b) \in Nat /\ (b # <<>> => Len(b) > 0)
  BY BlocksAssumption
<1>2. CASE b = <<>>
  <2>1. 1 \in Int /\ Len(b) - 1 \in Int /\ Len(b) - 1 < 1
    BY <1>2
  <2>2. SubSeq(b, 1, Len(b) - 1) = <<>>
    BY <2>1, SubSeqEmpty
  <2>3. QED
    BY <2>2, BlocksAssumption DEF Parent
<1>3. CASE b # <<>>
  <2>1. Len(b) - 1 \in 0 .. Len(b)
    BY <1>1, <1>3
  <2>2. QED
    BY <2>1, BlocksAssumption DEF Parent
<1>4. QED
  BY <1>2, <1>3

\* An event of the model leads from a block to a block.
LEMMA EventEnds ==
    ASSUME NEW e \in Events
    PROVE  Src(e) \in Blocks /\ Dst(e) \in Blocks
BY ParentInBlocks DEF Events, Src, Dst

\* A path can be extended by an event that starts at its end.
LEMMA PathAppend ==
    ASSUME NEW s \in Seq(Events), NEW e \in Events, NEW p, NEW q,
           Path(s, p, q), Src(e) = q
    PROVE  Path(Append(s, e), p, Dst(e))
BY DEF Path, Linked

\* A segment of a path is a path.
LEMMA PathSegment ==
    ASSUME NEW s \in Seq(Events), NEW t \in Seq(Events), NEW p, NEW q, Path(s, p, q),
           NEW m \in Nat, m + Len(t) <= Len(s),
           \A i \in 1 .. Len(t) : t[i] = s[m + i]
    PROVE  /\ Linked(t)
           /\ t # <<>> => Path(t, Src(s[m + 1]), Dst(s[m + Len(t)]))
<1>1. Len(s) \in Nat /\ Len(t) \in Nat
  OBVIOUS
<1>2. ASSUME NEW i \in 1 .. Len(t) - 1
      PROVE  Dst(t[i]) = Src(t[i + 1])
  <2>1. /\ t[i] = s[m + i] /\ t[i + 1] = s[(m + i) + 1]
        /\ m + i \in 1 .. Len(s) - 1
    BY <1>1
  <2>2. QED
    BY <2>1 DEF Path, Linked
<1>3. Linked(t)
  BY <1>2 DEF Linked
<1>4. t # <<>> => Len(t) > 0
  BY <1>1
<1>5. QED
  BY <1>1, <1>3, <1>4 DEF Path

\* Without its last event a path ends where that event starts.
LEMMA PathFront ==
    ASSUME NEW s \in Seq(Events), s # <<>>, NEW p, NEW q, Path(s, p, q)
    PROVE  /\ SubSeq(s, 1, Len(s) - 1) \in Seq(Events)
           /\ Path(SubSeq(s, 1, Len(s) - 1), p, Src(s[Len(s)]))
<1> DEFINE t == SubSeq(s, 1, Len(s) - 1)
<1>1. Len(s) \in Nat /\ Len(s) > 0 /\ 0 \in Nat
  OBVIOUS
<1>2. /\ t \in Seq(Events)
      /\ Len(t) = Len(s) - 1
      /\ \A i \in 1 .. Len(t) : t[i] = s[0 + i]
  BY <1>1, FrontProperties
<1> HIDE DEF t
<1>3. Linked(t) /\ (t # <<>> => Path(t, Src(s[0 + 1]), Dst(s[0 + Len(t)])))
  <2>1. 0 + Len(t) <= Len(s)
    BY <1>1, <1>2
  <2>2. QED
    BY <1>1, <1>2, <2>1, PathSegment
<1>4. t # <<>> => Len(t) > 0
  BY <1>2
<1>5. CASE t = <<>>
  <2>1. Len(s) = 1
    BY <1>1, <1>2, <1>5
  <2>2. QED
    BY <1>2, <1>3, <1>5, <2>1 DEF Path, t
<1>6. CASE t # <<>>
  <2>1. Len(s) - 1 \in 1 .. Len(s) - 1 /\ (Len(s) - 1) + 1 = Len(s)
    BY <1>1, <1>2, <1>4, <1>6
  <2>2. Dst(s[Len(s) - 1]) = Src(s[Len(s)]) /\ Src(s[1]) = p
    BY <1>1, <2>1 DEF Path, Linked
  <2>3. QED
    BY <1>2, <1>3, <1>6, <2>2 DEF t
<1>7. QED
  BY <1>5, <1>6

\* Without its first event a path starts where that event ends.
LEMMA PathTail ==
    ASSUME NEW s \in Seq(Events), s # <<>>, NEW p, NEW q, Path(s, p, q)
    PROVE  /\ Head(s) \in Events /\ Tail(s) \in Seq(Events)
           /\ Src(Head(s)) = p
           /\ Path(Tail(s), Dst(Head(s)), q)
<1> DEFINE t == Tail(s)
<1>1. Len(s) \in Nat /\ Len(s) > 0 /\ Head(s) = s[1] /\ Head(s) \in Events
  OBVIOUS
<1>2. /\ t \in Seq(Events)
      /\ Len(t) = Len(s) - 1
      /\ \A i \in 1 .. Len(t) : t[i] = s[1 + i]
  BY <1>1, HeadTailProperties
<1> HIDE DEF t
<1>3. Linked(t) /\ (t # <<>> => Path(t, Src(s[1 + 1]), Dst(s[1 + Len(t)])))
  BY <1>1, <1>2, PathSegment
<1>4. Src(s[1]) = p /\ Dst(s[Len(s)]) = q
  BY DEF Path
<1>5. CASE t = <<>>
  <2>1. Len(s) = 1
    BY <1>1, <1>2, <1>5
  <2>2. Path(t, Dst(s[1]), q)
    BY <1>3, <1>4, <1>5, <2>1 DEF Path
  <2>3. QED
    BY <1>1, <1>2, <1>4, <2>2 DEF t
<1>6. CASE t # <<>>
  <2>1. 1 \in 1 .. Len(s) - 1 /\ 1 + Len(t) = Len(s)
    BY <1>1, <1>2, <1>6
  <2>2. Dst(s[1]) = Src(s[1 + 1])
    BY <2>1 DEF Path, Linked
  <2>3. QED
    BY <1>1, <1>2, <1>3, <1>4, <1>6, <2>1, <2>2 DEF t
<1>7. QED
  BY <1>5, <1>6

\* A path can be cut after any of its events.
LEMMA PathCut ==
    ASSUME NEW s \in Seq(Events), NEW n \in 1 .. Len(s), NEW p, NEW q, Path(s, p, q)
    PROVE  /\ SubSeq(s, 1, n) \in Seq(Events)
           /\ SubSeq(s, n + 1, Len(s)) \in Seq(Events)
           /\ Dst(s[n]) \in Blocks
           /\ Path(SubSeq(s, 1, n), p, Dst(s[n]))
           /\ Path(SubSeq(s, n + 1, Len(s)), Dst(s[n]), q)
<1> DEFINE t == SubSeq(s, 1, n)
           u == SubSeq(s, n + 1, Len(s))
<1>1. Len(s) \in Nat /\ n \in Nat /\ s # <<>> /\ s[n] \in Events
  OBVIOUS
<1>2. /\ t \in Seq(Events) /\ Len(t) = n /\ t # <<>>
      /\ \A i \in 1 .. Len(t) : t[i] = s[0 + i]
  BY <1>1, SubSeqProperties, ElementOfSeq
<1>3. /\ u \in Seq(Events) /\ Len(u) = Len(s) - n
      /\ \A i \in 1 .. Len(u) : u[i] = s[n + i]
  BY <1>1, SubSeqProperties, ElementOfSeq
<1> HIDE DEF t, u
<1>4. Path(t, Src(s[0 + 1]), Dst(s[0 + Len(t)]))
  <2>1. 0 \in Nat /\ 0 + Len(t) <= Len(s)
    BY <1>1, <1>2
  <2>2. QED
    BY <1>2, <2>1, PathSegment
<1>5. Linked(u) /\ (u # <<>> => Path(u, Src(s[n + 1]), Dst(s[n + Len(u)])))
  <2>1. n + Len(u) <= Len(s)
    BY <1>1, <1>3
  <2>2. QED
    BY <1>1, <1>3, <2>1, PathSegment
<1>6. Src(s[1]) = p /\ Dst(s[Len(s)]) = q
  BY <1>1 DEF Path
<1>7. Path(u, Dst(s[n]), q)
  <2>1. CASE u = <<>>
    BY <1>1, <1>3, <1>5, <1>6, <2>1 DEF Path
  <2>2. CASE u # <<>>
    <3>1. n \in 1 .. Len(s) - 1 /\ n + Len(u) = Len(s)
      BY <1>1, <1>3, <2>2
    <3>2. Dst(s[n]) = Src(s[n + 1])
      BY <3>1 DEF Path, Linked
    <3>3. QED
      BY <1>5, <1>6, <2>2, <3>1, <3>2
  <2>3. QED
    BY <2>1, <2>2
<1>8. QED
  BY <1>1, <1>2, <1>3, <1>4, <1>6, <1>7, EventEnds DEF t, u

\* Whether events form a path does not depend on their OK flags.
LEMMA PathSame ==
    ASSUME NEW s \in Seq(Events), NEW t \in Seq(Events), NEW p, NEW q, Path(s, p, q),
           Len(t) = Len(s),
           \A i \in 1 .. Len(s) : t[i].event = s[i].event /\ t[i].block = s[i].block
    PROVE  Path(t, p, q)
BY DEF Path, Linked, Src, Dst

\* Orphan changes OK flags and nothing else.
LEMMA OrphanSame ==
    ASSUME NEW s \in Seq(Events), NEW b \in Blocks
    PROVE  /\ Orphan(s, b) \in Seq(Events)
           /\ Len(Orphan(s, b)) = Len(s)
           /\ \A i \in 1 .. Len(s) : /\ Orphan(s, b)[i].event = s[i].event
                                     /\ Orphan(s, b)[i].block = s[i].block
<1> DEFINE t == Orphan(s, b)
<1>1. Len(s) \in Nat /\ DOMAIN s = 1 .. Len(s) /\ \A i \in 1 .. Len(s) : s[i] \in Events
  OBVIOUS
<1>2. \A i \in 1 .. Len(s) : t[i] \in Events /\ t[i].event = s[i].event /\ t[i].block = s[i].block
  BY <1>1 DEF Orphan, Events, OKStates
<1>3. DOMAIN t = 1 .. Len(s) /\ t = [i \in 1 .. Len(s) |-> t[i]]
  BY <1>1 DEF Orphan
<1> HIDE DEF t
<1>4. t \in [1 .. Len(s) -> Events]
  BY <1>2, <1>3
<1>5. t \in Seq(Events) /\ Len(t) = Len(s)
  BY <1>1, <1>4
<1>6. QED
  BY <1>2, <1>5 DEF t

\* MarkReady changes OK flags and nothing else.
LEMMA MarkReadySame ==
    ASSUME NEW s \in Seq(Events), NEW S
    PROVE  /\ MarkReady(s, S) \in Seq(Events)
           /\ Len(MarkReady(s, S)) = Len(s)
           /\ \A i \in 1 .. Len(s) : /\ MarkReady(s, S)[i].event = s[i].event
                                     /\ MarkReady(s, S)[i].block = s[i].block
<1> DEFINE t == MarkReady(s, S)
<1>1. Len(s) \in Nat /\ DOMAIN s = 1 .. Len(s) /\ \A i \in 1 .. Len(s) : s[i] \in Events
  OBVIOUS
<1>2. \A i \in 1 .. Len(s) : t[i] \in Events /\ t[i].event = s[i].event /\ t[i].block = s[i].block
  BY <1>1 DEF MarkReady, Events, OKStates
<1>3. DOMAIN t = 1 .. Len(s) /\ t = [i \in 1 .. Len(s) |-> t[i]]
  BY <1>1 DEF MarkReady
<1> HIDE DEF t
<1>4. t \in [1 .. Len(s) -> Events]
  BY <1>2, <1>3
<1>5. t \in Seq(Events) /\ Len(t) = Len(s)
  BY <1>1, <1>4
<1>6. QED
  BY <1>2, <1>5 DEF t

\* Pushing keeps at least the pushed block, on top.
LEMMA PushProperties ==
    ASSUME NEW c \in Seq(Events), NEW e \in Events
    PROVE  /\ Push(c, e) \in Seq(Events)
           /\ Push(c, e) # <<>>
           /\ ChainHead(Push(c, e)) = e
<1> DEFINE d == Append(c, e)
<1>1. /\ d \in Seq(Events) /\ d # <<>> /\ Len(d) = Len(c) + 1 /\ d[Len(c) + 1] = e
      /\ Len(c) \in Nat
  BY AppendProperties
<1>2. ChainRetention \in Nat /\ ChainRetention >= 2
  BY OptionsAssumption DEF ChainRetention, MonitorRetention, AtLeast
<1> HIDE DEF d
<1>3. CASE Len(d) > ChainRetention
  <2> DEFINE u == Tail(d)
  <2>1. /\ u \in Seq(Events) /\ Len(u) = Len(d) - 1
        /\ \A i \in 1 .. Len(u) : u[i] = d[i + 1]
    BY <1>1, HeadTailProperties
  <2> HIDE DEF u
  <2>2. Len(u) \in 1 .. Len(u) /\ Len(u) + 1 = Len(c) + 1
    BY <1>1, <1>2, <1>3, <2>1
  <2>3. u[Len(u)] = e /\ u # <<>>
    BY <1>1, <2>1, <2>2
  <2>4. QED
    BY <1>3, <2>1, <2>3 DEF Push, ChainHead, d, u
<1>4. CASE ~ (Len(d) > ChainRetention)
  BY <1>1, <1>4 DEF Push, ChainHead, d
<1>5. QED
  BY <1>3, <1>4

--------------------------------------------------------------------------------
(* Types. *)

\* The events the monitor builds are events.
LEMMA EventTypes ==
    ASSUME NEW b \in Blocks
    PROVE  AddedEvent(b) \in Events /\ RemovedEvent(b) \in Events
BY DEF AddedEvent, RemovedEvent, Events, OKStates

\* The variables have their types initially.
LEMMA InitTypeOK == Init => TypeOK
<1> SUFFICES ASSUME Init PROVE TypeOK
  OBVIOUS
<1>1. <<>> \in Seq(Events) /\ <<>> \in Seq(Blocks) /\ \A b \in Blocks : Len(b) \in Nat
  BY BlocksAssumption
<1>2. held \in [Runs -> Seq(Events)] /\ last \in [Subscribers -> Events \cup {Nil}]
  BY <1>1 DEF Init
<1>3. nodeHead \in Blocks /\ nodePeak \in Nat /\ heads \in Nat
  BY <1>1 DEF Init
<1>4. runs \in 0 .. MaxRuns /\ broadcasters \subseteq 1 .. runs
  BY MonitorAssumption DEF Init
<1>5. pc \in PCs /\ (pc \in {"build", "parent", "unwind"} <=> nextBlocks # <<>>)
  BY DEF Init, PCs
<1>6. stopped \in BOOLEAN /\ cancelled \subseteq 1 .. runs /\ lost \in BOOLEAN
  BY ZenonT(30) DEF Init
<1>7. QED
  BY <1>1, <1>2, <1>3, <1>4, <1>5, <1>6 DEF Init, TypeOK

\* While buildCanonicalChain executes there is a block to place.
LEMMA NextBlockType ==
    ASSUME TypeOK, pc \in {"build", "pop", "parent", "unwind"}
    PROVE  NextBlock \in Blocks /\ nextBlocks # <<>>
BY DEF TypeOK, NextBlock

\* What the types say of the runs.
LEMMA RunTypes ==
    ASSUME TypeOK
    PROVE  /\ runs \in Nat /\ MaxRuns \in Nat /\ runs <= MaxRuns
           /\ runs = 0 => pc = "off"
           /\ pc # "send" => pubEvents = <<>>
           /\ broadcasters \subseteq 1 .. runs
           /\ subscribers \subseteq Subscribers
<1>1. MaxRuns \in Nat
  BY MonitorAssumption
<1>2. QED
  BY <1>1 DEF TypeOK

\* A monitor that was run at most once.
LEMMA FirstRun ==
    ASSUME TypeOK, runs <= 1
    PROVE  runs \in 0 .. 1 /\ (runs = 1 => 1 \in Runs)
<1>1. runs \in Nat /\ MaxRuns \in Nat /\ runs <= MaxRuns
  BY RunTypes
<1>2. runs <= 1
  OBVIOUS
<1>3. QED
  BY ONLY <1>1, <1>2 DEF Runs

\* The types after a block was placed on the chain and its call returned.
LEMMA AddBlockTypes ==
    ASSUME TypeOK, NEW b \in Blocks, AddBlock(b)
    PROVE  /\ chain' \in Seq(Events) /\ events' \in Seq(Events) /\ queue' \in Seq(Events)
           /\ tip' \in Blocks
BY EventTypes, PushProperties, OrphanSame, AppendProperties DEF TypeOK, AddBlock

\* The types after a call of buildCanonicalChain returned.
LEMMA ReturnedTypes ==
    ASSUME TypeOK, nextBlocks # <<>>, Returned
    PROVE  /\ nextBlocks' \in Seq(Blocks)
           /\ pc' \in {"logs", "unwind"}
           /\ pc' = "unwind" <=> nextBlocks' # <<>>
<1> DEFINE t == SubSeq(nextBlocks, 1, Len(nextBlocks) - 1)
<1>1. nextBlocks \in Seq(Blocks) /\ Len(nextBlocks) \in Nat /\ Len(nextBlocks) > 0
  BY DEF TypeOK
<1>2. t \in Seq(Blocks) /\ Len(t) = Len(nextBlocks) - 1
  BY <1>1, FrontProperties
<1>3. nextBlocks' = t /\ pc' = IF Len(nextBlocks) = 1 THEN "logs" ELSE "unwind"
  BY DEF Returned
<1> HIDE DEF t
<1>4. t # <<>> <=> Len(t) # 0
  BY <1>2
<1>5. QED
  BY <1>1, <1>2, <1>3, <1>4

\* Every step preserves the types.
LEMMA NextTypeOK == TypeOK /\ [Next]_vars => TypeOK'
<1> SUFFICES ASSUME TypeOK, [Next]_vars PROVE TypeOK'
  OBVIOUS
<1> USE DEF TypeOK, PCs, node, sending, loop, life, subs
<1>1. CASE NodeHead
  <2>1. nodeHead' \in Blocks /\ nodePeak' \in Nat /\ heads' \in Nat
    <3>1. PICK b \in Blocks : /\ nodeHead' = b
                              /\ nodePeak' = IF Len(b) < nodePeak THEN nodePeak ELSE Len(b)
      BY <1>1 DEF NodeHead, AtLeast
    <3>2. Len(b) \in Nat
      BY BlocksAssumption
    <3>3. heads' = heads + 1
      BY <1>1 DEF NodeHead
    <3>4. QED
      BY <3>1, <3>2, <3>3
  <2>2. QED
    BY <1>1, <2>1 DEF NodeHead
<1>2. CASE Run
  <2>1. runs' = runs + 1 /\ runs' \in 0 .. MaxRuns /\ runs' # 0
    BY <1>2, MonitorAssumption DEF Run
  <2>2. nextBlockNumber' \in Int \cup {Nil}
    BY <1>2, MonitorAssumption, BlocksAssumption, FirstNumberAssumption
       DEF Run, StartNumbers, Number, ChainHead
  <2>3. broadcasters' \subseteq 1 .. runs'
    BY <1>2, <2>1 DEF Run
  <2>4. cancelled' \subseteq 1 .. runs'
    <3>1. cancelled' \subseteq cancelled \cup {runs + 1}
      BY <1>2 DEF Run
    <3>2. cancelled \subseteq 1 .. runs /\ runs \in Nat
      BY DEF TypeOK
    <3>3. QED
      BY <2>1, <3>1, <3>2
  <2>5. stopped' \in BOOLEAN
    <3>1. stopped' = (runs + 1 \in cancelled')
      BY <1>2 DEF Run
    <3>2. (runs + 1 \in cancelled') \in BOOLEAN
      OBVIOUS
    <3>3. QED
      BY ONLY <3>1, <3>2
  <2>6. QED
    BY <1>2, <2>1, <2>2, <2>3, <2>4, <2>5 DEF Run
<1>3. CASE NewHead
  <2>1. ASSUME chain # <<>> PROVE Number(ChainHead(chain).block) + 1 \in Int
    <3>1. ChainHead(chain) \in Events
      BY <2>1 DEF ChainHead
    <3>2. Len(ChainHead(chain).block) \in Nat
      BY ONLY <3>1, BlocksAssumption DEF Events
    <3>3. QED
      BY ONLY <3>2, FirstNumberAssumption DEF Number
  <2>2. nextBlockNumber' \in Int \cup {Nil}
    BY <1>3, <2>1 DEF NewHead
  <2>3. QED
    BY <1>3, <2>2 DEF NewHead
<1>4. CASE FetchNextBlock
  <2>1. PICK b \in Blocks : nextBlocks' = <<b>>
    <3>1. CASE nextBlockNumber = Nil
      BY <1>4, <3>1 DEF FetchNextBlock
    <3>2. CASE nextBlockNumber # Nil
      <4>1. /\ nextBlockNumber \in FirstNumber .. FirstNumber + Len(nodeHead)
            /\ nextBlocks' = <<SubSeq(nodeHead, 1, nextBlockNumber - FirstNumber)>>
        BY <1>4, <3>2 DEF FetchNextBlock, Number, OnBranch
      <4>2. Len(nodeHead) \in Nat
        BY BlocksAssumption
      <4>3. nextBlockNumber - FirstNumber \in 0 .. Len(nodeHead)
        BY ONLY <4>1, <4>2, FirstNumberAssumption
      <4>4. SubSeq(nodeHead, 1, nextBlockNumber - FirstNumber) \in Blocks
        BY <4>3, BlocksAssumption
      <4>5. QED
        BY <4>1, <4>4
    <3>3. QED
      BY <3>1, <3>2
  <2>2. nextBlocks' \in Seq(Blocks) /\ nextBlocks' # <<>>
    BY ONLY <2>1
  <2>3. QED
    BY <1>4, <2>2 DEF FetchNextBlock
<1>5. CASE FetchNextBlockFails
  BY <1>5 DEF FetchNextBlockFails
<1>6. CASE BuildCancelled
  BY <1>6 DEF BuildCancelled
<1>7. CASE BuildExtend
  <2>1. NextBlock \in Blocks /\ nextBlocks # <<>>
    BY <1>7, NextBlockType DEF BuildExtend
  <2> HIDE DEF TypeOK
  <2>2. /\ chain' \in Seq(Events) /\ events' \in Seq(Events) /\ queue' \in Seq(Events)
        /\ tip' \in Blocks
    BY <1>7, <2>1, AddBlockTypes DEF BuildExtend
  <2>3. /\ nextBlocks' \in Seq(Blocks) /\ pc' \in {"logs", "unwind"}
        /\ pc' = "unwind" <=> nextBlocks' # <<>>
    BY <1>7, <2>1, ReturnedTypes DEF BuildExtend
  <2>4. QED
    BY <1>7, <2>2, <2>3 DEF BuildExtend, TypeOK
<1>8. CASE BuildPop
  <2>1. chain # <<>> /\ ChainHead(chain) \in Events
    BY <1>8 DEF BuildPop, ChainHead
  <2>2. ChainHead(chain).block \in Blocks
    BY <2>1 DEF Events
  <2>3. Pop(chain) \in Seq(Events)
    BY <2>1, FrontProperties DEF Pop
  <2>4. Append(events, RemovedEvent(ChainHead(chain).block)) \in Seq(Events)
    BY <2>2, EventTypes, AppendProperties
  <2>5. QED
    BY <1>8, <2>2, <2>3, <2>4, ParentInBlocks DEF BuildPop
<1>9. CASE FetchParent
  <2>1. NextBlock \in Blocks
    BY <1>9, NextBlockType DEF FetchParent
  <2>2. /\ Append(nextBlocks, Parent(NextBlock)) \in Seq(Blocks)
        /\ Append(nextBlocks, Parent(NextBlock)) # <<>>
    <3>1. nextBlocks \in Seq(Blocks)
      OBVIOUS
    <3>2. Parent(NextBlock) \in Blocks
      BY <2>1, ParentInBlocks
    <3>3. QED
      BY ONLY <3>1, <3>2, AppendProperties
  <2>3. QED
    BY <1>9, <2>2 DEF FetchParent
<1>10. CASE FetchParentFails
  BY <1>10 DEF FetchParentFails
<1>11. CASE BuildUnwind
  <2>1. NextBlock \in Blocks /\ nextBlocks # <<>>
    BY <1>11, NextBlockType DEF BuildUnwind
  <2> HIDE DEF TypeOK
  <2>2. /\ chain' \in Seq(Events) /\ events' \in Seq(Events) /\ queue' \in Seq(Events)
        /\ tip' \in Blocks
    BY <1>11, <2>1, AddBlockTypes DEF BuildUnwind
  <2>3. /\ nextBlocks' \in Seq(Blocks) /\ pc' \in {"logs", "unwind"}
        /\ pc' = "unwind" <=> nextBlocks' # <<>>
    BY <1>11, <2>1, ReturnedTypes DEF BuildUnwind
  <2>4. QED
    BY <1>11, <2>2, <2>3 DEF BuildUnwind, TypeOK
<1>12. CASE FetchLogs
  <2>1. PICK S : /\ events' = MarkReady(events, S)
                 /\ chain' = MarkReady(chain, S)
                 /\ queue' = MarkReady(queue, S)
    BY <1>12 DEF FetchLogs
  <2>2. events' \in Seq(Events) /\ chain' \in Seq(Events) /\ queue' \in Seq(Events)
    <3>1. events \in Seq(Events) /\ chain \in Seq(Events) /\ queue \in Seq(Events)
      OBVIOUS
    <3>2. QED
      BY ONLY <2>1, <3>1, MarkReadySame
  <2>3. QED
    BY <1>12, <2>2 DEF FetchLogs
<1>13. CASE PublishSkip
  BY <1>13 DEF PublishSkip
<1>14. CASE PublishStart
  <2>1. ASSUME Trail > 0 PROVE Number(ChainHead(chain).block) - Trail \in Int
    <3>1. ChainHead(chain) \in Events
      BY <1>14, <2>1 DEF PublishStart, ChainHead
    <3>2. Len(ChainHead(chain).block) \in Nat
      BY ONLY <3>1, BlocksAssumption DEF Events
    <3>3. QED
      BY <3>2, FirstNumberAssumption, OptionsAssumption DEF Number
  <2>2. MaxBlockNum \in Nat
    BY <2>1, MonitorAssumption, OptionsAssumption DEF MaxBlockNum
  <2>3. QED
    BY <1>14, <2>2 DEF PublishStart
<1>15. CASE EnqueueEvent
  <2>1. Head(events) \in Events /\ Tail(events) \in Seq(Events)
    BY <1>15 DEF EnqueueEvent
  <2>2. Enqueue(queue, Head(events)) \in Seq(Events)
    BY <2>1, FrontProperties, AppendProperties DEF Enqueue, Cancels
  <2>3. QED
    BY <1>15, <2>1, <2>2 DEF EnqueueEvent
<1>16. CASE EnqueueRejects
  BY <1>16 DEF EnqueueRejects
<1>17. CASE EnqueueFull
  BY <1>17 DEF EnqueueFull
<1>18. CASE Dequeue
  BY <1>18 DEF Dequeue
<1>19. CASE DequeueNothing
  BY <1>19 DEF DequeueNothing
<1>20. CASE Stopped
  BY <1>20 DEF Stopped
<1>21. CASE RunReturns
  BY <1>21 DEF RunReturns, UnsubscribeAll
<1>22. ASSUME NEW r \in Runs, Receive(r) PROVE TypeOK'
  BY <1>22 DEF Receive
<1>23. ASSUME NEW r \in Runs, Broadcast(r) PROVE TypeOK'
  <2>1. held' \in [Runs -> Seq(Events)]
    BY <1>23 DEF Broadcast
  <2>2. last' \in [Subscribers -> Events \cup {Nil}]
    <3>1. held[r][Len(held[r])] \in Events
      BY <1>23 DEF Broadcast
    <3>2. QED
      BY <1>23, <3>1 DEF Broadcast
  <2>3. QED
    BY <1>23, <2>1, <2>2 DEF Broadcast
<1>24. ASSUME NEW r \in Runs, BroadcasterExits(r) PROVE TypeOK'
  BY <1>24 DEF BroadcasterExits
<1>25. ASSUME NEW s \in Subscribers, Subscribe(s) PROVE TypeOK'
  BY <1>25 DEF Subscribe
<1>26. ASSUME NEW s \in Subscribers, Unsubscribe(s) PROVE TypeOK'
  BY <1>26 DEF Unsubscribe
<1>27. CASE Stop
  BY <1>27 DEF Stop, UnsubscribeAll
<1>28. CASE CancelRunContext
  BY <1>28 DEF CancelRunContext
<1>29. CASE UNCHANGED vars
  BY <1>29 DEF vars
<1>30. CASE RunFails
  BY <1>30 DEF RunFails
<1>31. CASE BuildForks
  BY <1>31 DEF BuildForks
<1>32. CASE BuildPanics
  <2>1. nextBlocks' = <<>> /\ <<>> \in Seq(Blocks) /\ pc' = "panic"
    BY <1>32 DEF BuildPanics
  <2>2. QED
    BY <1>32, <2>1 DEF BuildPanics
<1>33. CASE PublishPanics
  <2>1. pc' = "panic" /\ nextBlocks = <<>> /\ nextBlocks' = <<>>
    BY <1>33 DEF PublishPanics
  <2>2. QED
    BY <1>33, <2>1 DEF PublishPanics
<1>34. CASE PurgeHistory
  BY <1>34 DEF PurgeHistory
<1> HIDE DEF TypeOK, PCs, node, sending, loop, life, subs
<1>35. QED
  BY <1>1, <1>2, <1>3, <1>4, <1>5, <1>6, <1>7, <1>8, <1>9, <1>10, <1>11, <1>12, <1>13,
     <1>14, <1>15, <1>16, <1>17, <1>18, <1>19, <1>20, <1>21, <1>22, <1>23, <1>24, <1>25,
     <1>26, <1>27, <1>28, <1>29, <1>30, <1>31, <1>32, <1>33, <1>34
     DEF Next, Fetch, Build, Publish, Broadcaster, Client

\* The types hold in every reachable state.
THEOREM TypeCorrect == Spec => []TypeOK
<1>1. Init => TypeOK
  BY InitTypeOK
<1>2. TypeOK /\ [Next]_vars => TypeOK'
  BY NextTypeOK
<1>3. QED
  BY <1>1, <1>2, PTL DEF Spec

--------------------------------------------------------------------------------
(***************************************************************************)
(* The inductive invariant.  The blocks buildCanonicalChain still has to   *)
(* place are each the parent of the one before, the chain is contiguous    *)
(* and ends in tip, and the events under way (held by the broadcaster,     *)
(* being sent, queued, in the sink) form one path of the block tree from   *)
(* what the subscribers were sent last to tip.                             *)
(***************************************************************************)

CallsInv ==
    /\ \A i \in 1 .. Len(nextBlocks) - 1 : nextBlocks[i + 1] = Parent(nextBlocks[i])
    /\ pc = "unwind" => tip = Parent(NextBlock)

ChainInv ==
    /\ Contiguous(chain)
    /\ \A i \in 1 .. Len(chain) : chain[i].event = Added
    /\ chain # <<>> => tip = ChainHead(chain).block

\* Unless PurgeHistory is called, there is a head wherever one is dereferenced.
HeadInv ==
    "PurgeHistory" \notin Calls =>
        /\ pc # "panic"
        /\ pc \in {"pop", "logs", "publish"} => chain # <<>>

\* Nothing was emitted yet; goroutines and subscribers that are gone hold nothing.
QuietInv ==
    /\ tip = Nil => /\ queue = <<>> /\ events = <<>> /\ pubEvents = <<>>
                    /\ \A r \in Runs : held[r] = <<>>
                    /\ \A s \in Subscribers : last[s] = Nil
    /\ \A r \in Runs : r \notin broadcasters => held[r] = <<>>
    /\ \A s \in Subscribers : s \notin subscribers => last[s] = Nil

Heads == Blocks \cup {Nil}

\* The sink leads from where the queue ends to tip.
QueueInv(p, q) == Path(queue, p, q) /\ Path(events, q, tip)

\* What is being delivered leads from what the subscribers saw to the queue.
DeliveryInv(p) ==
    \E a \in Heads :
        /\ \/ runs = 0 /\ a = p
           \/ runs = 1 /\ \E b \in Heads : /\ Path(held[1], a, b)
                                           /\ Path(pubEvents, b, p)
        /\ \A s \in Subscribers : last[s] # Nil => Dst(last[s]) = a

StreamInv ==
    ~ lost => /\ pc # "rejected"
              /\ \E p, q \in Heads : QueueInv(p, q) /\ (runs <= 1 => DeliveryInv(p))

IInv == TypeOK /\ CallsInv /\ ChainInv /\ HeadInv /\ QuietInv /\ StreamInv

--------------------------------------------------------------------------------
(* The chain and the calls of buildCanonicalChain. *)

\* Pushing a block that fits keeps the chain contiguous, evicting the oldest or not.
LEMMA PushContiguous ==
    ASSUME NEW c \in Seq(Events), NEW b \in Blocks, Contiguous(c), CanPush(c, b),
           \A i \in 1 .. Len(c) : c[i].event = Added
    PROVE  LET d == Push(c, AddedEvent(b))
           IN  Contiguous(d) /\ \A i \in 1 .. Len(d) : d[i].event = Added
<1> DEFINE e == AddedEvent(b)
           d == Append(c, e)
<1>1. e \in Events /\ e.event = Added /\ e.block = b
  BY EventTypes DEF AddedEvent
<1> HIDE DEF e
<1>2. /\ d \in Seq(Events) /\ Len(c) \in Nat /\ Len(d) = Len(c) + 1
      /\ \A i \in 1 .. Len(c) : d[i] = c[i]
      /\ d[Len(c) + 1] = e
  BY <1>1, AppendProperties
<1> HIDE DEF d
<1>3. Contiguous(d)
  <2> SUFFICES ASSUME NEW i \in 1 .. Len(d) - 1
               PROVE  d[i].block = Parent(d[i + 1].block)
    BY DEF Contiguous
  <2>1. CASE i = Len(c)
    <3>1. c # <<>> /\ d[i] = c[Len(c)] /\ d[i + 1] = e
      BY <1>2, <2>1
    <3>2. QED
      BY <1>1, <3>1 DEF CanPush, ChainHead
  <2>2. CASE i # Len(c)
    <3>1. i \in 1 .. Len(c) - 1 /\ d[i] = c[i] /\ d[i + 1] = c[i + 1]
      BY <1>2, <2>2
    <3>2. QED
      BY <3>1 DEF Contiguous
  <2>3. QED
    BY <2>1, <2>2
<1>4. \A i \in 1 .. Len(d) : d[i].event = Added
  <2> SUFFICES ASSUME NEW i \in 1 .. Len(d) PROVE d[i].event = Added
    OBVIOUS
  <2>1. i = Len(c) + 1 \/ i \in 1 .. Len(c)
    BY <1>2
  <2>2. QED
    BY <1>1, <1>2, <2>1
<1>5. CASE Len(d) > ChainRetention
  <2> DEFINE u == Tail(d)
  <2>1. /\ u \in Seq(Events) /\ Len(u) = Len(d) - 1 /\ Len(u) \in Nat
        /\ \A i \in 1 .. Len(u) : u[i] = d[i + 1]
    BY <1>2, HeadTailProperties
  <2> HIDE DEF u
  <2>2. ASSUME NEW i \in 1 .. Len(u) - 1
        PROVE  u[i].block = Parent(u[i + 1].block)
    <3>1. u[i] = d[i + 1] /\ u[i + 1] = d[(i + 1) + 1] /\ i + 1 \in 1 .. Len(d) - 1
      BY <2>1
    <3>2. QED
      BY <1>3, <3>1 DEF Contiguous
  <2>3. \A i \in 1 .. Len(u) : u[i].event = Added
    BY <1>2, <1>4, <2>1
  <2>4. Push(c, e) = u
    BY <1>5 DEF Push, d, u
  <2>5. QED
    BY <2>2, <2>3, <2>4 DEF Contiguous, e
<1>6. CASE ~ (Len(d) > ChainRetention)
  <2>1. Push(c, e) = d
    BY <1>6 DEF Push, d
  <2>2. QED
    BY <1>3, <1>4, <2>1 DEF e
<1>7. QED
  BY <1>5, <1>6

\* Popping keeps the chain contiguous and uncovers the parent of the popped block.
LEMMA PopContiguous ==
    ASSUME NEW c \in Seq(Events), c # <<>>, Contiguous(c),
           \A i \in 1 .. Len(c) : c[i].event = Added
    PROVE  /\ Contiguous(Pop(c))
           /\ \A i \in 1 .. Len(Pop(c)) : Pop(c)[i].event = Added
           /\ Pop(c) # <<>> => ChainHead(Pop(c)).block = Parent(ChainHead(c).block)
<1> DEFINE d == Pop(c)
<1>1. /\ d \in Seq(Events) /\ Len(c) \in Nat /\ Len(d) = Len(c) - 1 /\ Len(d) \in Nat
      /\ \A i \in 1 .. Len(d) : d[i] = c[i]
  BY FrontProperties DEF Pop
<1> HIDE DEF d
<1>2. ASSUME NEW i \in 1 .. Len(d) - 1
      PROVE  d[i].block = Parent(d[i + 1].block)
  <2>1. d[i] = c[i] /\ d[i + 1] = c[i + 1] /\ i \in 1 .. Len(c) - 1
    BY <1>1
  <2>2. QED
    BY <2>1 DEF Contiguous
<1>3. \A i \in 1 .. Len(d) : d[i].event = Added
  BY <1>1
<1>4. ASSUME d # <<>>
      PROVE  ChainHead(d).block = Parent(ChainHead(c).block)
  <2>1. Len(d) > 0
    BY <1>1, <1>4
  <2>2. d[Len(d)] = c[Len(d)] /\ Len(d) \in 1 .. Len(c) - 1 /\ Len(d) + 1 = Len(c)
    BY <1>1, <2>1
  <2>3. QED
    BY <2>2 DEF Contiguous, ChainHead
<1>5. QED
  BY <1>2, <1>3, <1>4 DEF Contiguous, d

\* MarkReady keeps the blocks of the chain.
LEMMA MarkReadyContiguous ==
    ASSUME NEW c \in Seq(Events), NEW S, Contiguous(c),
           \A i \in 1 .. Len(c) : c[i].event = Added
    PROVE  /\ Contiguous(MarkReady(c, S))
           /\ \A i \in 1 .. Len(MarkReady(c, S)) : MarkReady(c, S)[i].event = Added
           /\ MarkReady(c, S) # <<>> => /\ c # <<>>
                                        /\ ChainHead(MarkReady(c, S)).block = ChainHead(c).block
<1> DEFINE d == MarkReady(c, S)
<1>1. /\ d \in Seq(Events) /\ Len(d) = Len(c) /\ Len(c) \in Nat
      /\ \A i \in 1 .. Len(c) : d[i].event = c[i].event /\ d[i].block = c[i].block
  BY MarkReadySame
<1> HIDE DEF d
<1>2. Contiguous(d) /\ \A i \in 1 .. Len(d) : d[i].event = Added
  BY <1>1 DEF Contiguous
<1>3. d # <<>> => c # <<>> /\ ChainHead(d).block = ChainHead(c).block
  BY <1>1 DEF ChainHead
<1>4. QED
  BY <1>2, <1>3 DEF d

\* Placing the block of the innermost call on a chain it fits, and returning, keeps
\* the chain and leaves the next caller with a block that fits.
LEMMA PlaceBlock ==
    ASSUME TypeOK, CallsInv, ChainInv, pc \in {"build", "unwind"},
           CanPush(chain, NextBlock), AddBlock(NextBlock), Returned
    PROVE  CallsInv' /\ ChainInv'
<1> DEFINE b == NextBlock
           e == AddedEvent(b)
           n == Len(nextBlocks)
<1>1. b \in Blocks /\ nextBlocks \in Seq(Blocks) /\ nextBlocks # <<>> /\ chain \in Seq(Events)
  BY NextBlockType DEF TypeOK
<1>2. n \in Nat /\ n > 0 /\ b = nextBlocks[n]
  BY <1>1 DEF NextBlock
<1>3. e \in Events /\ e.block = b
  BY <1>1, EventTypes DEF AddedEvent
<1>4. chain' \in Seq(Events) /\ chain' # <<>> /\ ChainHead(chain') = e
  BY <1>1, <1>3, PushProperties DEF AddBlock
<1>5. ChainInv'
  <2>1. Contiguous(chain') /\ \A i \in 1 .. Len(chain') : chain'[i].event = Added
    BY <1>1, PushContiguous DEF AddBlock, ChainInv
  <2>2. tip' = ChainHead(chain').block
    BY <1>3, <1>4 DEF AddBlock
  <2>3. QED
    BY <2>1, <2>2 DEF ChainInv
<1>6. /\ nextBlocks' \in Seq(Blocks) /\ Len(nextBlocks') = n - 1
      /\ \A i \in 1 .. n - 1 : nextBlocks'[i] = nextBlocks[i]
  BY <1>1, FrontProperties DEF Returned
<1>7. \A i \in 1 .. Len(nextBlocks') - 1 : nextBlocks'[i + 1] = Parent(nextBlocks'[i])
  <2> SUFFICES ASSUME NEW i \in 1 .. n - 2
               PROVE  nextBlocks'[i + 1] = Parent(nextBlocks'[i])
    BY <1>2, <1>6
  <2>1. nextBlocks'[i + 1] = nextBlocks[i + 1] /\ nextBlocks'[i] = nextBlocks[i]
    BY <1>2, <1>6
  <2>2. QED
    BY <1>2, <2>1 DEF CallsInv
<1>8. ASSUME pc' = "unwind"
      PROVE  tip' = Parent(nextBlocks'[Len(nextBlocks')])
  <2>1. n # 1
    BY <1>8 DEF Returned
  <2>2. n - 1 \in 1 .. n - 1 /\ nextBlocks'[n - 1] = nextBlocks[n - 1]
    BY <1>2, <1>6, <2>1
  <2>3. nextBlocks[(n - 1) + 1] = Parent(nextBlocks[n - 1])
    BY <1>2, <2>2 DEF CallsInv
  <2>4. b = Parent(nextBlocks[n - 1])
    BY <1>2, <2>3
  <2>5. QED
    BY <1>6, <2>2, <2>4 DEF AddBlock
<1>9. QED
  BY <1>5, <1>7, <1>8 DEF CallsInv, NextBlock

\* Every step keeps the chain contiguous and the calls of buildCanonicalChain aligned.
LEMMA BuildStep == TypeOK /\ CallsInv /\ ChainInv /\ [Next]_vars => CallsInv' /\ ChainInv'
<1> SUFFICES ASSUME TypeOK, CallsInv, ChainInv, [Next]_vars
             PROVE  CallsInv' /\ ChainInv'
  OBVIOUS
<1> USE DEF node, sending, loop, life, subs
<1>1. CASE UNCHANGED <<nextBlocks, chain, tip>> /\ (pc' = pc \/ pc' # "unwind")
  BY <1>1 DEF CallsInv, ChainInv, NextBlock
<1>2. CASE FetchNextBlock
  <2>1. Len(nextBlocks') = 1 /\ pc' = "build" /\ chain' = chain /\ tip' = tip
    BY <1>2 DEF FetchNextBlock
  <2>2. QED
    BY <2>1 DEF CallsInv, ChainInv
<1>3. CASE BuildCancelled \/ FetchParentFails \/ BuildPanics
  <2>1. nextBlocks' = <<>> /\ pc' # "unwind" /\ chain' = chain /\ tip' = tip
    BY <1>3 DEF BuildCancelled, FetchParentFails, BuildPanics
  <2>2. QED
    BY <2>1 DEF CallsInv, ChainInv
<1>4. CASE BuildExtend
  BY <1>4, PlaceBlock DEF BuildExtend
<1>5. CASE BuildUnwind
  BY <1>5, PlaceBlock DEF BuildUnwind
<1>6. CASE BuildPop
  <2>1. chain \in Seq(Events) /\ chain # <<>>
    BY <1>6 DEF BuildPop, TypeOK
  <2>2. /\ chain' = Pop(chain) /\ tip' = Parent(ChainHead(chain).block)
        /\ nextBlocks' = nextBlocks /\ pc' = "parent"
    BY <1>6 DEF BuildPop
  <2>3. ChainInv'
    BY <2>1, <2>2, PopContiguous DEF ChainInv
  <2>4. QED
    BY <2>2, <2>3 DEF CallsInv
<1>7. CASE FetchParent
  <2>1. NextBlock \in Blocks /\ nextBlocks \in Seq(Blocks) /\ nextBlocks # <<>>
    BY <1>7, NextBlockType DEF FetchParent, TypeOK
  <2>2. /\ nextBlocks' = Append(nextBlocks, Parent(NextBlock)) /\ pc' = "build"
        /\ chain' = chain /\ tip' = tip
    BY <1>7 DEF FetchParent
  <2>3. \A i \in 1 .. Len(nextBlocks') - 1 : nextBlocks'[i + 1] = Parent(nextBlocks'[i])
    BY <2>1, <2>2, ParentInBlocks DEF CallsInv, NextBlock
  <2>4. QED
    BY <2>2, <2>3 DEF CallsInv, ChainInv
<1>8. CASE FetchLogs
  <2>1. PICK S : chain' = MarkReady(chain, S)
    BY <1>8 DEF FetchLogs
  <2>2. chain \in Seq(Events) /\ nextBlocks' = nextBlocks /\ tip' = tip /\ pc' = "publish"
    BY <1>8 DEF FetchLogs, TypeOK
  <2>3. ChainInv'
    BY <2>1, <2>2, MarkReadyContiguous DEF ChainInv
  <2>4. QED
    BY <2>2, <2>3 DEF CallsInv
<1>9. CASE NodeHead \/ Run \/ RunFails \/ NewHead \/ FetchNextBlockFails \/ BuildForks
  BY <1>1, <1>9 DEF NodeHead, Run, RunFails, NewHead, FetchNextBlockFails, BuildForks
<1>10. CASE Publish
  BY <1>1, <1>10 DEF Publish, PublishSkip, PublishStart, PublishPanics, EnqueueEvent, EnqueueRejects,
                     EnqueueFull, Dequeue, DequeueNothing
<1>11. CASE Stopped \/ RunReturns
  BY <1>1, <1>11 DEF Stopped, RunReturns
<1>p. CASE PurgeHistory
  <2>1. chain' = <<>> /\ UNCHANGED <<nextBlocks, pc, tip>>
    BY <1>p DEF PurgeHistory
  <2>2. CallsInv'
    BY ONLY <2>1, CallsInv DEF CallsInv, NextBlock
  <2>3. ChainInv'
    BY ONLY <2>1 DEF ChainInv, Contiguous
  <2>4. QED
    BY <2>2, <2>3
<1>q. CASE Client
  BY <1>1, <1>p, <1>q DEF Client, Stop, CancelRunContext, Subscribe, Unsubscribe
<1>12. ASSUME NEW r \in Runs, Broadcaster(r) PROVE CallsInv' /\ ChainInv'
  BY <1>1, <1>12 DEF Broadcaster, Receive, Broadcast, BroadcasterExits
<1>13. CASE UNCHANGED vars
  BY <1>1, <1>13 DEF vars
<1>14. QED
  BY <1>2, <1>3, <1>4, <1>5, <1>6, <1>7, <1>8, <1>9, <1>10, <1>11, <1>12, <1>13, <1>q
     DEF Next, Fetch, Build

\* Every step keeps HeadInv.
LEMMA HeadStep == TypeOK /\ HeadInv /\ [Next]_vars => HeadInv'
<1> SUFFICES ASSUME TypeOK, HeadInv, [Next]_vars, "PurgeHistory" \notin Calls
             PROVE  /\ pc' # "panic"
                    /\ pc' \in {"pop", "logs", "publish"} => chain' # <<>>
  BY DEF HeadInv
<1> USE DEF node, sending, loop, life, subs
<1>1. /\ pc # "panic"
      /\ pc \in {"pop", "logs", "publish"} => chain # <<>>
  BY DEF HeadInv
<1>2. CASE BuildExtend \/ BuildUnwind
  <2>1. NextBlock \in Blocks /\ chain \in Seq(Events)
    BY <1>2, NextBlockType DEF BuildExtend, BuildUnwind, TypeOK
  <2>2. chain' # <<>>
    BY <1>2, <2>1, EventTypes, PushProperties DEF BuildExtend, BuildUnwind, AddBlock
  <2>3. QED
    BY <1>2, <2>2 DEF BuildExtend, BuildUnwind, Returned
<1>3. CASE FetchLogs
  <2>1. PICK S : chain' = MarkReady(chain, S)
    BY <1>3 DEF FetchLogs
  <2>2. chain \in Seq(Events) /\ chain # <<>> /\ pc' = "publish"
    BY <1>1, <1>3 DEF FetchLogs, TypeOK
  <2>3. Len(chain') = Len(chain) /\ chain' \in Seq(Events)
    BY <2>1, <2>2, MarkReadySame
  <2>4. QED
    BY <2>2, <2>3
<1>4. CASE BuildForks
  BY <1>4 DEF BuildForks, CanPush
<1>5. CASE BuildCancelled \/ BuildPop \/ BuildPanics \/ FetchParent \/ FetchParentFails
  BY <1>1, <1>5 DEF BuildCancelled, BuildPop, BuildPanics, FetchParent, FetchParentFails
<1>6. CASE NodeHead \/ Run \/ RunFails \/ Fetch
  BY <1>1, <1>6 DEF NodeHead, Run, RunFails, Fetch, NewHead, FetchNextBlock,
                    FetchNextBlockFails
<1>7. CASE Publish
  BY <1>1, <1>7, ZenonT(30) DEF Publish, PublishSkip, PublishStart, PublishPanics, EnqueueEvent,
                    EnqueueRejects, EnqueueFull, Dequeue, DequeueNothing
<1>8. CASE Stopped \/ RunReturns \/ Client
  BY <1>1, <1>8 DEF Stopped, RunReturns, Client, Stop, CancelRunContext, PurgeHistory,
                    Subscribe, Unsubscribe
<1>9. ASSUME NEW r \in Runs, Broadcaster(r)
      PROVE  /\ pc' # "panic"
             /\ pc' \in {"pop", "logs", "publish"} => chain' # <<>>
  BY <1>1, <1>9 DEF Broadcaster, Receive, Broadcast, BroadcasterExits
<1>10. CASE UNCHANGED vars
  BY <1>1, <1>10 DEF vars
<1>11. QED
  BY <1>2, <1>3, <1>4, <1>5, <1>6, <1>7, <1>8, <1>9, <1>10 DEF Next, Build

--------------------------------------------------------------------------------
(* What holds nothing. *)

\* The head of a chain is an event about a block.
LEMMA HeadType ==
    ASSUME NEW c \in Seq(Events), c # <<>>
    PROVE  ChainHead(c) \in Events /\ ChainHead(c).block \in Blocks
<1>1. ChainHead(c) \in Events
  BY DEF ChainHead
<1>2. QED
  BY <1>1 DEF Events

\* Every step keeps QuietInv: no event is anywhere before the first block, and
\* goroutines and subscribers that are gone hold nothing.
LEMMA QuietStep == TypeOK /\ QuietInv /\ [Next]_vars => QuietInv'
<1> SUFFICES ASSUME TypeOK, QuietInv, [Next]_vars PROVE QuietInv'
  OBVIOUS
<1> USE DEF node, sending, loop, life, subs
<1>1. CASE UNCHANGED <<tip, queue, events, pubEvents, held, broadcasters, subscribers, last>>
  BY <1>1, ZenonT(30) DEF QuietInv
<1>2. CASE NodeHead \/ RunFails \/ Fetch \/ BuildForks \/ BuildPanics \/ FetchParent
           \/ FetchParentFails \/ Stopped \/ CancelRunContext \/ PurgeHistory
  BY <1>1, <1>2, ZenonT(30) DEF NodeHead, RunFails, Fetch, NewHead, FetchNextBlock, FetchNextBlockFails,
                    BuildForks, BuildPanics, FetchParent, FetchParentFails, Stopped,
                    CancelRunContext, PurgeHistory
<1>3. CASE Run
  BY <1>3, ZenonT(30) DEF Run, QuietInv
<1>4. CASE BuildCancelled
  BY <1>4 DEF BuildCancelled, QuietInv
<1>5. CASE BuildExtend \/ BuildUnwind
  <2>1. NextBlock \in Blocks /\ tip' = NextBlock
    BY <1>5, NextBlockType DEF BuildExtend, BuildUnwind, AddBlock
  <2>2. tip' # Nil /\ UNCHANGED <<held, broadcasters, subscribers, last>>
    BY <1>5, <2>1, MonitorAssumption DEF BuildExtend, BuildUnwind
  <2>3. QED
    BY <2>2 DEF QuietInv
<1>6. CASE BuildPop
  <2>1. chain \in Seq(Events) /\ chain # <<>>
    BY <1>6 DEF BuildPop, TypeOK
  <2>2. ChainHead(chain).block \in Blocks
    BY <2>1, HeadType
  <2>3. tip' # Nil /\ UNCHANGED <<held, broadcasters, subscribers, last>>
    BY <1>6, <2>2, ParentInBlocks, MonitorAssumption DEF BuildPop
  <2>4. QED
    BY <2>3 DEF QuietInv
<1>7. CASE FetchLogs
  <2>1. PICK S : events' = MarkReady(events, S) /\ queue' = MarkReady(queue, S)
    BY <1>7 DEF FetchLogs
  <2>2. queue \in Seq(Events) /\ events \in Seq(Events)
    BY DEF TypeOK
  <2>3. /\ queue' \in Seq(Events) /\ Len(queue') = Len(queue)
        /\ events' \in Seq(Events) /\ Len(events') = Len(events)
    BY <2>1, <2>2, MarkReadySame
  <2>4. (queue = <<>> => queue' = <<>>) /\ (events = <<>> => events' = <<>>)
    BY <2>2, <2>3
  <2>5. UNCHANGED <<tip, pubEvents, held, broadcasters, subscribers, last>>
    BY <1>7 DEF FetchLogs
  <2>6. QED
    BY <2>4, <2>5 DEF QuietInv
<1>8. CASE PublishSkip
  BY <1>8 DEF PublishSkip, QuietInv
<1>9. CASE PublishStart \/ PublishPanics \/ EnqueueRejects \/ EnqueueFull \/ DequeueNothing
  BY <1>1, <1>9 DEF PublishStart, PublishPanics, EnqueueRejects, EnqueueFull, DequeueNothing
<1>10. CASE EnqueueEvent
  <2>1. tip # Nil /\ UNCHANGED <<tip, pubEvents, held, broadcasters, subscribers, last>>
    BY <1>10 DEF EnqueueEvent, QuietInv
  <2>2. QED
    BY <2>1 DEF QuietInv
<1>11. CASE Dequeue
  <2>1. PICK n \in 1 .. Len(queue) : TRUE
    BY <1>11 DEF Dequeue
  <2>2. queue # <<>>
    BY <2>1 DEF TypeOK
  <2>3. tip # Nil /\ UNCHANGED <<tip, held, broadcasters, subscribers, last>>
    BY <1>11, <2>2 DEF Dequeue, QuietInv
  <2>4. QED
    BY <2>3 DEF QuietInv
<1>12. CASE RunReturns
  BY <1>12 DEF RunReturns, UnsubscribeAll, QuietInv, TypeOK
<1>13. CASE Stop
  BY <1>13 DEF Stop, UnsubscribeAll, QuietInv, TypeOK
<1>14. ASSUME NEW s \in Subscribers, Subscribe(s) PROVE QuietInv'
  BY <1>14, ZenonT(30) DEF Subscribe, QuietInv
<1>15. ASSUME NEW s \in Subscribers, Unsubscribe(s) PROVE QuietInv'
  BY <1>15 DEF Unsubscribe, QuietInv, TypeOK
<1>16. ASSUME NEW r \in Runs, Receive(r) PROVE QuietInv'
  BY <1>16 DEF Receive, QuietInv, TypeOK
<1>17. ASSUME NEW r \in Runs, Broadcast(r) PROVE QuietInv'
  BY <1>17 DEF Broadcast, QuietInv, TypeOK
<1>18. ASSUME NEW r \in Runs, BroadcasterExits(r) PROVE QuietInv'
  BY <1>18 DEF BroadcasterExits, QuietInv
<1>19. CASE UNCHANGED vars
  BY <1>1, <1>19 DEF vars
<1>20. QED
  BY <1>2, <1>3, <1>4, <1>5, <1>6, <1>7, <1>8, <1>9, <1>10, <1>11, <1>12, <1>13, <1>14,
     <1>15, <1>16, <1>17, <1>18, <1>19
     DEF Next, Build, Publish, Broadcaster, Client

--------------------------------------------------------------------------------
(* The stream of events. *)

\* No events lead from a head to itself.
LEMMA EmptyPath == ASSUME NEW p PROVE Path(<<>>, p, p)
BY DEF Path, Linked

\* The end of a path that has events is a block, and so is its start.
LEMMA PathEnds ==
    ASSUME NEW s \in Seq(Events), s # <<>>, NEW p, NEW q, Path(s, p, q)
    PROVE  p \in Blocks /\ q \in Blocks
<1>1. s[1] \in Events /\ s[Len(s)] \in Events
  OBVIOUS
<1>2. QED
  BY <1>1, EventEnds DEF Path

\* Delivery does not change when nothing is handed over and subscribers at most leave.
LEMMA DeliveryFrame ==
    ASSUME NEW p, DeliveryInv(p), UNCHANGED <<runs, held, pubEvents>>,
           \A s \in Subscribers : last'[s] = last[s] \/ last'[s] = Nil
    PROVE  DeliveryInv(p)'
<1>1. PICK a \in Heads :
        /\ \/ runs = 0 /\ a = p
           \/ runs = 1 /\ \E b \in Heads : Path(held[1], a, b) /\ Path(pubEvents, b, p)
        /\ \A s \in Subscribers : last[s] # Nil => Dst(last[s]) = a
  BY ZenonT(30) DEF DeliveryInv
<1>2. \A s \in Subscribers : last'[s] # Nil => Dst(last'[s]) = a
  BY <1>1
<1>3. QED
  BY <1>1, <1>2, ZenonT(30) DEF DeliveryInv, Heads

\* What is on its way in the first run, as two paths.
LEMMA DeliveryPaths ==
    ASSUME NEW p, DeliveryInv(p), runs = 1
    PROVE  \E a, b \in Heads :
              /\ Path(held[1], a, b) /\ Path(pubEvents, b, p)
              /\ \A s \in Subscribers : last[s] # Nil => Dst(last[s]) = a
<1>1. PICK a \in Heads :
        /\ \/ runs = 0 /\ a = p
           \/ runs = 1 /\ \E b \in Heads : Path(held[1], a, b) /\ Path(pubEvents, b, p)
        /\ \A s \in Subscribers : last[s] # Nil => Dst(last[s]) = a
  BY DEF DeliveryInv
<1>2. PICK b \in Heads : Path(held[1], a, b) /\ Path(pubEvents, b, p)
  <2>1. ~ (runs = 0)
    OBVIOUS
  <2>2. QED
    BY <1>1, <2>1
<1>3. QED
  BY <1>1, <1>2

\* If nothing is on its way, delivery may start from any head.
LEMMA DeliveryEmpty ==
    ASSUME NEW p \in Heads, runs \in 0 .. 1, pubEvents = <<>>, runs = 1 => held[1] = <<>>,
           \A s \in Subscribers : last[s] = Nil
    PROVE  DeliveryInv(p)
<1>1. Path(<<>>, p, p)
  BY EmptyPath
<1>2. runs = 0 \/ runs = 1
  <2>1. runs \in 0 .. 1
    OBVIOUS
  <2>2. QED
    BY ONLY <2>1
<1>3. QED
  BY <1>1, <1>2 DEF DeliveryInv

\* A removal that follows the queued events undoes the last of them.
LEMMA RemovalFits ==
    ASSUME NEW s \in Seq(Events), NEW e \in Events, NEW p, NEW q, Path(s, p, q), Src(e) = q
    PROVE  /\ ~ Rejects(s, e)
           /\ Enqueue(s, e) \in Seq(Events)
           /\ Path(Enqueue(s, e), p, Dst(e))
<1>1. ~ Rejects(s, e)
  BY DEF Rejects, Path, Src, Dst, Added, Removed
<1>2. CASE Cancels(s, e)
  <2>1. s # <<>> /\ s[Len(s)].event = Added /\ s[Len(s)].block = e.block /\ e.event = Removed
    BY <1>2 DEF Cancels
  <2>2. Src(s[Len(s)]) = Dst(e)
    BY <2>1 DEF Src, Dst, Added, Removed
  <2>3. QED
    BY <1>1, <1>2, <2>1, <2>2, PathFront DEF Enqueue
<1>3. CASE ~ Cancels(s, e)
  BY <1>1, <1>3, PathAppend, AppendProperties DEF Enqueue
<1>4. QED
  BY <1>2, <1>3

\* An addition that attaches to the end of the sink extends it.
LEMMA AddBlockStream ==
    ASSUME TypeOK, NEW p, NEW q, NEW b \in Blocks,
           Path(queue, p, q), Path(events, q, Parent(b)), AddBlock(b)
    PROVE  QueueInv(p, q)'
<1> DEFINE e == AddedEvent(b)
<1>1. queue \in Seq(Events) /\ events \in Seq(Events)
  BY DEF TypeOK
<1>2. e \in Events /\ Src(e) = Parent(b) /\ Dst(e) = b
  BY EventTypes DEF AddedEvent, Src, Dst
<1>3. Path(Append(events, e), q, b)
  BY <1>1, <1>2, PathAppend
<1>4. Path(Orphan(queue, b), p, q)
  BY <1>1, OrphanSame, PathSame
<1>5. QED
  BY <1>3, <1>4 DEF AddBlock, QueueInv

\* Every step keeps StreamInv.  Apart from the steps that lose events, the sink grows
\* at its end, the queue takes from its front or cancels against it, and the
\* broadcaster takes from the front of the queue.
LEMMA StreamStep == TypeOK' /\ IInv /\ [Next]_vars => StreamInv'
<1> SUFFICES ASSUME TypeOK', IInv, [Next]_vars, ~ lost'
             PROVE  /\ pc' # "rejected"
                    /\ \E p, q \in Heads : QueueInv(p, q)' /\ (runs' <= 1 => DeliveryInv(p)')
  BY DEF StreamInv
<1> USE DEF node, sending, loop, life, subs
<1>a. TypeOK /\ CallsInv /\ ChainInv /\ QuietInv /\ StreamInv
  BY DEF IInv
<1>b. CASE lost
  BY <1>b, ZenonT(30) DEF Next, vars, Fetch, Build, Publish, Broadcaster, Client, NodeHead, Run, RunFails,
              NewHead, FetchNextBlock, FetchNextBlockFails, BuildCancelled, BuildExtend,
              BuildForks, BuildPop, BuildPanics, FetchParent, FetchParentFails, BuildUnwind,
              FetchLogs, PublishSkip, PublishStart, PublishPanics, EnqueueEvent, EnqueueRejects, EnqueueFull, Dequeue,
              DequeueNothing, Stopped, RunReturns, Receive, Broadcast, BroadcasterExits,
              Subscribe, Unsubscribe, Stop, CancelRunContext, PurgeHistory
<1>c. CASE ~ lost
  <2>1. pc # "rejected"
    BY <1>a, <1>c DEF StreamInv
  <2>2. PICK p \in Heads, q \in Heads : QueueInv(p, q) /\ (runs <= 1 => DeliveryInv(p))
    BY <1>a, <1>c DEF StreamInv
  <2>3. Path(queue, p, q) /\ Path(events, q, tip)
    BY <2>2 DEF QueueInv
  <2>4. queue \in Seq(Events) /\ events \in Seq(Events) /\ pubEvents \in Seq(Events)
    BY <1>a DEF TypeOK
  <2>5. CASE /\ UNCHANGED <<runs, held, pubEvents>>
             /\ \A s \in Subscribers : last'[s] = last[s] \/ last'[s] = Nil
             /\ pc' # "rejected"
             /\ QueueInv(p, q)'
    BY <2>2, <2>5, DeliveryFrame, ZenonT(30)
  <2>6. CASE /\ UNCHANGED <<queue, events, tip, runs, held, pubEvents>>
             /\ \A s \in Subscribers : last'[s] = last[s] \/ last'[s] = Nil
             /\ pc' # "rejected"
    BY <2>3, <2>5, <2>6, ZenonT(30) DEF QueueInv
  <2>7. CASE NodeHead \/ RunFails \/ Fetch \/ BuildForks \/ BuildPanics \/ FetchParent
             \/ FetchParentFails \/ PublishStart \/ PublishPanics \/ EnqueueFull
             \/ DequeueNothing \/ Stopped \/ CancelRunContext \/ PurgeHistory
             \/ UNCHANGED vars
    BY <2>1, <2>6, <2>7 DEF NodeHead, RunFails, Fetch, NewHead, FetchNextBlock,
                        FetchNextBlockFails, BuildForks, BuildPanics, FetchParent,
                        FetchParentFails, PublishStart, PublishPanics, EnqueueFull,
                        DequeueNothing, Stopped, CancelRunContext, PurgeHistory, vars
  <2>8. CASE Run
    <3>1. QueueInv(p, q)' /\ pc' # "rejected"
      BY <2>3, <2>8 DEF Run, QueueInv
    <3>2. ASSUME runs' <= 1 PROVE DeliveryInv(p)'
      <4>1. runs = 0 /\ runs' = 1 /\ 1 \in Runs /\ broadcasters = {} /\ pubEvents = <<>>
        <5>1. /\ runs \in Nat /\ MaxRuns \in Nat /\ broadcasters \subseteq 1 .. runs
              /\ pc # "send" => pubEvents = <<>>
          BY <1>a, RunTypes
        <5>2. pc = "off" /\ runs < MaxRuns /\ runs' = runs + 1
          BY <2>8 DEF Run
        <5>3. QED
          BY ONLY <3>2, <5>1, <5>2 DEF Runs
      <4>2. held[1] = <<>>
        BY <1>a, <4>1 DEF QuietInv
      <4>3. \A s \in Subscribers : last[s] # Nil => Dst(last[s]) = p
        <5>1. DeliveryInv(p) /\ runs = 0
          BY <2>2, <4>1
        <5>2. QED
          BY ONLY <5>1 DEF DeliveryInv
      <4>4. UNCHANGED <<held, pubEvents, last>>
        BY <2>8 DEF Run
      <4>5. QED
        BY <4>1, <4>2, <4>3, <4>4, EmptyPath, ZenonT(30) DEF DeliveryInv
    <3>3. QED
      BY <3>1, <3>2
  <2>9. CASE BuildCancelled
    <3>1. events = <<>> /\ events' = events
      BY <2>9 DEF BuildCancelled
    <3>2. QED
      BY <2>6, <2>9, <3>1 DEF BuildCancelled
  <2>10. CASE BuildExtend
    <3> DEFINE b == NextBlock
    <3>1. b \in Blocks /\ Parent(b) \in Heads
      BY <1>a, <2>10, NextBlockType, ParentInBlocks DEF BuildExtend, Heads
    <3>2. AddBlock(b) /\ UNCHANGED <<runs, held, pubEvents, last>> /\ pc' # "rejected"
      BY <2>10 DEF BuildExtend, Returned
    <3>3. CASE tip = Parent(b)
      <4>1. QueueInv(p, q)'
        BY <1>a, <2>3, <3>1, <3>2, <3>3, AddBlockStream
      <4>2. QED
        BY <2>5, <3>2, <4>1
    <3>4. CASE tip = Nil
      <4>1. /\ queue = <<>> /\ events = <<>> /\ pubEvents = <<>>
            /\ \A r \in Runs : held[r] = <<>>
            /\ \A s \in Subscribers : last[s] = Nil
        BY <1>a, <3>4 DEF QuietInv
      <4>2. PICK h \in Heads : h = Parent(b)
        BY <3>1
      <4>3. Path(queue, h, h) /\ Path(events, h, Parent(b))
        BY <4>1, <4>2, EmptyPath
      <4>4. QueueInv(h, h)'
        BY <1>a, <3>1, <3>2, <4>3, AddBlockStream
      <4>5. ASSUME runs <= 1 PROVE DeliveryInv(h)'
        <5>1. runs \in 0 .. 1 /\ (runs = 1 => 1 \in Runs)
          BY <1>a, <4>5, FirstRun
        <5>2. DeliveryInv(h)
          BY <4>1, <5>1, DeliveryEmpty, ZenonT(30)
        <5>3. QED
          BY <3>2, <5>2, DeliveryFrame
      <4>6. QED
        BY <3>2, <4>4, <4>5
    <3>5. QED
      BY <2>10, <3>3, <3>4 DEF BuildExtend
  <2>11. CASE BuildPop
    <3> DEFINE e == RemovedEvent(ChainHead(chain).block)
    <3>1. chain \in Seq(Events) /\ chain # <<>>
      BY <1>a, <2>11 DEF BuildPop, TypeOK
    <3>2. tip = ChainHead(chain).block /\ tip \in Blocks
      BY <1>a, <3>1, HeadType DEF ChainInv
    <3>3. e \in Events /\ Src(e) = tip /\ Dst(e) = Parent(tip)
      BY <3>2, EventTypes DEF RemovedEvent, Src, Dst, Added, Removed
    <3>4. Path(Append(events, e), q, Parent(tip))
      BY <2>3, <2>4, <3>3, PathAppend
    <3>5. QueueInv(p, q)'
      BY <2>3, <2>11, <3>2, <3>4 DEF BuildPop, QueueInv
    <3>6. QED
      BY <2>5, <2>11, <3>5 DEF BuildPop
  <2>12. CASE BuildUnwind
    <3>1. NextBlock \in Blocks /\ tip = Parent(NextBlock)
      BY <1>a, <2>12, NextBlockType DEF BuildUnwind, CallsInv
    <3>2. QueueInv(p, q)'
      BY <1>a, <2>3, <2>12, <3>1, AddBlockStream DEF BuildUnwind
    <3>3. QED
      BY <2>5, <2>12, <3>2 DEF BuildUnwind, Returned
  <2>13. CASE FetchLogs
    <3>1. PICK S : events' = MarkReady(events, S) /\ queue' = MarkReady(queue, S)
      BY <2>13 DEF FetchLogs
    <3>2. Path(events', q, tip) /\ Path(queue', p, q)
      <4>1. /\ events \in Seq(Events) /\ queue \in Seq(Events)
            /\ Path(events, q, tip) /\ Path(queue, p, q)
        BY <2>3, <2>4
      <4>2. /\ events' \in Seq(Events) /\ Len(events') = Len(events)
            /\ \A i \in 1 .. Len(events) : /\ events'[i].event = events[i].event
                                           /\ events'[i].block = events[i].block
        BY ONLY <3>1, <4>1, MarkReadySame
      <4>3. /\ queue' \in Seq(Events) /\ Len(queue') = Len(queue)
            /\ \A i \in 1 .. Len(queue) : /\ queue'[i].event = queue[i].event
                                          /\ queue'[i].block = queue[i].block
        BY ONLY <3>1, <4>1, MarkReadySame
      <4>4. Path(events', q, tip)
        BY ONLY <4>1, <4>2, PathSame
      <4>5. Path(queue', p, q)
        BY ONLY <4>1, <4>3, PathSame
      <4>6. QED
        BY <4>4, <4>5
    <3>3. QED
      BY <2>5, <2>13, <3>2 DEF FetchLogs, QueueInv
  <2>14. CASE PublishSkip
    <3>1. /\ queue = <<>> /\ pubEvents = <<>> /\ \A r \in broadcasters : held[r] = <<>>
          /\ tip \in Heads
      BY <1>a, <2>14, ZenonT(30) DEF PublishSkip, TypeOK, Heads
    <3>2. \A s \in Subscribers : last[s] = Nil
      BY <1>a, <2>14 DEF PublishSkip, QuietInv
    <3>3. ASSUME runs <= 1 PROVE DeliveryInv(tip)
      <4>1. runs \in 0 .. 1 /\ (runs = 1 => 1 \in Runs)
        BY <1>a, <3>3, FirstRun
      <4>2. runs = 1 => held[1] = <<>>
        BY <1>a, <3>1, <4>1 DEF QuietInv
      <4>3. QED
        BY <3>1, <3>2, <4>1, <4>2, DeliveryEmpty, ZenonT(30)
    <3>4. UNCHANGED <<queue, tip, runs, held, pubEvents, last>> /\ events' = <<>> /\ pc' = "idle"
      BY <2>14, ZenonT(30) DEF PublishSkip
    <3>5. QueueInv(tip, tip)'
      BY <3>1, <3>4, EmptyPath DEF QueueInv
    <3>6. runs' <= 1 => DeliveryInv(tip)'
      BY <3>3, <3>4 DEF DeliveryInv, Heads
    <3>7. QED
      BY <3>1, <3>4, <3>5, <3>6
  <2>15. CASE EnqueueEvent
    <3> DEFINE e == Head(events)
    <3>1. e \in Events /\ Src(e) = q /\ Path(Tail(events), Dst(e), tip)
      BY <2>3, <2>4, <2>15, PathTail DEF EnqueueEvent
    <3>2. PICK m \in Heads : m = Dst(e)
      BY <3>1, EventEnds DEF Heads
    <3>3. Path(Enqueue(queue, e), p, m)
      BY <2>3, <2>4, <3>1, <3>2, RemovalFits
    <3>4. QueueInv(p, m)'
      BY <2>15, <3>1, <3>2, <3>3 DEF EnqueueEvent, QueueInv
    <3>5. runs' <= 1 => DeliveryInv(p)'
      BY <2>2, <2>15, DeliveryFrame DEF EnqueueEvent
    <3>6. QED
      BY <2>1, <2>15, <3>4, <3>5 DEF EnqueueEvent
  <2>16. CASE EnqueueRejects
    <3>1. Head(events) \in Events /\ Src(Head(events)) = q
      BY <2>3, <2>4, <2>16, PathTail DEF EnqueueRejects
    <3>2. ~ Rejects(queue, Head(events))
      BY <2>3, <2>4, <3>1, RemovalFits
    <3>3. QED
      BY <2>16, <3>2 DEF EnqueueRejects
  <2>17. CASE Dequeue
    <3>1. PICK n \in 1 .. Len(queue) : /\ pubEvents' = SubSeq(queue, 1, n)
                                       /\ queue' = SubSeq(queue, n + 1, Len(queue))
      BY <2>17 DEF Dequeue
    <3>2. PICK m \in Heads : Path(pubEvents', p, m) /\ Path(queue', m, q)
      BY <2>3, <2>4, <3>1, PathCut DEF Heads
    <3>3. UNCHANGED <<events, tip, runs, held, last>> /\ pc' = "send" /\ runs # 0
      BY <1>a, <2>17 DEF Dequeue, TypeOK
    <3>4. QueueInv(m, q)'
      BY <2>3, <3>2, <3>3 DEF QueueInv
    <3>5. ASSUME runs <= 1 PROVE DeliveryInv(m)'
      <4>1. pubEvents = <<>> /\ runs = 1
        <5>1. runs \in Nat /\ (pc # "send" => pubEvents = <<>>)
          BY <1>a, RunTypes
        <5>2. pc = "enqueue"
          BY <2>17 DEF Dequeue
        <5>3. QED
          BY ONLY <3>3, <3>5, <5>1, <5>2
      <4>2. PICK a \in Heads, b \in Heads :
              /\ Path(held[1], a, b) /\ Path(pubEvents, b, p)
              /\ \A s \in Subscribers : last[s] # Nil => Dst(last[s]) = a
        BY <2>2, <3>5, <4>1, DeliveryPaths, ZenonT(30)
      <4>3. b = p
        BY <4>1, <4>2 DEF Path
      <4>4. /\ runs' = 1 /\ Path(held'[1], a, p) /\ Path(pubEvents', p, m)
            /\ \A s \in Subscribers : last'[s] # Nil => Dst(last'[s]) = a
        BY <3>2, <3>3, <4>1, <4>2, <4>3, ZenonT(30)
      <4>5. QED
        BY <4>4 DEF DeliveryInv, Heads
    <3>6. QED
      BY <3>2, <3>3, <3>4, <3>5
  <2>18. CASE RunReturns
    <3>1. events = <<>> /\ events' = events
      BY <2>18, ZenonT(30) DEF RunReturns
    <3>2. \A s \in Subscribers : last'[s] = last[s] \/ last'[s] = Nil
      BY <2>18 DEF RunReturns, UnsubscribeAll
    <3>3. QED
      BY <2>6, <2>18, <3>1, <3>2, ZenonT(30) DEF RunReturns
  <2>19. CASE Stop
    <3>1. \A s \in Subscribers : last'[s] = last[s] \/ last'[s] = Nil
      BY <2>19 DEF Stop, UnsubscribeAll
    <3>2. QED
      BY <2>1, <2>6, <2>19, <3>1 DEF Stop
  <2>20. ASSUME NEW s \in Subscribers, Subscribe(s) \/ Unsubscribe(s)
         PROVE  /\ pc' # "rejected"
                /\ \E x, y \in Heads : QueueInv(x, y)' /\ (runs' <= 1 => DeliveryInv(x)')
    <3>1. \A t \in Subscribers : last'[t] = last[t] \/ last'[t] = Nil
      BY <1>a, <2>20, ZenonT(30) DEF Subscribe, Unsubscribe, TypeOK
    <3>2. QED
      BY <2>1, <2>6, <2>20, <3>1, ZenonT(30) DEF Subscribe, Unsubscribe
  <2>21. ASSUME NEW r \in Runs, BroadcasterExits(r)
         PROVE  /\ pc' # "rejected"
                /\ \E x, y \in Heads : QueueInv(x, y)' /\ (runs' <= 1 => DeliveryInv(x)')
    BY <2>1, <2>6, <2>21 DEF BroadcasterExits
  <2>22. ASSUME NEW r \in Runs, Receive(r)
         PROVE  /\ pc' # "rejected"
                /\ \E x, y \in Heads : QueueInv(x, y)' /\ (runs' <= 1 => DeliveryInv(x)')
    <3>1. /\ r \in 1 .. runs /\ UNCHANGED <<queue, events, tip, runs, last>> /\ pc' = "idle"
          /\ held' = [held EXCEPT ![r] = pubEvents] /\ pubEvents' = <<>> /\ held[r] = <<>>
      BY <1>a, <2>22 DEF Receive, TypeOK
    <3>2. QueueInv(p, q)'
      BY <2>3, <3>1 DEF QueueInv
    <3>3. ASSUME runs <= 1 PROVE DeliveryInv(p)'
      <4>1. runs = 1 /\ r = 1 /\ held'[1] = pubEvents
        <5>1. runs \in Nat
          BY <1>a, RunTypes
        <5>2. r = 1 /\ runs = 1
          BY ONLY <3>1, <3>3, <5>1
        <5>3. held \in [Runs -> Seq(Events)] /\ r \in Runs
          BY <1>a DEF TypeOK
        <5>4. QED
          BY ONLY <3>1, <5>2, <5>3
      <4>2. PICK a \in Heads, b \in Heads :
              /\ Path(held[1], a, b) /\ Path(pubEvents, b, p)
              /\ \A s \in Subscribers : last[s] # Nil => Dst(last[s]) = a
        BY <2>2, <3>3, <4>1, DeliveryPaths, ZenonT(30)
      <4>3. a = b
        BY <3>1, <4>1, <4>2 DEF Path
      <4>4. /\ runs' = 1 /\ Path(held'[1], a, p) /\ Path(pubEvents', p, p)
            /\ \A s \in Subscribers : last'[s] # Nil => Dst(last'[s]) = a
        BY <3>1, <4>1, <4>2, <4>3, EmptyPath, ZenonT(30)
      <4>5. QED
        BY <4>4 DEF DeliveryInv, Heads
    <3>4. QED
      BY <3>1, <3>2, <3>3
  <2>23. ASSUME NEW r \in Runs, Broadcast(r)
         PROVE  /\ pc' # "rejected"
                /\ \E x, y \in Heads : QueueInv(x, y)' /\ (runs' <= 1 => DeliveryInv(x)')
    <3>1. /\ r \in 1 .. runs /\ UNCHANGED <<pc, queue, events, tip, runs, pubEvents>>
          /\ held' = [held EXCEPT ![r] = <<>>] /\ held[r] # <<>>
      BY <1>a, <2>23 DEF Broadcast, TypeOK
    <3>2. QueueInv(p, q)'
      BY <2>3, <3>1 DEF QueueInv
    <3>3. ASSUME runs <= 1 PROVE DeliveryInv(p)'
      <4>1. runs = 1 /\ r = 1 /\ held'[1] = <<>>
        <5>1. runs \in Nat
          BY <1>a, RunTypes
        <5>2. r = 1 /\ runs = 1
          BY ONLY <3>1, <3>3, <5>1
        <5>3. held \in [Runs -> Seq(Events)] /\ r \in Runs
          BY <1>a DEF TypeOK
        <5>4. QED
          BY ONLY <3>1, <5>2, <5>3
      <4>2. PICK a \in Heads, b \in Heads : Path(held[1], a, b) /\ Path(pubEvents, b, p)
        BY <2>2, <3>3, <4>1, DeliveryPaths, ZenonT(30)
      <4>3. Dst(held[1][Len(held[1])]) = b
        BY <3>1, <4>1, <4>2 DEF Path
      <4>4. \A s \in Subscribers : last'[s] # Nil => Dst(last'[s]) = b
        BY <1>a, <2>23, <4>1, <4>3 DEF Broadcast, QuietInv
      <4>5. runs' = 1 /\ Path(held'[1], b, b) /\ Path(pubEvents', b, p)
        BY <3>1, <4>1, <4>2, EmptyPath
      <4>6. QED
        BY <4>4, <4>5 DEF DeliveryInv, Heads
    <3>4. QED
      BY <2>1, <3>1, <3>2, <3>3
  <2>24. QED
    BY <2>7, <2>8, <2>9, <2>10, <2>11, <2>12, <2>13, <2>14, <2>15, <2>16, <2>17, <2>18, <2>19,
       <2>20, <2>21, <2>22, <2>23
       DEF Next, Build, Publish, Broadcaster, Client
<1>d. QED
  BY <1>b, <1>c

--------------------------------------------------------------------------------
(* The theorems. *)

\* The inductive invariant holds initially.
LEMMA InitIInv == Init => IInv
<1> SUFFICES ASSUME Init PROVE IInv
  OBVIOUS
<1>1. TypeOK
  BY InitTypeOK
<1>2. CallsInv /\ ChainInv
  <2>1. nextBlocks = <<>> /\ chain = <<>> /\ pc = "off"
    BY DEF Init
  <2>2. CallsInv
    BY ONLY <2>1 DEF CallsInv
  <2>3. ChainInv
    BY ONLY <2>1 DEF ChainInv, Contiguous
  <2>4. QED
    BY <2>2, <2>3
<1>3. HeadInv /\ QuietInv
  BY DEF Init, HeadInv, QuietInv
<1>4. StreamInv
  <2>1. Nil \in Heads /\ Path(<<>>, Nil, Nil)
    BY EmptyPath DEF Heads
  <2>2. QueueInv(Nil, Nil)
    BY <2>1 DEF Init, QueueInv
  <2>3. DeliveryInv(Nil)
    BY <2>1 DEF Init, DeliveryInv
  <2>4. pc # "rejected"
    BY DEF Init
  <2>5. QED
    BY <2>1, <2>2, <2>3, <2>4 DEF StreamInv
<1>5. QED
  BY <1>1, <1>2, <1>3, <1>4 DEF IInv

\* Every step keeps the inductive invariant.
LEMMA NextIInv == IInv /\ [Next]_vars => IInv'
<1> SUFFICES ASSUME IInv, [Next]_vars PROVE IInv'
  OBVIOUS
<1>1. TypeOK'
  BY NextTypeOK DEF IInv
<1>2. CallsInv' /\ ChainInv'
  BY BuildStep DEF IInv
<1>3. HeadInv' /\ QuietInv'
  BY HeadStep, QuietStep DEF IInv
<1>4. StreamInv'
  BY <1>1, StreamStep
<1>5. QED
  BY <1>1, <1>2, <1>3, <1>4 DEF IInv

\* Every state of the monitor satisfies the inductive invariant.
THEOREM Invariance == Spec => []IInv
<1>1. QED
  BY InitIInv, NextIInv, PTL DEF Spec

\* The invariant gives what the subscriber sees.
LEMMA IInvDelivery == IInv => DeliveryIsLinked
<1> SUFFICES ASSUME IInv, ~ lost, runs <= 1, NEW r \in broadcasters, held[r] # <<>>
             PROVE  /\ Linked(held[r])
                    /\ \A s \in subscribers : last[s] # Nil => Dst(last[s]) = Src(held[r][1])
  BY DEF DeliveryIsLinked
<1>1. runs = 1 /\ r = 1 /\ subscribers \subseteq Subscribers
  <2>1. runs \in Nat /\ broadcasters \subseteq 1 .. runs /\ subscribers \subseteq Subscribers
    BY RunTypes DEF IInv
  <2>2. runs <= 1 /\ r \in broadcasters
    OBVIOUS
  <2>3. QED
    BY ONLY <2>1, <2>2
<1>2. PICK p \in Heads : DeliveryInv(p)
  BY DEF IInv, StreamInv
<1>3. PICK a \in Heads, b \in Heads :
        /\ Path(held[1], a, b)
        /\ \A s \in Subscribers : last[s] # Nil => Dst(last[s]) = a
  BY <1>1, <1>2, DeliveryPaths
<1>4. QED
  BY <1>1, <1>3 DEF Path

\* The retained chain is contiguous in every state, for every retention limit, block
\* tree and schedule (push, pop and buildCanonicalChain).
THEOREM ChainAlwaysContiguous == Spec => []ChainIsContiguous
<1>1. IInv => ChainIsContiguous
  <2> SUFFICES ASSUME chain \in Seq(Events), ChainInv PROVE ChainIsContiguous
    BY DEF IInv, TypeOK
  <2>1. DOMAIN chain = 1 .. Len(chain)
    OBVIOUS
  <2>2. QED
    BY <2>1 DEF ChainInv, ChainIsContiguous
<1>2. QED
  BY <1>1, Invariance, PTL

\* The pushes of buildCanonicalChain after its recursive call never fail.
THEOREM UnwindAlwaysFits == Spec => []UnwindFits
<1>1. IInv => UnwindFits
  BY DEF IInv, CallsInv, ChainInv, UnwindFits, CanPush
<1>2. QED
  BY <1>1, Invariance, PTL

\* Nothing nil is dereferenced unless PurgeHistory is called.
THEOREM MonitorNeverPanics == Spec => []NeverPanics
<1>1. IInv => NeverPanics
  BY DEF IInv, HeadInv, NeverPanics
<1>2. QED
  BY <1>1, Invariance, PTL

\* The queue's error is unreachable until an event is dropped or never produced.
THEOREM QueueNeverRejects == Spec => []NeverRejects
<1>1. IInv => NeverRejects
  BY DEF IInv, StreamInv, NeverRejects
<1>2. QED
  BY <1>1, Invariance, PTL

\* What a subscriber is sent always continues what it was sent before, in the first
\* run and until an event is dropped or never produced.
THEOREM DeliveryAlwaysLinked == Spec => []DeliveryIsLinked
<1>1. QED
  BY IInvDelivery, Invariance, PTL
================================================================================
