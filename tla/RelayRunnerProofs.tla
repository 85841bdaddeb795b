-------------------------- MODULE RelayRunnerProofs ---------------------------
(***************************************************************************)
(* Proofs about RelayRunner for any sources, outboxes, batch sizes and     *)
(* bounds.                                                                 *)
(*                                                                         *)
(* The argument: every call of a loop touches the rows of its own source   *)
(* only, and every fault marks its source as hurt.  So each event of an    *)
(* unhurt source is in one of four stages (Stage), and the drain ends      *)
(* unhurt loops between two batches: either their sources are closed,      *)
(* which the drain does after the loop only (CloseOrder), or the deadline  *)
(* marks what it cuts off.                                                 *)
(***************************************************************************)
EXTENDS RelayRunner, WellFoundedInduction, TLAPS

-----------------------------------------------------------------------------
(* The event in hand.                                                      *)

LEMMA NatMin ==
  ASSUME NEW T \in SUBSET Nat, T # {}
  PROVE  \E x \in T : \A y \in T : x <= y
<1> DEFINE R == {ss \in Nat \X Nat : ss[1] < ss[2]}
<1>1. OpToRel(<, Nat) = R
  BY DEF OpToRel
<1>2. IsWellFoundedOn(R, Nat)
  BY <1>1, NatLessThanWellFounded
<1>3. \A x, y \in Nat : y < x => <<y, x>> \in R
  OBVIOUS
<1> HIDE DEF R
<1>4. PICK x \in T : \A y \in T : <<y, x>> \notin R
  BY <1>2, WFMin
<1>5. \A y \in T : x \in Nat /\ y \in Nat /\ ~(y < x)
  BY <1>3, <1>4
<1>6. \A y \in T : x <= y
  BY <1>5
<1>7. QED
  BY <1>6

\* A loop at work on a batch has an event in hand, one of its own source.
LEMMA InHandEvent ==
  ASSUME IInv, NEW s \in Sources, loop[s].pc \in InHand
  PROVE  At(s) \in loop[s].batch /\ At(s) \in Events /\ SourceOf[At(s)] = s
<1>1. loop[s].batch # {} /\ loop[s].batch \in SUBSET Events
  BY DEF IInv, TypeOK, Pos, BatchShape
<1>2. loop[s].batch \in SUBSET Nat
  BY <1>1, RelayAssumption DEF Events
<1>3. \E x \in loop[s].batch : \A y \in loop[s].batch : x <= y
  BY <1>1, <1>2, NatMin
<1>4. At(s) \in loop[s].batch
  BY <1>3 DEF At
<1>5. QED
  BY <1>1, <1>4 DEF IInv, BatchShape

-----------------------------------------------------------------------------
(* The frame of the steps of one source.                                   *)

\* What a step of the source s leaves alone.
OnlySource(s) ==
  /\ UNCHANGED procVars
  /\ \A r \in Sources : r # s => loop'[r] = loop[r]
  /\ \A e \in Events : SourceOf[e] # s => row'[e] = row[e] /\ pub'[e] = pub[e]
  /\ hurt \subseteq hurt' /\ hurt' \subseteq hurt \cup {s}
  /\ hung' \subseteq hung \cup (hurt' \cap {s})

\* The loop of s holds a batch of its own source just while it works on it.
ShapeOf(s) ==
  /\ \A e \in loop[s].batch : SourceOf[e] = s
  /\ loop[s].batch = {} <=> loop[s].pc \notin InHand

LEMMA SourceFrame ==
  ASSUME IInv, NEW s \in Sources, TypeOK', OnlySource(s), proc # "gone",
         adapter[s] = "open" \/ loop'[s] = loop[s], ShapeOf(s)',
         \A e \in Events : SourceOf[e] = s => Stage(e)'
  PROVE  IInv'
<1>1. BatchShape'
  BY DEF IInv, BatchShape, ShapeOf, OnlySource, procVars
<1>2. CloseOrder'
  BY DEF IInv, CloseOrder, OnlySource, procVars
<1>3. ASSUME NEW e \in Events, SourceOf[e] # s PROVE Stage(e)'
  <2>1. SourceOf[e] \in Sources
    BY RelayAssumption
  <2>2. /\ loop'[SourceOf[e]] = loop[SourceOf[e]] /\ row'[e] = row[e] /\ pub'[e] = pub[e]
        /\ SourceOf[e] \notin hurt' <=> SourceOf[e] \notin hurt
    BY <1>3, <2>1 DEF OnlySource
  <2>3. Stage(e)
    BY DEF IInv
  <2>4. QED
    BY <2>2, <2>3 DEF Stage, At
<1>4. QED
  BY <1>1, <1>2, <1>3 DEF IInv

\* Steps of a loop: the counters of faults and the sets keep their types.
LEMMA LoopTypes ==
  ASSUME IInv, NEW s \in Sources, OnlySource(s), NoFault \/ FaultOf({s}), hung' \subseteq Sources,
         loop' \in [Sources -> Pos], pub' \in [Events -> 0 .. 2],
         row' \in [Events -> {"pending", "leased", "expired", "delivered"}]
  PROVE  TypeOK'
<1>1. faults' \in 0 .. MaxFaults
  BY RelayAssumption DEF NoFault, FaultOf, IInv, TypeOK
<1>2. hurt' \subseteq Sources
  BY DEF OnlySource, IInv, TypeOK
<1>3. QED
  BY <1>1, <1>2 DEF IInv, TypeOK, OnlySource, procVars

LEMMA GotoLoop ==
  ASSUME IInv, NEW s \in Sources, NEW pc \in {"ready", "ended"} \cup Working, Goto(s, pc)
  PROVE  /\ loop' \in [Sources -> Pos] /\ loop'[s].pc = pc /\ loop'[s].batch = loop[s].batch
         /\ \A r \in Sources : r # s => loop'[r] = loop[r]
<1> DEFINE p == [loop[s] EXCEPT !.pc = pc]
<1>1. loop \in [Sources -> Pos] /\ loop[s] \in Pos
  BY DEF IInv, TypeOK
<1>2. p \in Pos /\ p.pc = pc /\ p.batch = loop[s].batch
  BY <1>1 DEF Pos
<1>3. loop' = [loop EXCEPT ![s] = p]
  BY DEF Goto
<1> HIDE DEF p
<1>4. QED
  BY <1>1, <1>2, <1>3

LEMMA WorkLoop ==
  ASSUME IInv, NEW s \in Sources, NEW B \in SUBSET Events, Work(s, B),
         \A e \in B : SourceOf[e] = s
  PROVE  /\ loop' \in [Sources -> Pos] /\ ShapeOf(s)'
         /\ loop'[s].pc = (IF B = {} THEN "ready" ELSE "publishing") /\ loop'[s].batch = B
         /\ \A r \in Sources : r # s => loop'[r] = loop[r]
<1> DEFINE p == [pc |-> IF B = {} THEN "ready" ELSE "publishing", batch |-> B]
<1>1. loop \in [Sources -> Pos]
  BY DEF IInv, TypeOK
<1>2. p \in Pos /\ p.pc = (IF B = {} THEN "ready" ELSE "publishing") /\ p.batch = B
  BY DEF Pos, Working
<1>3. loop' = [loop EXCEPT ![s] = p]
  BY DEF Work
<1> HIDE DEF p
<1>4. /\ loop' \in [Sources -> Pos] /\ loop'[s] = p
      /\ \A r \in Sources : r # s => loop'[r] = loop[r]
  BY <1>1, <1>2, <1>3
<1>5. ShapeOf(s)'
  BY <1>2, <1>4 DEF ShapeOf, InHand
<1>6. QED
  BY <1>2, <1>4, <1>5

\* A loop that stands somewhere before its end belongs to an open source.
LEMMA OpenLoop ==
  ASSUME IInv, NEW s \in Sources, loop[s].pc # "ended"
  PROVE  adapter[s] = "open"
BY DEF IInv, CloseOrder

-----------------------------------------------------------------------------
(* The steps of a loop.                                                    *)

LEMMA RoundKeeps ==
  ASSUME IInv, NEW s \in Sources, Begin(s) \/ End(s)
  PROVE  IInv'
<1>1. /\ loop[s].pc = "ready" /\ (Goto(s, "claiming") \/ Goto(s, "ended")) /\ proc # "gone"
      /\ UNCHANGED <<procVars, hung, row, pub>> /\ NoFault
  BY DEF Begin, End, Stands
<1>2. /\ loop' \in [Sources -> Pos] /\ loop'[s].pc \in {"claiming", "ended"}
      /\ loop'[s].batch = loop[s].batch
      /\ \A r \in Sources : r # s => loop'[r] = loop[r]
  BY <1>1, GotoLoop DEF Working
<1>3. loop[s].batch = {}
  BY <1>1 DEF IInv, BatchShape, InHand
<1>4. OnlySource(s)
  BY <1>1, <1>2 DEF OnlySource, NoFault
<1>5. TypeOK'
  BY <1>1, <1>2, <1>4, LoopTypes DEF IInv, TypeOK
<1>6. ShapeOf(s)'
  BY <1>2, <1>3 DEF ShapeOf, InHand
<1>7. ASSUME NEW e \in Events, SourceOf[e] = s PROVE Stage(e)'
  <2>1. Stage(e)
    BY DEF IInv
  <2>2. QED
    BY <1>1, <1>2, <1>3, <1>7, <2>1 DEF Stage, NoFault
<1>8. QED
  BY <1>1, <1>4, <1>5, <1>6, <1>7, OpenLoop, SourceFrame

\* A step of s that is a fault, or a step of a source that is hurt, owes nothing but shapes.
LEMMA HurtFrame ==
  ASSUME IInv, NEW s \in Sources, s \in hurt', TypeOK', OnlySource(s), proc # "gone",
         loop[s].pc # "ended", ShapeOf(s)'
  PROVE  IInv'
<1>1. \A e \in Events : SourceOf[e] = s => Stage(e)'
  BY DEF Stage
<1>2. QED
  BY <1>1, OpenLoop, SourceFrame

LEMMA LeasedRows ==
  ASSUME IInv, NEW s \in Sources, NEW B \in SUBSET Due(s), row' = Leased(B)
  PROVE  /\ row' \in [Events -> {"pending", "leased", "expired", "delivered"}]
         /\ \A e \in B : e \in Events /\ SourceOf[e] = s /\ row'[e] = "leased"
                         /\ row[e] \in {"pending", "expired"}
         /\ \A e \in Events : e \notin B => row'[e] = row[e]
BY DEF IInv, TypeOK, Leased, Due

LEMMA ClaimKeeps ==
  ASSUME IInv, NEW s \in Sources, Claim(s)
  PROVE  IInv'
<1>1. PICK B \in SUBSET Due(s) : row' = Leased(B) /\ Work(s, B)
  BY DEF Claim, Batches
<1>2. /\ loop[s].pc = "claiming" /\ proc # "gone"
      /\ UNCHANGED <<procVars, hung, pub>> /\ NoFault
  BY DEF Claim, Stands
<1>3. /\ row' \in [Events -> {"pending", "leased", "expired", "delivered"}]
      /\ \A e \in B : e \in Events /\ SourceOf[e] = s /\ row'[e] = "leased"
                      /\ row[e] \in {"pending", "expired"}
      /\ \A e \in Events : e \notin B => row'[e] = row[e]
  BY <1>1, LeasedRows
<1>4. /\ loop' \in [Sources -> Pos] /\ ShapeOf(s)'
      /\ loop'[s].pc = (IF B = {} THEN "ready" ELSE "publishing") /\ loop'[s].batch = B
      /\ \A r \in Sources : r # s => loop'[r] = loop[r]
  BY <1>1, <1>3, WorkLoop
<1>5. OnlySource(s)
  BY <1>2, <1>3, <1>4 DEF OnlySource, NoFault
<1>6. TypeOK'
  BY <1>2, <1>3, <1>4, <1>5, LoopTypes DEF IInv, TypeOK
<1>7. loop[s].batch = {}
  BY <1>2 DEF IInv, BatchShape, InHand
<1>8. ASSUME NEW e \in Events, SourceOf[e] = s PROVE Stage(e)'
  <2>1. Stage(e)
    BY DEF IInv
  <2>2. CASE e \in B
    BY <1>2, <1>3, <1>4, <1>7, <1>8, <2>1, <2>2 DEF Stage, NoFault
  <2>3. CASE e \notin B
    BY <1>2, <1>3, <1>4, <1>7, <1>8, <2>1, <2>3 DEF Stage, NoFault
  <2>4. QED
    BY <2>2, <2>3
<1>9. QED
  BY <1>2, <1>4, <1>5, <1>6, <1>8, OpenLoop, SourceFrame

LEMMA ClaimThrowsKeeps ==
  ASSUME IInv, NEW s \in Sources, ClaimThrows(s)
  PROVE  IInv'
<1>1. PICK B \in SUBSET Due(s) : row' = Leased(B)
  BY DEF ClaimThrows, Batches
<1>2. /\ loop[s].pc = "claiming" /\ proc # "gone" /\ Work(s, {})
      /\ UNCHANGED <<procVars, hung, pub>> /\ FaultOf({s})
  BY DEF ClaimThrows, Stands
<1>3. /\ row' \in [Events -> {"pending", "leased", "expired", "delivered"}]
      /\ \A e \in B : SourceOf[e] = s
      /\ \A e \in Events : e \notin B => row'[e] = row[e]
  BY <1>1, LeasedRows
<1>4. /\ loop' \in [Sources -> Pos] /\ ShapeOf(s)'
      /\ \A r \in Sources : r # s => loop'[r] = loop[r]
  BY <1>2, WorkLoop
<1>5. OnlySource(s)
  BY <1>2, <1>3, <1>4 DEF OnlySource, FaultOf
<1>6. TypeOK'
  BY <1>2, <1>3, <1>4, <1>5, LoopTypes DEF IInv, TypeOK
<1>7. QED
  BY <1>2, <1>4, <1>5, <1>6, HurtFrame DEF FaultOf

\* The event in hand stays the same while the batch does.
LEMMA SameEvent ==
  ASSUME NEW s \in Sources, loop'[s].batch = loop[s].batch PROVE At(s)' = At(s)
BY DEF At

LEMMA PublishedPub ==
  ASSUME IInv, NEW d \in Events, Published(d) \/ UNCHANGED pub
  PROVE  /\ pub' \in [Events -> 0 .. 2] /\ \A e \in Events : e # d => pub'[e] = pub[e]
         /\ Published(d) => pub'[d] = (IF pub[d] = 0 THEN 1 ELSE 2)
BY DEF IInv, TypeOK, Published

LEMMA PublishKeeps ==
  ASSUME IInv, NEW s \in Sources, Publish(s) \/ PublishThrows(s)
  PROVE  IInv'
<1> DEFINE d == At(s)
<1>1. /\ loop[s].pc = "publishing" /\ proc # "gone" /\ (Published(d) \/ UNCHANGED pub)
      /\ UNCHANGED <<procVars, hung, row>>
      /\ \/ Goto(s, "completing") /\ NoFault /\ Published(d)
         \/ Goto(s, "failing") /\ FaultOf({s})
  BY DEF Publish, PublishThrows, Stands
<1>2. d \in loop[s].batch /\ d \in Events /\ SourceOf[d] = s
  BY <1>1, InHandEvent DEF InHand
<1>3. d = At(s)
  OBVIOUS
<1> HIDE DEF d
<1>4. /\ pub' \in [Events -> 0 .. 2] /\ \A e \in Events : e # d => pub'[e] = pub[e]
      /\ Published(d) => pub'[d] = (IF pub[d] = 0 THEN 1 ELSE 2)
  BY <1>1, <1>2, PublishedPub
<1>5. /\ loop' \in [Sources -> Pos] /\ loop'[s].pc \in {"completing", "failing"}
      /\ loop'[s].batch = loop[s].batch
      /\ \A r \in Sources : r # s => loop'[r] = loop[r]
  BY <1>1, GotoLoop DEF Working
<1>6. OnlySource(s)
  BY <1>1, <1>2, <1>4, <1>5 DEF OnlySource, NoFault, FaultOf
<1>7. TypeOK'
  BY <1>1, <1>4, <1>5, <1>6, LoopTypes DEF IInv, TypeOK
<1>8. ShapeOf(s)'
  BY <1>2, <1>5 DEF ShapeOf, InHand, IInv, BatchShape
<1>9. CASE FaultOf({s})
  BY <1>1, <1>6, <1>7, <1>8, <1>9, HurtFrame DEF FaultOf
<1>10. CASE Goto(s, "completing") /\ NoFault /\ Published(d)
  <2>1. loop'[s].pc = "completing" /\ At(s)' = d
    BY <1>3, <1>5, <1>10, GotoLoop, SameEvent DEF Working
  <2>2. ASSUME NEW e \in Events, SourceOf[e] = s PROVE Stage(e)'
    <3>1. Stage(e) /\ Stage(d)
      BY <1>2 DEF IInv
    <3>2. CASE e = d
      <4>1. s \notin hurt => row[d] = "leased" /\ pub[d] = 0
        BY <1>1, <1>2, <3>1 DEF Stage
      <4>2. QED
        BY <1>1, <1>2, <1>4, <1>5, <1>10, <2>1, <2>2, <3>2, <4>1 DEF Stage, NoFault
    <3>3. CASE e # d
      <4>1. s \notin hurt /\ e \in loop[s].batch => row[e] = "leased" /\ pub[e] = 0
        BY <1>1, <2>2, <3>1 DEF Stage
      <4>2. QED
        BY <1>1, <1>4, <1>5, <1>10, <2>1, <2>2, <3>1, <3>3, <4>1 DEF Stage, NoFault
    <3>4. QED
      BY <3>2, <3>3
  <2>3. QED
    BY <1>1, <1>6, <1>7, <1>8, <2>2, OpenLoop, SourceFrame
<1>11. QED
  BY <1>1, <1>9, <1>10

\* The batch goes on without the event in hand.
LEMMA GoOnLoop ==
  ASSUME IInv, NEW s \in Sources, loop[s].pc \in InHand, GoOn(s)
  PROVE  /\ loop' \in [Sources -> Pos] /\ ShapeOf(s)'
         /\ loop'[s].pc \in {"ready", "publishing"}
         /\ loop'[s].batch = loop[s].batch \ {At(s)}
         /\ \A r \in Sources : r # s => loop'[r] = loop[r]
<1> DEFINE B == loop[s].batch \ {At(s)}
<1>1. B \in SUBSET Events /\ \A e \in B : SourceOf[e] = s
  BY DEF IInv, TypeOK, Pos, BatchShape
<1>2. Work(s, B)
  BY DEF GoOn
<1> HIDE DEF B
<1>3. /\ loop' \in [Sources -> Pos] /\ ShapeOf(s)'
      /\ loop'[s].pc = (IF B = {} THEN "ready" ELSE "publishing") /\ loop'[s].batch = B
      /\ \A r \in Sources : r # s => loop'[r] = loop[r]
  BY <1>1, <1>2, WorkLoop
<1>4. QED
  BY <1>3 DEF B

LEMMA CompleteKeeps ==
  ASSUME IInv, NEW s \in Sources, Complete(s)
  PROVE  IInv'
<1> DEFINE d == At(s)
<1>1. /\ loop[s].pc = "completing" /\ proc # "gone" /\ GoOn(s)
      /\ UNCHANGED <<procVars, hung, pub>> /\ NoFault
      /\ Deliver(d) \/ UNCHANGED row
      /\ row[d] = "leased" => Deliver(d)
  BY DEF Complete, Stands
<1>2. d \in loop[s].batch /\ d \in Events /\ SourceOf[d] = s
  BY <1>1, InHandEvent DEF InHand
<1>3. /\ loop' \in [Sources -> Pos] /\ ShapeOf(s)'
      /\ loop'[s].pc \in {"ready", "publishing"} /\ loop'[s].batch = loop[s].batch \ {d}
      /\ \A r \in Sources : r # s => loop'[r] = loop[r]
  BY <1>1, GoOnLoop DEF InHand
<1>4. d = At(s)
  OBVIOUS
<1> HIDE DEF d
<1>5. /\ row' \in [Events -> {"pending", "leased", "expired", "delivered"}]
      /\ row[d] = "leased" => row'[d] = "delivered"
      /\ \A e \in Events : e # d => row'[e] = row[e]
  BY <1>1, <1>2 DEF Deliver, IInv, TypeOK
<1>6. OnlySource(s)
  BY <1>1, <1>2, <1>3, <1>5 DEF OnlySource, NoFault
<1>7. TypeOK'
  BY <1>1, <1>3, <1>5, <1>6, LoopTypes DEF IInv, TypeOK
<1>8. ASSUME NEW e \in Events, SourceOf[e] = s PROVE Stage(e)'
  <2>1. Stage(e) /\ Stage(d)
    BY <1>2 DEF IInv
  <2>2. CASE e = d
    <3>1. s \notin hurt => row[d] = "leased" /\ pub[d] = 1
      BY <1>1, <1>2, <1>4, <2>1 DEF Stage
    <3>2. QED
      BY <1>1, <1>2, <1>3, <1>5, <2>2, <3>1 DEF Stage, NoFault
  <2>3. CASE e # d
    <3>1. s \notin hurt /\ e \in loop[s].batch => row[e] = "leased" /\ pub[e] = 0
      BY <1>4, <1>8, <2>1, <2>3 DEF Stage
    <3>2. QED
      BY <1>1, <1>3, <1>5, <1>8, <2>1, <2>3, <3>1 DEF Stage, NoFault
  <2>4. QED
    BY <2>2, <2>3
<1>9. QED
  BY <1>1, <1>3, <1>6, <1>7, <1>8, OpenLoop, SourceFrame

LEMMA CompleteThrowsKeeps ==
  ASSUME IInv, NEW s \in Sources, CompleteThrows(s)
  PROVE  IInv'
<1>1. /\ loop[s].pc = "completing" /\ proc # "gone" /\ Goto(s, "failing")
      /\ UNCHANGED <<procVars, hung, pub>> /\ FaultOf({s})
      /\ Deliver(At(s)) \/ UNCHANGED row
  BY DEF CompleteThrows, Stands
<1>2. At(s) \in loop[s].batch /\ At(s) \in Events /\ SourceOf[At(s)] = s
  BY <1>1, InHandEvent DEF InHand
<1>3. /\ row' \in [Events -> {"pending", "leased", "expired", "delivered"}]
      /\ \A e \in Events : e # At(s) => row'[e] = row[e]
  BY <1>1, <1>2 DEF Deliver, IInv, TypeOK
<1>4. /\ loop' \in [Sources -> Pos] /\ loop'[s].pc = "failing"
      /\ loop'[s].batch = loop[s].batch
      /\ \A r \in Sources : r # s => loop'[r] = loop[r]
  BY <1>1, GotoLoop DEF Working
<1>5. OnlySource(s)
  BY <1>1, <1>2, <1>3, <1>4 DEF OnlySource, FaultOf
<1>6. TypeOK'
  BY <1>1, <1>3, <1>4, <1>5, LoopTypes DEF IInv, TypeOK
<1>7. ShapeOf(s)'
  BY <1>2, <1>4 DEF ShapeOf, InHand, IInv, BatchShape
<1>8. QED
  BY <1>1, <1>5, <1>6, <1>7, HurtFrame DEF FaultOf

\* A loop that is failing an event belongs to a source that is hurt.
LEMMA FailKeeps ==
  ASSUME IInv, NEW s \in Sources, Fail(s) \/ FailThrows(s)
  PROVE  IInv'
<1>1. /\ loop[s].pc = "failing" /\ proc # "gone" /\ (GoOn(s) \/ Work(s, {}))
      /\ UNCHANGED <<procVars, hung, pub>> /\ NoFault
      /\ UNCHANGED row \/ row' = [row EXCEPT ![At(s)] = IF @ = "leased" THEN "pending" ELSE @]
  BY DEF Fail, FailThrows, Stands
<1>2. At(s) \in loop[s].batch /\ At(s) \in Events /\ SourceOf[At(s)] = s
  BY <1>1, InHandEvent DEF InHand
<1>3. Stage(At(s))
  BY <1>2 DEF IInv
<1>4. s \in hurt
  BY <1>1, <1>2, <1>3 DEF Stage
<1>5. /\ row' \in [Events -> {"pending", "leased", "expired", "delivered"}]
      /\ \A e \in Events : e # At(s) => row'[e] = row[e]
  BY <1>1, <1>2 DEF IInv, TypeOK
<1>6. /\ loop' \in [Sources -> Pos] /\ ShapeOf(s)'
      /\ \A r \in Sources : r # s => loop'[r] = loop[r]
  BY <1>1, GoOnLoop, WorkLoop DEF InHand
<1>7. OnlySource(s)
  BY <1>1, <1>2, <1>5, <1>6 DEF OnlySource, NoFault
<1>8. TypeOK'
  BY <1>1, <1>5, <1>6, <1>7, LoopTypes DEF IInv, TypeOK
<1>9. QED
  BY <1>1, <1>4, <1>6, <1>7, <1>8, HurtFrame DEF NoFault

-----------------------------------------------------------------------------
(* Faults and time.                                                        *)

LEMMA HangKeeps ==
  ASSUME IInv, NEW s \in Sources, Hang(s) \/ CloseHangs(s)
  PROVE  IInv'
<1>1. /\ proc # "gone" /\ FaultOf({s}) /\ hung' = hung \cup {s}
      /\ UNCHANGED <<procVars, loop, row, pub>>
  BY DEF Hang, CloseHangs, Stands
<1>2. OnlySource(s)
  BY <1>1 DEF OnlySource, FaultOf
<1>3. TypeOK'
  BY <1>1, <1>2, LoopTypes DEF IInv, TypeOK
<1>4. ShapeOf(s)'
  BY <1>1 DEF ShapeOf, IInv, BatchShape
<1>5. \A e \in Events : SourceOf[e] = s => Stage(e)'
  BY <1>1 DEF FaultOf, Stage
<1>6. QED
  BY <1>1, <1>2, <1>3, <1>4, <1>5, SourceFrame

\* A lease runs out under a batch at work, which is a fault, or where the source is hurt.
LEMMA LeaseExpiresKeeps ==
  ASSUME IInv, NEW d \in Events, LeaseExpires(d)
  PROVE  IInv'
<1> DEFINE s == SourceOf[d]
<1>1. s \in Sources /\ s = SourceOf[d]
  BY RelayAssumption
<1> HIDE DEF s
<1>2. Stage(d) /\ hung \subseteq hurt
  BY DEF IInv, CloseOrder
<1>3. UNCHANGED <<procVars, loop, hung, pub>> /\ row[d] = "leased"
      /\ (FaultOf({s}) \/ (NoFault /\ (d \notin loop[s].batch \/ s \in hung)))
  BY <1>1 DEF LeaseExpires
<1>4. s \in hurt'
  <2>1. CASE FaultOf({s})
    BY <2>1 DEF FaultOf
  <2>2. CASE NoFault /\ s \in hung
    BY <1>2, <2>2 DEF NoFault
  <2>3. CASE NoFault /\ d \notin loop[s].batch
    BY <1>1, <1>2, <1>3, <2>3 DEF NoFault, Stage
  <2>4. QED
    BY <1>3, <2>1, <2>2, <2>3
<1>5. /\ row' \in [Events -> {"pending", "leased", "expired", "delivered"}]
      /\ \A e \in Events : e # d => row'[e] = row[e]
  BY DEF LeaseExpires, IInv, TypeOK
<1>6. hurt \subseteq hurt' /\ hurt' \subseteq hurt \cup {s}
  BY <1>3 DEF NoFault, FaultOf
<1>7. faults' \in 0 .. MaxFaults
  BY <1>3, RelayAssumption DEF NoFault, FaultOf, IInv, TypeOK
<1>8. TypeOK'
  BY <1>1, <1>3, <1>5, <1>6, <1>7 DEF IInv, TypeOK, procVars
<1>9. BatchShape' /\ CloseOrder'
  BY <1>3, <1>6 DEF IInv, BatchShape, CloseOrder, procVars
<1>10. ASSUME NEW e \in Events PROVE Stage(e)'
  <2>1. CASE SourceOf[e] = s
    BY <1>4, <2>1 DEF Stage
  <2>2. CASE SourceOf[e] # s
    <3>1. Stage(e) /\ (SourceOf[e] \notin hurt' => SourceOf[e] \notin hurt) /\ e # d
      BY <1>1, <1>6, <2>2 DEF IInv
    <3>2. QED
      BY <1>3, <1>5, <3>1 DEF Stage, At
  <2>3. QED
    BY <2>1, <2>2
<1>11. QED
  BY <1>8, <1>9, <1>10 DEF IInv

-----------------------------------------------------------------------------
(* The drain and the process.                                              *)

\* A step that leaves loops, rows and faults alone.
LEMMA StillFrame ==
  ASSUME IInv, UNCHANGED <<loop, hung, row, pub, hurt, faults>>, TypeOK',
         proc' = "gone" => proc = "gone",
         \A s \in Sources : adapter'[s] # "open" => proc' = "draining" /\ loop[s].pc = "ended"
  PROVE  IInv'
<1>1. BatchShape' /\ CloseOrder'
  BY DEF IInv, BatchShape, CloseOrder
<1>2. \A e \in Events : Stage(e)'
  BY DEF IInv, Stage, At
<1>3. QED
  BY <1>1, <1>2 DEF IInv

LEMMA DrainKeeps ==
  ASSUME IInv, Stop \/ DeadlinePasses \/ \E s \in Sources : Close(s) \/ Closed(s)
  PROVE  IInv'
<1>1. CASE Stop \/ DeadlinePasses
  <2>1. UNCHANGED <<loop, hung, row, pub, hurt, faults, adapter, runs>> /\ proc' = "draining"
        /\ deadline' \in {"armed", "passed"}
    BY <1>1 DEF Stop, DeadlinePasses, NoFault
  <2>2. TypeOK'
    BY <2>1 DEF IInv, TypeOK
  <2>3. QED
    BY <2>1, <2>2, StillFrame DEF IInv, CloseOrder
<1>2. ASSUME NEW s \in Sources, Close(s) \/ Closed(s) PROVE IInv'
  <2>1. /\ UNCHANGED <<loop, hung, row, pub, hurt, faults, proc, runs, deadline>>
        /\ proc = "draining"
        /\ loop[s].pc = "ended"
        /\ adapter' \in [Sources -> {"open", "closing", "closed"}]
        /\ \A r \in Sources : r # s => adapter'[r] = adapter[r]
    BY <1>2 DEF Close, Closed, NoFault, IInv, TypeOK, CloseOrder
  <2>2. TypeOK'
    BY <2>1 DEF IInv, TypeOK
  <2>3. QED
    BY <2>1, <2>2, StillFrame DEF IInv, CloseOrder
<1>3. QED
  BY <1>1, <1>2

\* When the process ends, an unhurt loop holds no batch.
LEMMA GoneKeeps ==
  ASSUME IInv, Gone, hurt \subseteq hurt', hurt' \subseteq Sources, faults' \in 0 .. MaxFaults,
         \A s \in Sources : s \notin hurt' => loop[s].batch = {}
  PROVE  IInv'
<1>1. Idle("ended") \in Pos /\ Idle("ended").batch = {} /\ Idle("ended").pc = "ended"
  BY DEF Idle, Pos
<1>2. /\ loop' \in [Sources -> Pos]
      /\ \A s \in Sources : loop'[s].batch = {} /\ loop'[s].pc = "ended"
  BY <1>1 DEF Gone
<1>3. TypeOK'
  BY <1>2 DEF Gone, IInv, TypeOK
<1>4. BatchShape' /\ CloseOrder'
  BY <1>2 DEF Gone, BatchShape, CloseOrder, InHand
<1>5. ASSUME NEW e \in Events PROVE Stage(e)'
  <2>1. SourceOf[e] \in Sources /\ Stage(e)
    BY RelayAssumption DEF IInv
  <2>2. QED
    BY <1>2, <2>1 DEF Gone, Stage
<1>6. QED
  BY <1>3, <1>4, <1>5 DEF IInv

LEMMA ExitKeeps ==
  ASSUME IInv, Exit \/ Crash
  PROVE  IInv'
<1>1. CASE Exit
  <2>1. ASSUME NEW s \in Sources, s \notin hurt' PROVE loop[s].batch = {}
    <3>1. CASE deadline = "passed"
      BY <1>1, <2>1, <3>1 DEF Exit, Working, InHand, IInv, BatchShape
    <3>2. CASE adapter[s] = "closed"
      BY <3>2 DEF IInv, CloseOrder, BatchShape, InHand
    <3>3. QED
      BY <1>1, <3>1, <3>2 DEF Exit, Drained
  <2>2. hurt \subseteq hurt' /\ hurt' \subseteq Sources /\ faults' \in 0 .. MaxFaults
    BY <1>1 DEF Exit, IInv, TypeOK
  <2>3. QED
    BY <1>1, <2>1, <2>2, GoneKeeps DEF Exit
<1>2. CASE Crash
  <2>1. hurt' = Sources /\ faults' \in 0 .. MaxFaults /\ hurt \subseteq Sources
    BY <1>2, RelayAssumption DEF Crash, FaultOf, IInv, TypeOK
  <2>2. QED
    BY <1>2, <2>1, GoneKeeps DEF Crash
<1>3. QED
  BY <1>1, <1>2

LEMMA StartKeeps ==
  ASSUME IInv, Start
  PROVE  IInv'
<1>1. Idle("ready") \in Pos /\ Idle("ready").batch = {} /\ Idle("ready").pc = "ready"
  BY DEF Idle, Pos
<1>2. /\ loop' \in [Sources -> Pos]
      /\ \A s \in Sources : loop'[s].batch = {} /\ loop'[s].pc = "ready"
  BY <1>1 DEF Start
<1>3. runs' \in 1 .. MaxRuns
  BY RelayAssumption DEF Start, IInv, TypeOK
<1>4. TypeOK'
  BY <1>2, <1>3 DEF Start, NoFault, IInv, TypeOK
<1>5. \A s \in Sources : loop[s].batch = {} /\ adapter[s] = "open"
  BY DEF Start, IInv, BatchShape, CloseOrder
<1>6. BatchShape' /\ CloseOrder'
  BY <1>2, <1>5 DEF Start, NoFault, IInv, BatchShape, CloseOrder, InHand
<1>7. ASSUME NEW e \in Events PROVE Stage(e)'
  <2>1. SourceOf[e] \in Sources /\ Stage(e)
    BY RelayAssumption DEF IInv
  <2>2. QED
    BY <1>2, <1>5, <2>1 DEF Start, NoFault, Stage
<1>8. QED
  BY <1>4, <1>6, <1>7 DEF IInv

-----------------------------------------------------------------------------
(* The invariant.                                                          *)

LEMMA InitIInv ==
  ASSUME Init
  PROVE  IInv
<1>1. Idle("ready") \in Pos /\ Idle("ready").batch = {} /\ Idle("ready").pc = "ready"
  BY DEF Idle, Pos
<1>2. \A s \in Sources : loop[s] = Idle("ready")
  BY DEF Init
<1>3. TypeOK
  BY <1>1, RelayAssumption DEF Init, TypeOK
<1>4. BatchShape /\ CloseOrder
  BY <1>1, <1>2 DEF Init, BatchShape, CloseOrder, InHand
<1>5. \A e \in Events : Stage(e)
  BY <1>1, <1>2, RelayAssumption DEF Init, Stage
<1>6. QED
  BY <1>3, <1>4, <1>5 DEF IInv

LEMMA NextIInv ==
  ASSUME IInv, [Next]_vars
  PROVE  IInv'
<1>1. ASSUME NEW s \in Sources, LoopStep(s) PROVE IInv'
  BY <1>1, RoundKeeps, ClaimKeeps, PublishKeeps, CompleteKeeps, FailKeeps DEF LoopStep
<1>2. ASSUME NEW s \in Sources, LoopFault(s) PROVE IInv'
  BY <1>2, ClaimThrowsKeeps, PublishKeeps, CompleteThrowsKeeps, FailKeeps, HangKeeps
  DEF LoopFault
<1>3. ASSUME NEW s \in Sources, Close(s) \/ Closed(s) \/ CloseHangs(s) PROVE IInv'
  BY <1>3, DrainKeeps, HangKeeps
<1>4. ASSUME NEW e \in Events, LeaseExpires(e) PROVE IInv'
  BY <1>4, LeaseExpiresKeeps
<1>5. CASE Stop \/ DeadlinePasses
  BY <1>5, DrainKeeps
<1>6. CASE Finish \/ Crash
  BY <1>6, ExitKeeps, StartKeeps DEF Finish
<1>7. CASE UNCHANGED vars
  <2>1. TypeOK'
    BY <1>7 DEF IInv, TypeOK, vars, procVars
  <2>2. QED
    BY <1>7, <2>1, StillFrame DEF vars, procVars, IInv, CloseOrder
<1>8. QED
  BY <1>1, <1>2, <1>3, <1>4, <1>5, <1>6, <1>7 DEF Next

\* Every event of a source without faults is in one of its four stages, over any number of
\* stops and restarts.
THEOREM InductiveInvariant == Spec => []IInv
<1>1. Init => IInv
  BY InitIInv
<1>2. IInv /\ [Next]_vars => IInv'
  BY NextIInv
<1>3. QED
  BY <1>1, <1>2, PTL DEF Spec

\* Every variable keeps its shape.
THEOREM TypeCorrect == Spec => []TypeOK
<1>1. IInv => TypeOK
  BY DEF IInv
<1>2. QED
  BY <1>1, InductiveInvariant, PTL

\* A source that met no fault and was not cut off by the deadline publishes nothing twice and
\* leaves no lease behind, whatever happens to the other sources.
THEOREM UnhurtIsExact == Spec => []UnhurtRepeatsNothing
<1>1. IInv => UnhurtRepeatsNothing
  <2> SUFFICES ASSUME IInv, NEW e \in Events, SourceOf[e] \notin hurt
               PROVE  /\ pub[e] < 2 /\ (pub[e] = 1 => row[e] # "pending")
                      /\ row[e] = "leased" => e \in loop[SourceOf[e]].batch
                      /\ row[e] # "expired"
    BY DEF UnhurtRepeatsNothing
  <2>1. Stage(e)
    BY DEF IInv
  <2>2. QED
    BY <2>1 DEF Stage
<1>2. QED
  BY <1>1, InductiveInvariant, PTL
=============================================================================
