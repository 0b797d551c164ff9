----------------------- MODULE StandardCharge_proofs -----------------------
(***************************************************************************)
(* For any batteries, percentages, files and failures: the windows of a      *)
(* driver that stores what it is given stay valid, reports are true, and     *)
(* what is remembered is what the driver holds.                              *)
(***************************************************************************)
EXTENDS StandardCharge, SequenceTheorems, TLAPS

Ops == [attr : {"start", "end"}, value : Percents]

(* A window stays valid while the writes are applied one after the other.    *)
Safe(w, todo) ==
    /\ Valid(w)
    /\ Len(todo) > 0 => Valid(Applied(w, todo[1]))
    /\ Len(todo) > 1 => Valid(Applied(Applied(w, todo[1]), todo[2]))

(* What is still to be written: at most the two attributes, a start only for *)
(* a battery that has one.                                                   *)
OpsInv ==
    /\ ops \in Seq(Ops) /\ Len(ops) <= 2
    /\ pc \in {"write", "restore"} => ops # <<>>
    /\ bat \notin StartBatteries => \A i \in 1..Len(ops) : ops[i].attr = "end"

IInv ==
    /\ TypeOK
    /\ OpsInv
    /\ WindowStaysValid
    /\ bat \notin altered /\ pc # "idle" => Valid(old)
    /\ bat \notin altered /\ pc \in {"write", "restore"} => Safe(dev[bat], ops)
    /\ \A b \in pending : saved[b] # NoEntry

-----------------------------------------------------------------------------
\* Two writes in a row.
LEMMA PairOfSingletons ==
    ASSUME NEW x, NEW y
    PROVE  <<x>> \o <<y>> = <<x, y>>
<1> DEFINE D == {x, y}
<1>1. <<x>> \in Seq(D) /\ <<y>> \in Seq(D) /\ <<x, y>> \in Seq(D)
  OBVIOUS
<1>2. <<x>> \o <<y>> \in Seq(D) /\ Len(<<x>> \o <<y>>) = 2
  BY <1>1
<1>3. \A i \in 1..2 : (<<x>> \o <<y>>)[i] = <<x, y>>[i]
  BY <1>1
<1> QED BY <1>1, <1>2, <1>3, SeqEqual

\* A write and nothing.
LEMMA SingletonAndEmpty ==
    ASSUME NEW x
    PROVE  <<x>> \o <<>> = <<x>> /\ <<>> \o <<x>> = <<x>>
BY ConcatEmptySeq, <<x>> \in Seq({x})

(* write_window, from what was seen of the present window: all of it, or the *)
(* end only.                                                                 *)
LEMMA WriteWindowSafe ==
    ASSUME NEW w \in Window, NEW seen \in Window, NEW to \in Window,
           seen.end = w.end, seen.start \in {w.start, NoValue},
           w.start = NoValue <=> to.start = NoValue
    PROVE  /\ WriteWindow(seen, to) \in Seq(Ops)
           /\ Len(WriteWindow(seen, to)) <= 2
           /\ w.start = NoValue =>
                  \A i \in 1..Len(WriteWindow(seen, to)) :
                      WriteWindow(seen, to)[i].attr = "end"
           /\ seen # to => WriteWindow(seen, to) # <<>>
           /\ Valid(w) /\ Valid(to) => Safe(w, WriteWindow(seen, to))
<1> USE PercentsAreNaturals
<1> DEFINE s == Op("start", to.start)
           e == Op("end", to.end)
           S == StartOps(seen, to) # <<>>
           E == EndOps(seen, to) # <<>>
<1>1. /\ S <=> to.start \notin {NoValue, seen.start}
      /\ E <=> to.end # seen.end
      /\ S => StartOps(seen, to) = <<s>>
      /\ ~S => StartOps(seen, to) = <<>>
      /\ E => EndOps(seen, to) = <<e>>
      /\ ~E => EndOps(seen, to) = <<>>
  BY DEF StartOps, EndOps
<1>2. /\ S => s \in Ops
      /\ e \in Ops
      /\ s.attr = "start" /\ s.value = to.start
      /\ e.attr = "end" /\ e.value = to.end
  BY <1>1 DEF Op, Ops, Window
<1>a. /\ <<>> \o <<>> = <<>>
      /\ <<s>> \o <<>> = <<s>>
      /\ <<>> \o <<s>> = <<s>>
      /\ <<>> \o <<e>> = <<e>>
      /\ <<e>> \o <<>> = <<e>>
      /\ <<s>> \o <<e>> = <<s, e>>
      /\ <<e>> \o <<s>> = <<e, s>>
  BY PairOfSingletons, SingletonAndEmpty
<1> DEFINE V == Valid(w) /\ Valid(to)
<1> HIDE DEF s, e
<1>3. CASE ~S /\ ~E
  <2>1. WriteWindow(seen, to) = <<>>
    BY <1>1, <1>3 DEF WriteWindow
  <2>2. seen = to
    BY <1>1, <1>3 DEF Window
  <2> QED BY <2>1, <2>2 DEF Safe
<1>4. CASE S /\ ~E
  <2>1. WriteWindow(seen, to) = <<s>>
    BY <1>1, <1>4, <1>a DEF WriteWindow
  <2>2. V => Valid(Applied(w, s))
    BY <1>1, <1>2, <1>4 DEF Applied, Valid, Window
  <2> QED BY <1>1, <1>2, <1>4, <2>1, <2>2 DEF Safe
<1>5. CASE ~S /\ E
  <2>1. WriteWindow(seen, to) = <<e>>
    BY <1>1, <1>5, <1>a DEF WriteWindow
  <2>2. V => Valid(Applied(w, e))
    BY <1>1, <1>2, <1>5 DEF Applied, Valid, Window
  <2> QED BY <1>1, <1>2, <1>5, <2>1, <2>2 DEF Safe
<1>6. CASE S /\ E
  <2>1. V => Valid(Applied(Applied(w, s), e)) /\ Valid(Applied(Applied(w, e), s))
    BY <1>1, <1>2, <1>6 DEF Applied, Valid, Window
  <2>2. CASE to.start >= seen.end
    <3>1. WriteWindow(seen, to) = <<e, s>>
      BY <1>1, <1>6, <2>2, <1>a DEF WriteWindow
    <3>2. V => Valid(Applied(w, e))
      BY <1>1, <1>2, <1>6, <2>2 DEF Applied, Valid, Window
    <3> QED BY <1>1, <1>2, <1>6, <2>1, <3>1, <3>2 DEF Safe
  <2>3. CASE ~(to.start >= seen.end)
    <3>1. WriteWindow(seen, to) = <<s, e>>
      BY <1>1, <1>6, <2>3, <1>a DEF WriteWindow
    <3>2. V => Valid(Applied(w, s))
      BY <1>1, <1>2, <1>6, <2>3 DEF Applied, Valid, Window
    <3> QED BY <1>1, <1>2, <1>6, <2>1, <3>1, <3>2 DEF Safe
  <2> QED BY <2>2, <2>3
<1> QED BY <1>3, <1>4, <1>5, <1>6

\* A write to an attribute a battery has leaves it a window.
LEMMA AppliedTyped ==
    ASSUME NEW b \in Batteries, NEW w \in WindowOf(b), NEW op \in Ops,
           b \notin StartBatteries => op.attr = "end"
    PROVE  Applied(w, op) \in WindowOf(b)
BY PercentsAreNaturals DEF Applied, WindowOf, Window, Ops

\* The first of the remaining writes, and what remains after it.
LEMMA HeadAndTail ==
    ASSUME NEW todo \in Seq(Ops), todo # <<>>, Len(todo) <= 2
    PROVE  /\ Head(todo) = todo[1] /\ Head(todo) \in Ops
           /\ Tail(todo) \in Seq(Ops) /\ Len(Tail(todo)) = Len(todo) - 1
           /\ Len(todo) \in {1, 2}
           /\ Len(todo) > 1 => Tail(todo)[1] = todo[2] /\ Tail(todo) # <<>>
           /\ \A i \in 1..Len(Tail(todo)) : Tail(todo)[i] = todo[i + 1]
<1>1. /\ Head(todo) = todo[1] /\ Head(todo) \in Ops
      /\ Tail(todo) \in Seq(Ops) /\ Len(Tail(todo)) = Len(todo) - 1
      /\ \A i \in 1..Len(Tail(todo)) : Tail(todo)[i] = todo[i + 1]
  BY HeadTailProperties
<1>2. Len(todo) \in Nat /\ Len(todo) # 0
  BY EmptySeq
<1>3. Len(todo) \in {1, 2}
  <2> DEFINE n == Len(todo)
  <2>1. n \in Nat /\ n # 0 /\ n <= 2
    BY <1>2
  <2> HIDE DEF n
  <2>2. n \in {1, 2}
    BY <2>1
  <2> QED BY <2>2 DEF n
<1>4. Len(todo) > 1 => Tail(todo)[1] = todo[2] /\ Tail(todo) # <<>>
  <2> SUFFICES ASSUME Len(todo) > 1
               PROVE  Tail(todo)[1] = todo[2] /\ Tail(todo) # <<>>
    OBVIOUS
  <2>1. Len(Tail(todo)) = 1
    BY <1>1, <1>3
  <2>2. Tail(todo)[1] = todo[1 + 1]
    BY <1>1, <2>1
  <2> QED BY <2>1, <2>2
<1> QED BY <1>1, <1>3, <1>4

-----------------------------------------------------------------------------
\* What a transaction can start with.
LEMMA BeginStep ==
    ASSUME IInv, NEW b \in Batteries, NEW req \in Window, Begin(b, req),
           pending' \subseteq pending
    PROVE  IInv'
<1> USE PercentsAreNaturals, BatteriesTyped, FaultsTyped, NoWindow
<1>1. CASE UNCHANGED <<pc, locals>>
  BY <1>1 DEF Begin, IInv, TypeOK, OpsInv, WindowStaysValid, device, locals
<1>2. ASSUME NEW seen \in Observations(b), Accepted(b, req, seen),
             bat' = b, old' = seen, target' = Completed(req, seen),
             ops' = WriteWindow(seen, target'),
             pc' = IF target' = seen THEN "record" ELSE "write",
             outcome' = "none", faults' \in 0..MaxFaults
      PROVE  IInv'
  <2>1. seen = dev[b] /\ dev[b] \in WindowOf(b) /\ (b \notin altered => Valid(seen))
    BY <1>2 DEF Observations, Accepted, IInv, TypeOK, WindowStaysValid, WindowOf,
                Window
  <2>2. target' \in WindowOf(b) /\ Valid(target')
    BY <1>2, <2>1 DEF Accepted, Completed, WindowOf, Window
  <2>3. /\ ops' \in Seq(Ops) /\ Len(ops') <= 2
        /\ b \notin StartBatteries => \A i \in 1..Len(ops') : ops'[i].attr = "end"
        /\ pc' = "write" => ops' # <<>>
        /\ b \notin altered => Safe(dev[b], ops')
    BY <1>2, <2>1, <2>2, WriteWindowSafe DEF WindowOf
  <2>4. UNCHANGED <<dev, altered, file, saved, phase, suspect>>
    BY DEF Begin, device
  <2>5. TypeOK'
    BY <1>2, <2>1, <2>2, <2>3, <2>4 DEF IInv, TypeOK, Ops, WindowOf
  <2>6. OpsInv'
    BY <1>2, <2>3 DEF OpsInv
  <2>7. WindowStaysValid'
    BY <2>4 DEF IInv, WindowStaysValid
  <2>8. (bat \notin altered /\ pc # "idle" => Valid(old))'
    BY <1>2, <2>1, <2>4 DEF Valid
  <2>9. (bat \notin altered /\ pc \in {"write", "restore"} => Safe(dev[bat], ops))'
    BY <1>2, <2>3, <2>4
  <2>10. (\A c \in pending : saved[c] # NoEntry)'
    BY <2>4 DEF IInv
  <2> QED BY <2>5, <2>6, <2>7, <2>8, <2>9, <2>10 DEF IInv
<1> QED BY <1>1, <1>2 DEF Begin

\* The driver has taken, in time or late, the next write.
LEMMA WriteStep ==
    ASSUME IInv, pc \in {"write", "restore"},
           dev' = [dev EXCEPT ![bat] = Applied(@, Head(ops))], UNCHANGED altered
    PROVE  /\ dev' \in [Batteries -> Window]
           /\ \A b \in Batteries : dev'[b] \in WindowOf(b)
           /\ WindowStaysValid'
           /\ ops # <<>> /\ Tail(ops) \in Seq(Ops) /\ Len(Tail(ops)) <= 1
           /\ Len(ops) > 1 => Tail(ops) # <<>>
           /\ bat \notin StartBatteries =>
                  \A i \in 1..Len(Tail(ops)) : Tail(ops)[i].attr = "end"
           /\ bat \notin altered => Safe(dev'[bat], Tail(ops))
<1>1. /\ ops # <<>> /\ ops \in Seq(Ops) /\ Len(ops) <= 2
      /\ bat \in Batteries /\ dev[bat] \in WindowOf(bat)
      /\ bat \notin altered => Safe(dev[bat], ops)
      /\ bat \notin StartBatteries => \A i \in 1..Len(ops) : ops[i].attr = "end"
  BY DEF IInv, OpsInv, TypeOK
<1>2. /\ Head(ops) = ops[1] /\ Head(ops) \in Ops
      /\ Tail(ops) \in Seq(Ops) /\ Len(Tail(ops)) = Len(ops) - 1
      /\ Len(ops) \in {1, 2}
      /\ Len(ops) > 1 => Tail(ops)[1] = ops[2] /\ Tail(ops) # <<>>
      /\ \A i \in 1..Len(Tail(ops)) : Tail(ops)[i] = ops[i + 1]
  BY <1>1, HeadAndTail
<1>3. dev'[bat] = Applied(dev[bat], ops[1]) /\ dev'[bat] \in WindowOf(bat)
  BY <1>1, <1>2, AppliedTyped DEF IInv, TypeOK
<1>4. \A b \in Batteries : b # bat => dev'[b] = dev[b]
  BY DEF IInv, TypeOK
<1>5. bat \notin altered => Valid(dev'[bat])
  BY <1>1, <1>2, <1>3 DEF Safe
<1>6. bat \notin altered => Safe(dev'[bat], Tail(ops))
  BY <1>1, <1>2, <1>3, <1>5 DEF Safe
<1>7. bat \notin StartBatteries =>
          \A i \in 1..Len(Tail(ops)) : Tail(ops)[i].attr = "end"
  BY <1>1, <1>2
<1> QED BY <1>1, <1>2, <1>3, <1>4, <1>5, <1>6, <1>7
        DEF IInv, TypeOK, WindowStaysValid, WindowOf

\* Every step of a transaction keeps the invariant.
LEMMA TransactionStep ==
    ASSUME IInv, Transaction
    PROVE  IInv'
<1> USE PercentsAreNaturals, BatteriesTyped, FaultsTyped, NoWindow
<1>1. CASE WriteAttr
  <2>1. /\ pc \in {"write", "restore"}
        /\ dev' = [dev EXCEPT ![bat] = Applied(@, Head(ops))]
        /\ ops' = Tail(ops)
        /\ pc' = IF Len(ops) > 1 THEN pc
                 ELSE IF pc = "write" THEN "verify" ELSE "verify_restore"
        /\ UNCHANGED <<altered, file, saved, phase, pending, bat, old, target,
                       outcome, faults, suspect>>
    BY <1>1 DEF WriteAttr
  <2>2. TypeOK'
    BY <2>1, WriteStep DEF IInv, TypeOK, Ops
  <2>3. OpsInv'
    BY <2>1, WriteStep DEF IInv, OpsInv
  <2> QED BY <2>1, <2>2, <2>3, WriteStep DEF IInv, Valid
<1>2. CASE WriteAltered
  <2>1. PICK v \in Percents :
            dev' = [dev EXCEPT ![bat] = Applied(@, [Head(ops) EXCEPT !.value = v])]
    BY <1>2 DEF WriteAltered
  <2>2. /\ pc \in {"write", "restore"}
        /\ altered' = altered \cup {bat} /\ faults' \in 0..MaxFaults
        /\ ops' = Tail(ops)
        /\ pc' = IF Len(ops) > 1 THEN pc
                 ELSE IF pc = "write" THEN "verify" ELSE "verify_restore"
        /\ UNCHANGED <<file, saved, phase, pending, bat, old, target, outcome, suspect>>
    BY <1>2 DEF WriteAltered, IInv, TypeOK
  <2>3. /\ ops # <<>> /\ ops \in Seq(Ops) /\ Len(ops) <= 2
        /\ bat \in Batteries /\ dev[bat] \in WindowOf(bat)
        /\ bat \notin StartBatteries => \A i \in 1..Len(ops) : ops[i].attr = "end"
    BY <2>2 DEF IInv, OpsInv, TypeOK
  <2>4. /\ Head(ops) = ops[1] /\ Head(ops) \in Ops
        /\ Tail(ops) \in Seq(Ops) /\ Len(Tail(ops)) = Len(ops) - 1
        /\ Len(ops) \in {1, 2}
        /\ Len(ops) > 1 => Tail(ops) # <<>>
        /\ \A i \in 1..Len(Tail(ops)) : Tail(ops)[i] = ops[i + 1]
    BY <2>3, HeadAndTail
  <2>5. dev'[bat] \in WindowOf(bat)
    <3> DEFINE op == [Head(ops) EXCEPT !.value = v]
    <3>1. op \in Ops /\ (bat \notin StartBatteries => op.attr = "end")
      BY <2>3, <2>4 DEF Ops
    <3>2. dev'[bat] = Applied(dev[bat], op)
      BY <2>1, <2>3 DEF IInv, TypeOK
    <3> HIDE DEF op
    <3> QED BY <2>3, <3>1, <3>2, AppliedTyped
  <2>6. /\ dev' \in [Batteries -> Window]
        /\ \A b \in Batteries : b # bat => dev'[b] = dev[b]
    BY <2>1, <2>3, <2>5 DEF IInv, TypeOK, WindowOf
  <2>7. TypeOK'
    BY <2>2, <2>3, <2>4, <2>5, <2>6 DEF IInv, TypeOK, Ops
  <2>8. OpsInv'
    BY <2>2, <2>3, <2>4 DEF IInv, OpsInv
  <2>9. WindowStaysValid'
    BY <2>2, <2>6 DEF IInv, WindowStaysValid
  <2> QED BY <2>2, <2>7, <2>8, <2>9 DEF IInv
<1>3. CASE WriteFails
  <2>1. /\ ops' = <<>> /\ pc' \in {"read_current", "idle"}
        /\ outcome' \in {outcome, "restore_failed"}
        /\ faults' \in 0..MaxFaults
        /\ suspect' \subseteq Batteries
        /\ UNCHANGED <<altered, file, saved, phase, pending, bat, old, target>>
    BY <1>3 DEF WriteFails, End, IInv, TypeOK
  <2>2. /\ dev' \in [Batteries -> Window]
        /\ \A b \in Batteries : dev'[b] \in WindowOf(b)
        /\ WindowStaysValid'
    <3>1. CASE UNCHANGED dev
      BY <2>1, <3>1 DEF IInv, TypeOK, WindowStaysValid
    <3>2. CASE dev' = [dev EXCEPT ![bat] = Applied(@, Head(ops))]
      BY <1>3, <2>1, <3>2, WriteStep DEF WriteFails
    <3> QED BY <1>3, <3>1, <3>2 DEF WriteFails
  <2>3. TypeOK'
    BY <2>1, <2>2 DEF IInv, TypeOK
  <2>4. pc \in {"write", "restore"}
    BY <1>3 DEF WriteFails
  <2> QED BY <2>1, <2>2, <2>3, <2>4 DEF IInv, OpsInv, Valid
<1>4. CASE Verify
  BY <1>4 DEF Verify, Observe, IInv, TypeOK, OpsInv, WindowStaysValid, locals, device, Valid
<1>5. CASE ReadCurrent
  <2>1. PICK seen \in Observations(bat) :
            /\ Observe(bat, seen)
            /\ IF seen = Unreadable
               THEN /\ End("restore_failed")
                    /\ suspect' = suspect \cup {bat}
                    /\ UNCHANGED ops
               ELSE /\ ops' = WriteWindow(seen, old)
                    /\ pc' = IF ops' = <<>> THEN "verify_restore" ELSE "restore"
                    /\ UNCHANGED <<outcome, suspect>>
    BY <1>5 DEF ReadCurrent
  <2>2. /\ pc = "read_current"
        /\ UNCHANGED <<dev, altered, file, saved, phase, pending, bat, old, target>>
        /\ faults' \in 0..MaxFaults
    BY <1>5, <2>1 DEF ReadCurrent, Observe, device, IInv, TypeOK
  <2>3. CASE seen = Unreadable
    BY <2>1, <2>2, <2>3 DEF End, IInv, TypeOK, OpsInv, WindowStaysValid, Valid
  <2>4. CASE seen # Unreadable
    <3>1. /\ dev[bat] \in WindowOf(bat)
          /\ old \in WindowOf(bat)
          /\ bat \notin altered => Valid(dev[bat]) /\ Valid(old)
      BY <2>2 DEF IInv, TypeOK, WindowStaysValid
    <3>2. /\ seen \in Window /\ seen.end = dev[bat].end
          /\ seen.start \in {dev[bat].start, NoValue}
      BY <2>4, <3>1 DEF Observations, WindowOf, Window
    <3>3. /\ ops' \in Seq(Ops) /\ Len(ops') <= 2
          /\ bat \notin StartBatteries => \A i \in 1..Len(ops') : ops'[i].attr = "end"
          /\ bat \notin altered => Safe(dev[bat], ops')
      <4> DEFINE W == WriteWindow(seen, old)
      <4>1. /\ W \in Seq(Ops) /\ Len(W) <= 2
            /\ dev[bat].start = NoValue => \A i \in 1..Len(W) : W[i].attr = "end"
            /\ bat \notin altered => Safe(dev[bat], W)
        BY <3>1, <3>2, WriteWindowSafe DEF WindowOf
      <4>2. ops' = W
        BY <2>1, <2>4
      <4> QED BY <3>1, <4>1, <4>2 DEF WindowOf
    <3>4. TypeOK'
      BY <2>1, <2>2, <2>4, <3>3 DEF IInv, TypeOK, Ops
    <3>5. OpsInv'
      BY <2>1, <2>2, <2>4, <3>3 DEF OpsInv
    <3> QED BY <2>2, <3>3, <3>4, <3>5 DEF IInv, WindowStaysValid, Valid
  <2> QED BY <2>3, <2>4
<1>6. CASE VerifyRestore
  BY <1>6 DEF VerifyRestore, Observe, End, IInv, TypeOK, OpsInv, WindowStaysValid,
              device, locals, device, Valid
<1>7. CASE Record
  BY <1>7 DEF Record, End, IInv, TypeOK, OpsInv, WindowStaysValid, locals, device, Valid,
              WindowOf
<1>8. CASE Persist
  BY <1>8 DEF Persist, End, IInv, TypeOK, OpsInv, WindowStaysValid, locals, device, Valid
<1> QED BY <1>1, <1>2, <1>3, <1>4, <1>5, <1>6, <1>7, <1>8 DEF Transaction

-----------------------------------------------------------------------------
\* The invariant holds throughout.
LEMMA Invariance == Spec => []IInv
<1> USE PercentsAreNaturals, BatteriesTyped, FaultsTyped
<1>1. Init => IInv
  BY DEF Init, IInv, TypeOK, OpsInv, WindowStaysValid, WindowOf, Ops
<1>2. IInv /\ [Next]_vars => IInv'
  <2> SUFFICES ASSUME IInv, [Next]_vars PROVE IInv'
    OBVIOUS
  <2>1. CASE Load
    BY <2>1 DEF Load, IInv, TypeOK, OpsInv, WindowStaysValid, locals, device, Valid
  <2>2. CASE Serve
    BY <2>2 DEF Serve, IInv, TypeOK, OpsInv, WindowStaysValid, locals, device, Valid
  <2>3. ASSUME NEW b \in Batteries, Replay(b) PROVE IInv'
    <3>1. CASE saved[b] \in Window
      BY <2>3, <3>1, BeginStep DEF Replay, IInv, TypeOK
    <3>2. CASE saved[b] = NoEntry
      BY <2>3, <3>2 DEF Replay, IInv
    <3> QED BY <3>1, <3>2 DEF IInv, TypeOK
  <2>4. ASSUME NEW b \in Batteries, NEW req \in Window, Request(b, req) PROVE IInv'
    BY <2>4, BeginStep DEF Request, IInv, TypeOK
  <2>5. CASE Transaction
    BY <2>5, TransactionStep
  <2>6. CASE Killed \/ PowerLoss
    <3>1. /\ phase' = "down" /\ saved' = [b \in Batteries |-> NoEntry]
          /\ pending' = {} /\ pc' = "idle" /\ ops' = <<>> /\ outcome' = "none"
          /\ faults' = 0 /\ suspect' = Batteries
          /\ UNCHANGED <<file, bat, old, target>>
          /\ \/ dev' = dev /\ altered' = altered
             \/ dev' = PowerOnWindow /\ altered' = {}
      BY <2>6 DEF Killed, PowerLoss, Forget, device
    <3>2. /\ dev' \in [Batteries -> Window]
          /\ \A b \in Batteries : dev'[b] \in WindowOf(b)
          /\ altered' \subseteq Batteries
          /\ \A b \in Batteries \ altered' : Valid(dev'[b])
      BY <3>1 DEF IInv, TypeOK, WindowStaysValid
    <3>3. TypeOK'
      BY <3>1, <3>2 DEF IInv, TypeOK
    <3>4. OpsInv'
      BY <3>1 DEF IInv, OpsInv
    <3> QED BY <3>1, <3>2, <3>3, <3>4 DEF IInv, WindowStaysValid
  <2>7. CASE UNCHANGED vars
    BY <2>7 DEF vars, device, locals, IInv, TypeOK, OpsInv, WindowStaysValid, Valid
  <2> QED BY <2>1, <2>2, <2>3, <2>4, <2>5, <2>6, <2>7 DEF Next
<1> QED BY <1>1, <1>2, PTL DEF Spec

\* Type correctness, for every set of batteries and percentages.
THEOREM ChargeTypes == Spec => []TypeOK
<1>1. IInv => TypeOK
  BY DEF IInv
<1> QED BY <1>1, Invariance, PTL

\* Every window the driver passes through is valid, for any percentages.
THEOREM WindowsValid == Spec => []WindowStaysValid
<1>1. IInv => WindowStaysValid
  BY DEF IInv
<1> QED BY <1>1, Invariance, PTL

-----------------------------------------------------------------------------
(* Reports and memory.                                                       *)

(* Past its verification a transaction has the window it asked for; until    *)
(* then the old one is what the daemon remembers.                            *)
TruthInv ==
    /\ pc \in {"record", "persist"} => dev[bat] = target
    /\ OutcomeHonest
    /\ \A b \in Batteries \ suspect :
        /\ saved[b] # NoEntry
        /\ b # bat \/ pc \in {"idle", "persist"} => Matches(saved[b], dev[b])
        /\ b = bat /\ pc \notin {"idle", "record", "persist"} => Matches(saved[b], old)

\* A reading with every attribute the battery has is the driver's window.
LEMMA SeenWhole ==
    ASSUME NEW b \in Batteries, dev[b] \in WindowOf(b), dev[b] \in Window,
           NEW seen \in Observations(b), seen # Unreadable,
           b \in StartBatteries => seen.start # NoValue
    PROVE  seen = dev[b]
<1>1. CASE seen = [dev[b] EXCEPT !.start = NoValue]
  <2>1. b \notin StartBatteries
    BY <1>1 DEF Window
  <2> QED BY <1>1, <2>1 DEF WindowOf, Window
<1> QED BY <1>1 DEF Observations

\* A transaction begins from what the daemon knows.
LEMMA TruthBegin ==
    ASSUME IInv, TruthInv, NEW b \in Batteries, NEW req \in Window, Begin(b, req)
    PROVE  TruthInv'
<1> USE NoWindow
<1>1. PICK seen \in Observations(b) :
        IF ~Accepted(b, req, seen)
        THEN /\ outcome' = "error"
             /\ UNCHANGED <<pc, locals>>
        ELSE /\ bat' = b
             /\ old' = seen
             /\ target' = Completed(req, seen)
             /\ ops' = WriteWindow(seen, target')
             /\ pc' = IF target' = seen THEN "record" ELSE "write"
             /\ outcome' = "none"
  BY DEF Begin
<1>2. pc = "idle" /\ UNCHANGED <<dev, saved, suspect>>
  BY DEF Begin, device
<1>3. CASE ~Accepted(b, req, seen)
  BY <1>1, <1>2, <1>3 DEF TruthInv, OutcomeHonest, locals
<1>4. CASE Accepted(b, req, seen)
  <2>1. seen = dev[b]
    BY <1>4, SeenWhole DEF Accepted, IInv, TypeOK
  <2> QED BY <1>1, <1>2, <1>4, <2>1 DEF TruthInv, OutcomeHonest
<1> QED BY <1>3, <1>4

\* Every step of a transaction keeps what is known true.
LEMMA TruthTransaction ==
    ASSUME IInv, TruthInv, Transaction
    PROVE  TruthInv'
<1> USE NoWindow
<1>0. /\ bat \in Batteries /\ dev[bat] \in WindowOf(bat) /\ dev[bat] \in Window
      /\ old \in WindowOf(bat) /\ target \in WindowOf(bat)
      /\ dev \in [Batteries -> Window]
  BY DEF IInv, TypeOK
<1>1. CASE WriteAttr \/ WriteAltered \/ WriteFails
  <2>1. \A b \in Batteries : b # bat => dev'[b] = dev[b]
    BY <1>0, <1>1 DEF WriteAttr, WriteAltered, WriteFails
  <2>2. /\ pc \in {"write", "restore"}
        /\ UNCHANGED <<saved, bat, old, target>>
        /\ \/ /\ pc' = "idle" /\ outcome' = "restore_failed"
              /\ suspect' = suspect \cup {bat}
           \/ /\ pc' \in {"write", "restore", "verify", "verify_restore", "read_current"}
              /\ suspect' = suspect
    BY <1>1 DEF WriteAttr, WriteAltered, WriteFails, End
  <2> QED BY <2>1, <2>2 DEF TruthInv, OutcomeHonest
<1>2. CASE Verify
  <2>1. PICK seen \in Observations(bat) :
            pc' = IF seen = target THEN "record" ELSE "read_current"
    BY <1>2 DEF Verify
  <2>2. pc = "verify" /\ UNCHANGED <<dev, saved, bat, old, target, outcome, suspect>>
    BY <1>2 DEF Verify, locals, device
  <2>3. seen = target => dev[bat] = target
    BY <1>0, SeenWhole DEF WindowOf
  <2> QED BY <2>1, <2>2, <2>3 DEF TruthInv, OutcomeHonest
<1>3. CASE ReadCurrent
  <2>1. /\ pc = "read_current" /\ UNCHANGED <<dev, saved, bat, old, target>>
        /\ \/ pc' = "idle" /\ outcome' = "restore_failed" /\ suspect' = suspect \cup {bat}
           \/ pc' \in {"restore", "verify_restore"} /\ UNCHANGED suspect
    BY <1>3 DEF ReadCurrent, End, device
  <2> QED BY <2>1 DEF TruthInv, OutcomeHonest
<1>4. CASE VerifyRestore
  <2>1. PICK seen \in Observations(bat) :
            IF seen = old
            THEN End("restored") /\ UNCHANGED suspect
            ELSE End("restore_failed") /\ suspect' = suspect \cup {bat}
    BY <1>4 DEF VerifyRestore
  <2>2. pc = "verify_restore" /\ UNCHANGED <<dev, saved, bat, old, target>>
    BY <1>4 DEF VerifyRestore, locals, device
  <2>3. seen = old => dev[bat] = old
    BY <1>0, SeenWhole DEF WindowOf
  <2> QED BY <2>1, <2>2, <2>3 DEF TruthInv, OutcomeHonest, End
<1>5. CASE Record
  <2>1. /\ pc = "record" /\ dev[bat] = target
        /\ saved' = [saved EXCEPT ![bat] = target] /\ suspect' = suspect \ {bat}
        /\ UNCHANGED <<dev, bat, old, target>>
        /\ \/ pc' = "idle" /\ outcome' = "ok"
           \/ pc' = "persist"
    BY <1>5 DEF Record, End, locals, device, TruthInv
  <2>2. saved'[bat] = target /\ \A b \in Batteries : b # bat => saved'[b] = saved[b]
    BY <1>0, <2>1 DEF IInv, TypeOK
  <2>3. target # NoEntry /\ Matches(target, target)
    BY <1>0 DEF WindowOf, Matches
  <2> QED BY <2>1, <2>2, <2>3 DEF TruthInv, OutcomeHonest
<1>6. CASE Persist
  BY <1>6 DEF Persist, End, TruthInv, OutcomeHonest, locals, device
<1> QED BY <1>1, <1>2, <1>3, <1>4, <1>5, <1>6 DEF Transaction

\* What the daemon knows is true throughout.
LEMMA Truth == Spec => []TruthInv
<1>1. Init => TruthInv
  BY DEF Init, TruthInv, OutcomeHonest
<1>2. IInv /\ TruthInv /\ [Next]_vars => TruthInv'
  <2> SUFFICES ASSUME IInv, TruthInv, [Next]_vars PROVE TruthInv'
    OBVIOUS
  <2>1. CASE Load \/ Serve \/ Killed \/ PowerLoss
    BY <2>1 DEF Load, Serve, Killed, PowerLoss, Forget, TruthInv, OutcomeHonest,
                locals, device
  <2>2. ASSUME NEW b \in Batteries, Replay(b) PROVE TruthInv'
    BY <2>2, TruthBegin DEF Replay, IInv, TypeOK
  <2>3. ASSUME NEW b \in Batteries, NEW req \in Window, Request(b, req) PROVE TruthInv'
    BY <2>3, TruthBegin DEF Request
  <2>4. CASE Transaction
    BY <2>4, TruthTransaction
  <2>5. CASE UNCHANGED vars
    BY <2>5 DEF vars, device, locals, TruthInv, OutcomeHonest
  <2> QED BY <2>1, <2>2, <2>3, <2>4, <2>5 DEF Next
<1> QED BY <1>1, <1>2, Invariance, PTL DEF Spec

\* "ok" and "previous thresholds restored" are true of the driver, whatever
\* goes wrong and however often.
THEOREM OutcomesHonest == Spec => []OutcomeHonest
<1>1. TruthInv => OutcomeHonest
  BY DEF TruthInv
<1> QED BY <1>1, Truth, PTL

\* Between transactions a window the daemon has set is the driver's.
THEOREM SavedMatches == Spec => []SavedIsDevice
<1>1. TruthInv => SavedIsDevice
  BY DEF TruthInv, SavedIsDevice
<1> QED BY <1>1, Truth, PTL

-----------------------------------------------------------------------------
(* One fault.                                                                *)

\* The writes still to be done, one after the other, lead to a window.
Reaches(w, todo, to) ==
    /\ Len(todo) = 0 => w = to
    /\ Len(todo) = 1 => Applied(w, todo[1]) = to
    /\ Len(todo) = 2 => Applied(Applied(w, todo[1]), todo[2]) = to

(* A transaction that reports that it could not restore the window counted    *)
(* two faults.  While it has counted none it will reach its target; on the    *)
(* way back it has counted one, and if no more, it will reach the old window. *)
CountInv ==
    /\ pc # "idle" => outcome = "none"
    /\ pc = "write" /\ faults = 0 => Reaches(dev[bat], ops, target)
    /\ pc = "verify" /\ faults = 0 => dev[bat] = target
    /\ pc \in {"read_current", "restore", "verify_restore"} => faults > 0
    /\ pc = "restore" /\ faults = 1 => Reaches(dev[bat], ops, old)
    /\ pc = "verify_restore" /\ faults = 1 => dev[bat] = old
    /\ OneFaultSurvived

\* The writes of WriteWindow lead to the window asked for.
LEMMA WriteWindowReaches ==
    ASSUME NEW from \in Window, NEW to \in Window, from.start = NoValue <=> to.start = NoValue
    PROVE  Reaches(from, WriteWindow(from, to), to)
<1> DEFINE s == Op("start", to.start)
           e == Op("end", to.end)
           S == to.start \notin {NoValue, from.start}
           E == to.end # from.end
<1>1. /\ StartOps(from, to) = IF S THEN <<s>> ELSE <<>>
      /\ EndOps(from, to) = IF E THEN <<e>> ELSE <<>>
  BY DEF StartOps, EndOps
<1>2. /\ Applied(from, s) = [from EXCEPT !.start = to.start]
      /\ Applied(from, e) = [from EXCEPT !.end = to.end]
      /\ Applied(Applied(from, s), e) = to
      /\ Applied(Applied(from, e), s) = to
  BY DEF Applied, Op, Window
<1>3. /\ ~S => from.start = to.start
      /\ ~S /\ ~E => from = to
      /\ S /\ ~E => Applied(from, s) = to
      /\ ~S /\ E => Applied(from, e) = to
  BY <1>2 DEF Window
<1>4. /\ <<>> \o <<>> = <<>>
      /\ <<s>> \o <<>> = <<s>> /\ <<>> \o <<s>> = <<s>>
      /\ <<e>> \o <<>> = <<e>> /\ <<>> \o <<e>> = <<e>>
      /\ <<s>> \o <<e>> = <<s, e>> /\ <<e>> \o <<s>> = <<e, s>>
  BY PairOfSingletons, SingletonAndEmpty
<1> HIDE DEF s, e
<1>5. CASE ~S /\ ~E
  <2>1. WriteWindow(from, to) = <<>>
    BY <1>1, <1>4, <1>5 DEF WriteWindow
  <2> QED BY <1>3, <1>5, <2>1 DEF Reaches
<1>6. CASE S /\ ~E
  <2>1. WriteWindow(from, to) = <<s>>
    BY <1>1, <1>4, <1>6 DEF WriteWindow
  <2> QED BY <1>3, <1>6, <2>1 DEF Reaches
<1>7. CASE ~S /\ E
  <2>1. WriteWindow(from, to) = <<e>>
    BY <1>1, <1>4, <1>7 DEF WriteWindow
  <2> QED BY <1>3, <1>7, <2>1 DEF Reaches
<1>8. CASE S /\ E
  <2>1. WriteWindow(from, to) \in {<<s, e>>, <<e, s>>}
    BY <1>1, <1>4, <1>8 DEF WriteWindow
  <2> QED BY <1>2, <2>1 DEF Reaches
<1> QED BY <1>5, <1>6, <1>7, <1>8

\* After a write the rest leads there, too.
LEMMA ReachesTail ==
    ASSUME NEW w, NEW to, NEW todo \in Seq(Ops), todo # <<>>, Len(todo) <= 2,
           Reaches(w, todo, to)
    PROVE  Reaches(Applied(w, Head(todo)), Tail(todo), to)
<1>1. /\ Head(todo) = todo[1] /\ Len(Tail(todo)) = Len(todo) - 1 /\ Len(todo) \in {1, 2}
      /\ Len(todo) > 1 => Tail(todo)[1] = todo[2]
  BY HeadAndTail
<1>2. CASE Len(todo) = 1
  <2>1. Len(Tail(todo)) = 0
    BY <1>1, <1>2
  <2> QED BY <1>1, <1>2, <2>1 DEF Reaches
<1>3. CASE Len(todo) = 2
  <2>1. Len(Tail(todo)) = 1 /\ Tail(todo)[1] = todo[2]
    BY <1>1, <1>3
  <2> QED BY <1>1, <1>3, <2>1 DEF Reaches
<1> QED BY <1>1, <1>2, <1>3

\* A transaction begins with no fault counted.
LEMMA CountBegin ==
    ASSUME IInv, CountInv, NEW b \in Batteries, NEW req \in Window, Begin(b, req)
    PROVE  CountInv'
<1> USE NoWindow, FaultsTyped, BatteriesTyped
<1>1. PICK seen \in Observations(b) :
        /\ \/ seen = dev[b] /\ faults' = 0
           \/ seen # dev[b] /\ MaxFaults > 0 /\ faults' = 1
        /\ IF ~Accepted(b, req, seen)
           THEN /\ outcome' = "error"
                /\ UNCHANGED <<pc, locals>>
           ELSE /\ bat' = b
                /\ old' = seen
                /\ target' = Completed(req, seen)
                /\ ops' = WriteWindow(seen, target')
                /\ pc' = IF target' = seen THEN "record" ELSE "write"
                /\ outcome' = "none"
  BY DEF Begin
<1>2. pc = "idle" /\ UNCHANGED dev
  BY DEF Begin, device
<1>3. CASE ~Accepted(b, req, seen)
  BY <1>1, <1>2, <1>3 DEF CountInv, OneFaultSurvived
<1>4. CASE Accepted(b, req, seen)
  <2>1. seen = dev[b] /\ seen \in WindowOf(b)
    BY <1>4, SeenWhole DEF Accepted, IInv, TypeOK
  <2>2. target' \in WindowOf(b)
    BY <1>1, <1>4, <2>1 DEF Accepted, Completed, WindowOf, Window
  <2>3. Reaches(seen, ops', target')
    BY <1>1, <1>4, <2>1, <2>2, WriteWindowReaches DEF WindowOf
  <2> QED BY <1>1, <1>2, <1>4, <2>1, <2>3 DEF CountInv, OneFaultSurvived, Reaches
<1> QED BY <1>3, <1>4

\* Every step of a transaction keeps the count.
LEMMA CountTransaction ==
    ASSUME IInv, CountInv, Transaction
    PROVE  CountInv'
<1> USE NoWindow, FaultsTyped
<1>0. /\ bat \in Batteries /\ dev[bat] \in WindowOf(bat) /\ dev[bat] \in Window
      /\ old \in WindowOf(bat) /\ target \in WindowOf(bat) /\ faults \in Nat
      /\ dev \in [Batteries -> Window]
      /\ ops \in Seq(Ops) /\ Len(ops) <= 2 /\ Len(ops) \in Nat
      /\ pc \in {"write", "restore"} => ops # <<>>
  BY DEF IInv, TypeOK, OpsInv
<1>1. CASE WriteAttr
  <2>1. /\ pc \in {"write", "restore"} /\ dev'[bat] = Applied(dev[bat], Head(ops))
        /\ ops' = Tail(ops)
        /\ pc' = IF Len(ops) > 1 THEN pc
                 ELSE IF pc = "write" THEN "verify" ELSE "verify_restore"
        /\ UNCHANGED <<bat, old, target, outcome, faults>>
    BY <1>0, <1>1 DEF WriteAttr
  <2>2. Len(ops) \in {1, 2} /\ Len(Tail(ops)) = Len(ops) - 1
    BY <1>0, <2>1, HeadAndTail
  <2>3. \A to : Reaches(dev[bat], ops, to) => Reaches(dev'[bat], Tail(ops), to)
    BY <1>0, <2>1, ReachesTail
  <2>4. \A to : Reaches(dev'[bat], Tail(ops), to) /\ Len(ops) = 1 => dev'[bat] = to
    BY <2>2 DEF Reaches
  <2>5. CASE pc = "write"
    BY <2>1, <2>2, <2>3, <2>4, <2>5 DEF CountInv, OneFaultSurvived
  <2>6. CASE pc = "restore"
    BY <2>1, <2>2, <2>3, <2>4, <2>6 DEF CountInv, OneFaultSurvived
  <2> QED BY <2>1, <2>5, <2>6
<1>2. CASE WriteAltered \/ WriteFails
  <2>1. /\ pc \in {"write", "restore"} /\ faults' = faults + 1
        /\ UNCHANGED <<bat, old, target>>
        /\ pc' # "idle" => outcome' = outcome
        /\ pc = "write" => pc' \in {"write", "verify", "read_current"} /\ outcome' = outcome
        /\ pc = "restore" => pc' \in {"restore", "verify_restore", "idle"}
    BY <1>2 DEF WriteAltered, WriteFails, End
  <2>2. CASE pc = "write"
    BY <1>0, <2>1, <2>2 DEF CountInv, OneFaultSurvived
  <2>3. CASE pc = "restore"
    BY <1>0, <2>1, <2>3 DEF CountInv, OneFaultSurvived
  <2> QED BY <2>1, <2>2, <2>3
<1>3. CASE Verify
  <2>1. PICK seen \in Observations(bat) :
            /\ Observe(bat, seen)
            /\ pc' = IF seen = target THEN "record" ELSE "read_current"
    BY <1>3 DEF Verify
  <2>2. pc = "verify" /\ UNCHANGED <<dev, bat, old, target, outcome, ops>>
    BY <1>3 DEF Verify, locals, device
  <2>3. \/ seen = dev[bat] /\ faults' = faults
        \/ faults' = faults + 1
    BY <2>1 DEF Observe
  <2> QED BY <1>0, <2>1, <2>2, <2>3 DEF CountInv, OneFaultSurvived
<1>4. CASE ReadCurrent
  <2>1. PICK seen \in Observations(bat) :
            /\ Observe(bat, seen)
            /\ IF seen = Unreadable
               THEN /\ End("restore_failed")
                    /\ suspect' = suspect \cup {bat}
                    /\ UNCHANGED ops
               ELSE /\ ops' = WriteWindow(seen, old)
                    /\ pc' = IF ops' = <<>> THEN "verify_restore" ELSE "restore"
                    /\ UNCHANGED <<outcome, suspect>>
    BY <1>4 DEF ReadCurrent
  <2>2. pc = "read_current" /\ UNCHANGED <<dev, bat, old, target>> /\ outcome = "none" /\ faults > 0
    BY <1>4 DEF ReadCurrent, device, CountInv
  <2>3. \/ seen = dev[bat] /\ faults' = faults
        \/ faults' = faults + 1
    BY <2>1 DEF Observe
  <2>4. CASE seen = Unreadable
    <3>1. seen # dev[bat]
      BY <1>0, <2>4
    <3> QED BY <1>0, <2>1, <2>2, <2>3, <2>4, <3>1 DEF CountInv, OneFaultSurvived, End
  <2>5. CASE seen # Unreadable /\ seen = dev[bat]
    <3>1. Reaches(dev[bat], ops', old)
      BY <1>0, <2>1, <2>5, WriteWindowReaches DEF WindowOf
    <3>2. ops' = <<>> => dev[bat] = old
      BY <3>1 DEF Reaches
    <3> QED BY <1>0, <2>1, <2>2, <2>3, <2>5, <3>1, <3>2 DEF CountInv, OneFaultSurvived
  <2>6. CASE seen # Unreadable /\ seen # dev[bat]
    BY <1>0, <2>1, <2>2, <2>3, <2>6 DEF CountInv, OneFaultSurvived
  <2> QED BY <2>4, <2>5, <2>6
<1>5. CASE VerifyRestore
  <2>1. PICK seen \in Observations(bat) :
            /\ Observe(bat, seen)
            /\ IF seen = old
               THEN End("restored") /\ UNCHANGED suspect
               ELSE End("restore_failed") /\ suspect' = suspect \cup {bat}
    BY <1>5 DEF VerifyRestore
  <2>2. pc = "verify_restore" /\ UNCHANGED <<dev, bat, old, target>>
    BY <1>5 DEF VerifyRestore, locals, device
  <2>3. \/ seen = dev[bat] /\ faults' = faults
        \/ faults' = faults + 1
    BY <2>1 DEF Observe
  <2> QED BY <1>0, <2>1, <2>2, <2>3 DEF CountInv, OneFaultSurvived, End
<1>6. CASE Record \/ Persist
  BY <1>6 DEF Record, Persist, End, CountInv, OneFaultSurvived, locals, device
<1> QED BY <1>1, <1>2, <1>3, <1>4, <1>5, <1>6 DEF Transaction

(* One read or write that goes wrong, in whatever way and place, is undone:   *)
(* set_thresholds_using fails to restore only after a second one.             *)
THEOREM OneFaultIsSurvived == Spec => []OneFaultSurvived
<1>1. Init => CountInv
  BY DEF Init, CountInv, OneFaultSurvived
<1>2. IInv /\ CountInv /\ [Next]_vars => CountInv'
  <2> SUFFICES ASSUME IInv, CountInv, [Next]_vars PROVE CountInv'
    OBVIOUS
  <2>1. CASE Load \/ Serve
    BY <2>1 DEF Load, Serve, CountInv, OneFaultSurvived, locals, device, IInv
  <2>2. CASE Killed \/ PowerLoss
    BY <2>2 DEF Killed, PowerLoss, Forget, CountInv, OneFaultSurvived
  <2>3. ASSUME NEW b \in Batteries, Replay(b) PROVE CountInv'
    BY <2>3, CountBegin DEF Replay, IInv, TypeOK
  <2>4. ASSUME NEW b \in Batteries, NEW req \in Window, Request(b, req) PROVE CountInv'
    BY <2>4, CountBegin DEF Request
  <2>5. CASE Transaction
    BY <2>5, CountTransaction
  <2>6. CASE UNCHANGED vars
    BY <2>6 DEF vars, device, locals, CountInv, OneFaultSurvived
  <2> QED BY <2>1, <2>2, <2>3, <2>4, <2>5, <2>6 DEF Next
<1>3. CountInv => OneFaultSurvived
  BY DEF CountInv
<1> QED BY <1>1, <1>2, <1>3, Invariance, PTL DEF Spec
=============================================================================
