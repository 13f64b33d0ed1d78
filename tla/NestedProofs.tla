----------------------------- MODULE NestedProofs -----------------------------
(***************************************************************************)
(* Proofs about NestedLoops, for any choice of the signals whose slots run *)
(* event loops, with and without crashes, and for all bounds.              *)
(***************************************************************************)
EXTENDS NestedLoops, TLAPS

(***************************************************************************)
(* Sequences                                                               *)
(***************************************************************************)
(* The first element and the rest of a sequence.                           *)
LEMMA HeadAndTail ==
  ASSUME NEW E, NEW q \in Seq(E), q # <<>>
  PROVE  /\ Head(q) \in E /\ Head(q) = q[1]
         /\ Tail(q) \in Seq(E)
         /\ Len(Tail(q)) = Len(q) - 1 /\ Len(q) \in Nat /\ Len(q) >= 1
         /\ \A i \in 1..Len(Tail(q)) : i + 1 \in 1..Len(q) /\ Tail(q)[i] = q[i + 1]
  OBVIOUS

(* A sequence with one more element in front.                              *)
LEMMA Pushed ==
  ASSUME NEW E, NEW q \in Seq(E), NEW e \in E
  PROVE  /\ <<e>> \o q \in Seq(E)
         /\ Len(<<e>> \o q) = Len(q) + 1 /\ Len(q) \in Nat
         /\ (<<e>> \o q)[1] = e
         /\ \A i \in 2..(Len(q) + 1) : i - 1 \in 1..Len(q) /\ (<<e>> \o q)[i] = q[i - 1]
<1>1. <<e>> \in Seq(E) /\ Len(<<e>>) = 1 /\ <<e>>[1] = e
  OBVIOUS
<1>2. Len(<<e>> \o q) = Len(q) + 1 /\ Len(q) \in Nat /\ <<e>> \o q \in Seq(E)
  BY <1>1
<1>3. \A i \in 1..(Len(q) + 1) : (<<e>> \o q)[i] = IF i <= 1 THEN <<e>>[i] ELSE q[i - 1]
  BY <1>1
<1> QED  BY <1>1, <1>2, <1>3

(* A sequence whose first element is replaced.                             *)
LEMMA Replaced ==
  ASSUME NEW E, NEW q \in Seq(E), q # <<>>, NEW e \in E
  PROVE  /\ <<e>> \o Tail(q) \in Seq(E)
         /\ Len(<<e>> \o Tail(q)) = Len(q)
         /\ (<<e>> \o Tail(q))[1] = e
         /\ \A i \in 2..Len(q) : (<<e>> \o Tail(q))[i] = q[i]
<1>1. Tail(q) \in Seq(E) /\ Len(Tail(q)) = Len(q) - 1 /\ Len(q) \in Nat
      /\ \A i \in 1..Len(Tail(q)) : Tail(q)[i] = q[i + 1]
  BY HeadAndTail
<1>2. /\ <<e>> \o Tail(q) \in Seq(E)
      /\ Len(<<e>> \o Tail(q)) = Len(Tail(q)) + 1
      /\ (<<e>> \o Tail(q))[1] = e
      /\ \A i \in 2..(Len(Tail(q)) + 1) : i - 1 \in 1..Len(Tail(q))
                                       /\ (<<e>> \o Tail(q))[i] = Tail(q)[i - 1]
  BY <1>1, Pushed
<1> QED  BY <1>1, <1>2

(***************************************************************************)
(* Slots                                                                   *)
(***************************************************************************)
Reporting == {"finish", "finishUnlessSent"}
AfterReport == {"setSent", "deleteLater"}

(* A slot sets sentFinished or asks for the deletion only after a report.  *)
Ordered(f) ==
  \A j \in 1..Len(f) : f[j].op \in AfterReport => \E k \in 1..(j - 1) : f[k].op \in Reporting

Loopless(f) == \A j \in 1..Len(f) : f[j].op # "loop"

Clean(f) == f \in Seq(Statement) /\ Ordered(f) /\ Loopless(f)

(* Two clean slots one after the other are a clean slot.                   *)
LEMMA CleanJoined ==
  ASSUME NEW f, NEW g, Clean(f), Clean(g)
  PROVE  Clean(f \o g)
<1>1. /\ f \in Seq(Statement) /\ g \in Seq(Statement)
      /\ Len(f) \in Nat /\ Len(g) \in Nat
      /\ f \o g \in Seq(Statement) /\ Len(f \o g) = Len(f) + Len(g)
      /\ \A i \in 1..(Len(f) + Len(g)) :
            (f \o g)[i] = IF i <= Len(f) THEN f[i] ELSE g[i - Len(f)]
  BY DEF Clean
<1>2. Loopless(f \o g)
  <2> SUFFICES ASSUME NEW j \in 1..Len(f \o g)  PROVE (f \o g)[j].op # "loop"
    BY DEF Loopless
  <2>1. CASE j <= Len(f)
    BY <1>1, <2>1 DEF Clean, Loopless
  <2>2. CASE j > Len(f)
    <3>1. j - Len(f) \in 1..Len(g) /\ (f \o g)[j] = g[j - Len(f)]
      BY <1>1, <2>2
    <3> QED  BY <3>1 DEF Clean, Loopless
  <2> QED  BY <1>1, <2>1, <2>2
<1>3. Ordered(f \o g)
  <2> SUFFICES ASSUME NEW j \in 1..Len(f \o g), (f \o g)[j].op \in AfterReport
               PROVE  \E k \in 1..(j - 1) : (f \o g)[k].op \in Reporting
    BY DEF Ordered
  <2>1. CASE j <= Len(f)
    <3>1. j \in 1..Len(f) /\ f[j].op \in AfterReport
      BY <1>1, <2>1
    <3>2. PICK k \in 1..(j - 1) : f[k].op \in Reporting
      BY <3>1 DEF Clean, Ordered
    <3>3. (f \o g)[k] = f[k]
      BY <1>1, <2>1
    <3> QED  BY <3>2, <3>3
  <2>2. CASE j > Len(f)
    <3> DEFINE i == j - Len(f)
    <3>1. i \in 1..Len(g) /\ g[i].op \in AfterReport
      BY <1>1, <2>2
    <3>2. PICK k \in 1..(i - 1) : g[k].op \in Reporting
      BY <3>1 DEF Clean, Ordered
    <3>3. k + Len(f) \in 1..(j - 1) /\ (f \o g)[k + Len(f)] = g[k]
      BY <1>1, <2>2, <3>1
    <3> QED  BY <3>2, <3>3
  <2> QED  BY <1>1, <2>1, <2>2
<1> QED  BY <1>1, <1>2, <1>3 DEF Clean

(* The single statements.                                                  *)
LEMMA Statements ==
  /\ \A op \in {"setSent", "finishUnlessSent", "deleteLater", "deleteProxy", "store", "loop"} :
        Do(op) \in Statement /\ Do(op).op = op
  /\ \A s \in Relayed \cup {"remainingTimeChanged"} :
        Emit(s) \in Statement /\ Emit(s).op = "emit"
  /\ \A e \in Exit : Finish(e) \in Statement /\ Finish(e).op = "finish"
  BY DEF Statement, Do, Emit, Finish

(* Each piece a slot is made of is clean: the empty slot, ...              *)
LEMMA EmptyClean ==
  Clean(<<>>)
  BY DEF Clean, Ordered, Loopless

(* ... one relayed signal, ...                                             *)
LEMMA EmitClean ==
  ASSUME NEW s \in Relayed \cup {"remainingTimeChanged"}
  PROVE  Clean(<<Emit(s)>>)
<1>1. Emit(s) \in Statement /\ Emit(s).op = "emit"
  BY Statements
<1> QED  BY <1>1 DEF Clean, Ordered, Loopless, AfterReport

(* ... finished(), which reports before it sets sentFinished, ...          *)
LEMMA FinishedClean ==
  ASSUME NEW e \in Exit
  PROVE  Clean(finished(e))
<1>1. /\ Finish(e) \in Statement /\ Do("setSent") \in Statement /\ Do("deleteLater") \in Statement
      /\ Finish(e).op = "finish" /\ Do("setSent").op = "setSent" /\ Do("deleteLater").op = "deleteLater"
  BY Statements
<1>2. /\ finished(e) \in Seq(Statement) /\ Len(finished(e)) = 3
      /\ finished(e)[1] = Finish(e) /\ finished(e)[2] = Do("setSent") /\ finished(e)[3] = Do("deleteLater")
  BY <1>1 DEF finished
<1> QED  BY <1>1, <1>2 DEF Clean, Ordered, Loopless, Reporting, AfterReport

(* ... destroy(), which reports before it deletes, ...                     *)
LEMMA DestroyClean ==
  Clean(destroy)
<1>1. /\ Do("deleteProxy") \in Statement /\ Do("finishUnlessSent") \in Statement
      /\ Do("deleteLater") \in Statement
      /\ Do("deleteProxy").op = "deleteProxy" /\ Do("finishUnlessSent").op = "finishUnlessSent"
      /\ Do("deleteLater").op = "deleteLater"
  BY Statements
<1>2. /\ destroy \in Seq(Statement) /\ Len(destroy) = 3
      /\ destroy[1] = Do("deleteProxy") /\ destroy[2] = Do("finishUnlessSent")
      /\ destroy[3] = Do("deleteLater")
  BY <1>1 DEF destroy
<1> QED  BY <1>1, <1>2 DEF Clean, Ordered, Loopless, Reporting, AfterReport

(* ... updateProperties(), which neither reports nor deletes, ...          *)
LEMMA UpdateClean ==
  Clean(updateProperties)
<1>1. /\ Do("store") \in Statement /\ Do("store").op = "store"
      /\ Emit("remainingTimeChanged") \in Statement /\ Emit("remainingTimeChanged").op = "emit"
  BY Statements
<1>2. /\ updateProperties \in Seq(Statement) /\ Len(updateProperties) = 3
      /\ updateProperties[1] = Do("store") /\ updateProperties[2] = Emit("remainingTimeChanged")
      /\ updateProperties[3] = Do("store")
  BY <1>1 DEF updateProperties
<1> QED  BY <1>1, <1>2 DEF Clean, Ordered, Loopless, AfterReport

(* ... a list of packages, ...                                             *)
LEMMA PackagesClean ==
  ASSUME NEW n \in Nat
  PROVE  Clean(Packages(n))
<1>1. Emit("package") \in Statement /\ Emit("package").op = "emit"
  BY Statements DEF Relayed
<1>2. /\ Packages(n) \in Seq(Statement) /\ Len(Packages(n)) = n
      /\ \A i \in 1..n : Packages(n)[i] = Emit("package")
  BY <1>1 DEF Packages
<1> QED  BY <1>1, <1>2 DEF Clean, Ordered, Loopless, AfterReport

(* ... and the error that finishes and destroys an object.                 *)
LEMMA FailureClean ==
  ASSUME NEW e \in Exit
  PROVE  Clean(<<Emit("errorCode")>> \o finished(e) \o destroy)
<1>1. Clean(<<Emit("errorCode")>>)
  BY EmitClean DEF Relayed
<1> QED  BY <1>1, FinishedClean, DestroyClean, CleanJoined

(* Every slot of the library is clean.                                     *)
LEMMA SlotClean ==
  ASSUME NEW e \in Event, e.kind # "delete"
  PROVE  Clean(Slot(e))
<1>1. "killed" \in Exit /\ "failed" \in Exit /\ "success" \in Exit
  BY DEF Exit
<1>2. CASE e.kind = "Finished"
  <2>1. e.exit \in Exit
    BY <1>1, <1>2 DEF Event
  <2>2. Slot(e) = finished(e.exit)
    BY <1>2, Zenon DEF Slot
  <2> QED  BY <2>1, <2>2, FinishedClean
<1>3. CASE e.kind = "Destroy"
  <2>1. Slot(e) = destroy
    BY <1>3, Zenon DEF Slot
  <2> QED  BY <2>1, DestroyClean
<1>4. CASE e.kind = "Relayed"
  <2>1. e.signal \in Relayed
    BY <1>4 DEF Event
  <2>2. Slot(e) = relay(e.signal)
    BY <1>4, Zenon DEF Slot
  <2> QED  BY <2>1, <2>2, EmitClean DEF relay
<1>5. CASE e.kind = "Packages"
  <2>1. e.n \in Nat
    BY <1>5, NestedBounds DEF Event
  <2>2. Slot(e) = Packages(e.n)
    BY <1>5, Zenon DEF Slot
  <2> QED  BY <2>1, <2>2, PackagesClean
<1>6. CASE e.kind = "properties"
  <2>1. Slot(e) = updateProperties
    BY <1>6, Zenon DEF Slot
  <2> QED  BY <2>1, UpdateClean
<1>7. CASE e.kind = "callError"
  <2>1. Slot(e) = callFailed
    BY <1>7, Zenon DEF Slot
  <2> QED  BY <1>1, <2>1, FailureClean DEF callFailed
<1>8. CASE e.kind = "owner"
  <2>1. Slot(e) = daemonQuit
    BY <1>8, Zenon DEF Slot
  <2> QED  BY <1>1, <2>1, FailureClean, EmptyClean DEF daemonQuit
<1> QED  BY <1>2, <1>3, <1>4, <1>5, <1>6, <1>7, <1>8 DEF Event

(***************************************************************************)
(* Types                                                                   *)
(***************************************************************************)
(* A nested event loop leaves room for one more slot on the stack.         *)
LoopsBelow ==
  \A i \in 1..Len(stack) : \A j \in 1..Len(stack[i]) :
    stack[i][j].op = "loop" => Len(stack) - i < MaxLoops

StackInv == TypeOK /\ LoopsBelow

(* The top of the stack, while it is not empty.                            *)
LEMMA TopTyped ==
  ASSUME TypeOK, stack # <<>>
  PROVE  /\ Head(stack) \in Seq(Statement) /\ Head(stack) = stack[1]
         /\ Len(stack) \in Nat /\ Len(stack) >= 1
         /\ Tail(stack) \in Seq(Seq(Statement))
         /\ Head(stack) # <<>> =>
              /\ Head(Head(stack)) \in Statement /\ Head(Head(stack)) = stack[1][1]
              /\ Len(stack[1]) \in Nat /\ Len(stack[1]) >= 1
              /\ Tail(Head(stack)) \in Seq(Statement)
              /\ Len(Tail(Head(stack))) = Len(stack[1]) - 1
              /\ \A j \in 1..Len(Tail(Head(stack))) :
                    j + 1 \in 1..Len(stack[1]) /\ Tail(Head(stack))[j] = stack[1][j + 1]
<1>1. stack \in Seq(Seq(Statement))
  BY DEF TypeOK
<1>2. /\ Head(stack) \in Seq(Statement) /\ Head(stack) = stack[1]
      /\ Len(stack) \in Nat /\ Len(stack) >= 1 /\ Tail(stack) \in Seq(Seq(Statement))
  BY <1>1, HeadAndTail
<1>3. ASSUME Head(stack) # <<>>
      PROVE  /\ Head(Head(stack)) \in Statement /\ Head(Head(stack)) = stack[1][1]
             /\ Len(stack[1]) \in Nat /\ Len(stack[1]) >= 1
             /\ Tail(Head(stack)) \in Seq(Statement)
             /\ Len(Tail(Head(stack))) = Len(stack[1]) - 1
             /\ \A j \in 1..Len(Tail(Head(stack))) :
                   j + 1 \in 1..Len(stack[1]) /\ Tail(Head(stack))[j] = stack[1][j + 1]
  BY <1>2, <1>3, HeadAndTail
<1> QED  BY <1>2, <1>3

(* The slot on top goes on.                                                *)
LEMMA ContinueTyped ==
  ASSUME StackInv, stack # <<>>, Head(stack) # <<>>, Continue
  PROVE  /\ stack' \in Seq(Seq(Statement)) /\ Len(stack') = Len(stack)
         /\ stack'[1] = Tail(Head(stack)) /\ \A i \in 2..Len(stack) : stack'[i] = stack[i]
         /\ LoopsBelow'
<1>1. stack \in Seq(Seq(Statement)) /\ Tail(Head(stack)) \in Seq(Statement)
  BY TopTyped DEF StackInv, TypeOK
<1>2. /\ stack' \in Seq(Seq(Statement)) /\ Len(stack') = Len(stack)
      /\ stack'[1] = Tail(Head(stack)) /\ \A i \in 2..Len(stack) : stack'[i] = stack[i]
  BY <1>1, Replaced DEF Continue
<1>3. LoopsBelow'
  <2> SUFFICES ASSUME NEW i \in 1..Len(stack'), NEW j \in 1..Len(stack'[i]),
                      stack'[i][j].op = "loop"
               PROVE  Len(stack') - i < MaxLoops
    BY DEF LoopsBelow
  <2>1. CASE i = 1
    <3>1. j + 1 \in 1..Len(stack[1]) /\ stack[1][j + 1].op = "loop" /\ 1 \in 1..Len(stack)
      BY <1>2, <2>1, TopTyped DEF StackInv
    <3> QED  BY <1>2, <2>1, <3>1 DEF StackInv, LoopsBelow
  <2>2. CASE i # 1
    <3>1. i \in 2..Len(stack) /\ i \in 1..Len(stack)
      BY <1>2, <2>2, TopTyped DEF StackInv
    <3> QED  BY <1>2, <3>1 DEF StackInv, LoopsBelow
  <2> QED  BY <2>1, <2>2
<1> QED  BY <1>2, <1>3

(* The slot on top calls a slot of the application, which returns or runs  *)
(* an event loop.                                                          *)
LEMMA EmittedTyped ==
  ASSUME StackInv, stack # <<>>, Head(stack) # <<>>, NEW s, Emitted(s)
  PROVE  /\ stack' \in Seq(Seq(Statement)) /\ Len(stack') = Len(stack)
         /\ LoopsBelow'
<1>1. CASE Continue
  BY <1>1, ContinueTyped
<1>2. CASE Len(stack) <= MaxLoops /\ stack' = <<<<Loop>> \o Tail(Head(stack))>> \o Tail(stack)
  <2> DEFINE top == <<Loop>> \o Tail(Head(stack))
  <2>1. stack \in Seq(Seq(Statement)) /\ Tail(Head(stack)) \in Seq(Statement) /\ Loop \in Statement
    BY TopTyped, Statements DEF StackInv, TypeOK, Loop
  <2>2. /\ top \in Seq(Statement) /\ Len(top) \in Nat
        /\ \A i \in 2..Len(top) : i - 1 \in 1..Len(Tail(Head(stack)))
                                /\ top[i] = Tail(Head(stack))[i - 1]
    BY <2>1, Pushed
  <2>3. /\ stack' \in Seq(Seq(Statement)) /\ Len(stack') = Len(stack)
        /\ stack'[1] = top /\ \A i \in 2..Len(stack) : stack'[i] = stack[i]
    BY <1>2, <2>1, <2>2, Replaced
  <2>4. LoopsBelow'
    <3> SUFFICES ASSUME NEW i \in 1..Len(stack'), NEW j \in 1..Len(stack'[i]),
                        stack'[i][j].op = "loop"
                 PROVE  Len(stack') - i < MaxLoops
      BY DEF LoopsBelow
    <3>1. CASE i = 1
      BY <1>2, <2>3, <3>1, NestedBounds, TopTyped DEF StackInv
    <3>2. CASE i # 1
      <4>1. i \in 2..Len(stack) /\ i \in 1..Len(stack)
        BY <2>3, <3>2, TopTyped DEF StackInv
      <4> QED  BY <2>3, <4>1 DEF StackInv, LoopsBelow
    <3> QED  BY <3>1, <3>2
  <2> QED  BY <2>3, <2>4
<1> QED  BY <1>1, <1>2 DEF Emitted

(* Each statement of a slot keeps the types.                               *)
LEMMA StatementTyped ==
  ASSUME StackInv, \/ EmitSignal \/ EmitFinished \/ EmitUnlessSent \/ SetSent
                   \/ DeleteLater \/ DeleteProxy \/ StoreMember
  PROVE  StackInv'
<1>1. stack # <<>> /\ Head(stack) # <<>> /\ UNCHANGED daemon
  BY DEF EmitSignal, EmitFinished, EmitUnlessSent, SetSent, DeleteLater, DeleteProxy,
         StoreMember, Executing
<1>2. Len(stack) \in 1..(MaxLoops + 1) /\ Head(Head(stack)) \in Statement /\ MaxLoops \in Nat
  BY <1>1, TopTyped, NestedBounds DEF StackInv, TypeOK
<1>3. ASSUME stack' \in Seq(Seq(Statement)), Len(stack') = Len(stack), LoopsBelow',
             queue' \in Seq(Event), obj' = obj, p' \in BOOLEAN, sentFinished' \in BOOLEAN,
             exits' \in Seq(Exit), deleteLevel' \in 0..(MaxLoops + 1)
      PROVE  StackInv'
  BY <1>1, <1>2, <1>3 DEF StackInv, TypeOK, daemon
<1>4. /\ queue \in Seq(Event) /\ p \in BOOLEAN /\ sentFinished \in BOOLEAN
      /\ exits \in Seq(Exit) /\ deleteLevel \in 0..(MaxLoops + 1)
  BY DEF StackInv, TypeOK
<1>5. CASE EmitSignal
  BY <1>1, <1>3, <1>4, <1>5, EmittedTyped DEF EmitSignal, object
<1>6. CASE EmitFinished
  <2>1. Head(Head(stack)).exit \in Exit
    BY <1>2, <1>6 DEF EmitFinished, Executing, Statement
  <2> QED  BY <1>1, <1>3, <1>4, <1>6, <2>1, EmittedTyped DEF EmitFinished
<1>7. CASE EmitUnlessSent
  <2>1. "unknown" \in Exit
    BY DEF Exit
  <2>2. exits' \in Seq(Exit)
    BY <1>4, <1>7, <2>1 DEF EmitUnlessSent
  <2>3. stack' \in Seq(Seq(Statement)) /\ Len(stack') = Len(stack) /\ LoopsBelow'
    BY <1>1, <1>7, EmittedTyped, ContinueTyped DEF EmitUnlessSent
  <2> QED  BY <1>3, <1>4, <1>7, <2>2, <2>3 DEF EmitUnlessSent
<1>8. CASE SetSent
  BY <1>1, <1>3, <1>4, <1>8, ContinueTyped DEF SetSent
<1>9. CASE DeleteLater
  <2>1. [kind |-> "delete"] \in Event
    BY DEF Event
  <2>2. Append(queue, [kind |-> "delete"]) \in Seq(Event)
    BY <1>4, <2>1
  <2>3. queue' \in Seq(Event) /\ deleteLevel' \in 0..(MaxLoops + 1)
    <3>1. CASE deleteLevel = 0
      <4>1. deleteLevel' = Len(stack) /\ queue' = Append(queue, [kind |-> "delete"])
        BY <1>9, <3>1 DEF DeleteLater
      <4> QED  BY <1>2, <2>2, <4>1
    <3>2. CASE deleteLevel # 0
      BY <1>4, <1>9, <3>2 DEF DeleteLater
    <3> QED  BY <3>1, <3>2
  <2> QED  BY <1>1, <1>3, <1>4, <1>9, <2>3, ContinueTyped DEF DeleteLater
<1>10. CASE DeleteProxy
  BY <1>1, <1>3, <1>4, <1>10, ContinueTyped DEF DeleteProxy
<1>11. CASE StoreMember
  BY <1>1, <1>3, <1>4, <1>11, ContinueTyped DEF StoreMember, object
<1> QED  BY <1>5, <1>6, <1>7, <1>8, <1>9, <1>10, <1>11

(* A slot that has returned, and a new slot in an event loop.              *)
LEMMA ReturnTyped ==
  ASSUME StackInv, Return
  PROVE  StackInv'
<1>1. /\ Tail(stack) \in Seq(Seq(Statement)) /\ Len(Tail(stack)) = Len(stack) - 1
      /\ Len(stack) \in Nat /\ Len(stack) >= 1
      /\ \A i \in 1..Len(Tail(stack)) : i + 1 \in 1..Len(stack) /\ Tail(stack)[i] = stack[i + 1]
  BY HeadAndTail DEF Return, StackInv, TypeOK
<1>2. LoopsBelow'
  BY <1>1 DEF Return, StackInv, LoopsBelow
<1> QED  BY <1>1, <1>2, NestedBounds DEF Return, StackInv, TypeOK, object, daemon

(* The events handled on an empty stack or inside a loop.                  *)
LEMMA HandleTyped ==
  ASSUME StackInv, Handle
  PROVE  StackInv'
<1> DEFINE e == Head(queue)
<1>1. e \in Event /\ Tail(queue) \in Seq(Event) /\ e.kind # "delete"
  BY HeadAndTail DEF Handle, StackInv, TypeOK
<1>2. Clean(Slot(e))
  BY <1>1, SlotClean
<1>3. stack \in Seq(Seq(Statement)) /\ Len(stack) \in 0..(MaxLoops + 1) /\ MaxLoops \in Nat
  BY NestedBounds DEF StackInv, TypeOK
<1>4. Len(stack) <= MaxLoops
  <2>1. CASE stack = <<>>
    BY <1>3, <2>1
  <2>2. CASE stack # <<>>
    <3>1. Head(stack) # <<>> /\ Head(Head(stack)) = Loop
      BY <2>2 DEF Handle, InLoop
    <3>2. 1 \in 1..Len(stack) /\ 1 \in 1..Len(stack[1]) /\ stack[1][1].op = "loop"
      BY <2>2, <3>1, TopTyped, Statements DEF StackInv, Loop
    <3> QED  BY <1>3, <3>2 DEF StackInv, LoopsBelow
  <2> QED  BY <2>1, <2>2
<1>5. /\ stack' \in Seq(Seq(Statement)) /\ Len(stack') <= MaxLoops + 1
      /\ LoopsBelow'
  <2>1. CASE stack' = stack
    BY <1>3, <2>1 DEF StackInv, LoopsBelow
  <2>2. CASE stack' = <<Slot(e)>> \o stack
    <3>1. /\ stack' \in Seq(Seq(Statement)) /\ Len(stack') = Len(stack) + 1
          /\ stack'[1] = Slot(e)
          /\ \A i \in 2..(Len(stack) + 1) : i - 1 \in 1..Len(stack) /\ stack'[i] = stack[i - 1]
      BY <1>2, <1>3, <2>2, Pushed DEF Clean
    <3>2. ASSUME NEW i \in 1..Len(stack'), NEW j \in 1..Len(stack'[i]), stack'[i][j].op = "loop"
          PROVE  Len(stack') - i < MaxLoops
      <4>1. i # 1
        BY <1>2, <3>1, <3>2 DEF Clean, Loopless
      <4>2. i - 1 \in 1..Len(stack) /\ stack'[i] = stack[i - 1]
        BY <1>3, <3>1, <4>1
      <4>3. Len(stack) - (i - 1) < MaxLoops
        BY <3>2, <4>2 DEF StackInv, LoopsBelow
      <4> QED  BY <1>3, <3>1, <4>3
    <3> QED  BY <1>3, <1>4, <3>1, <3>2 DEF LoopsBelow
  <2> QED  BY <2>1, <2>2 DEF Handle
<1> QED  BY <1>1, <1>5 DEF Handle, StackInv, TypeOK, object, daemon

(* The deletion is carried out or posted again.                            *)
LEMMA HandleDeleteTyped ==
  ASSUME StackInv, HandleDelete
  PROVE  StackInv'
<1>1. Head(queue) \in Event /\ Tail(queue) \in Seq(Event)
  BY HeadAndTail DEF HandleDelete, StackInv, TypeOK
<1>2. Append(Tail(queue), Head(queue)) \in Seq(Event)
  BY <1>1
<1>3. LoopsBelow'
  BY DEF HandleDelete, StackInv, LoopsBelow
<1> QED  BY <1>1, <1>2, <1>3 DEF HandleDelete, StackInv, TypeOK, daemon

(* The application and the daemon.                                         *)
LEMMA LeaveLoopTyped ==
  ASSUME StackInv, LeaveLoop
  PROVE  StackInv'
<1>1. stack # <<>> /\ Head(stack) # <<>> /\ Continue
  BY DEF LeaveLoop, InLoop
<1>2. stack' \in Seq(Seq(Statement)) /\ Len(stack') = Len(stack) /\ LoopsBelow'
  BY <1>1, ContinueTyped
<1> QED  BY <1>2 DEF LeaveLoop, StackInv, TypeOK, object, daemon

(* The daemon and the bus only post events.                                *)
LEMMA DaemonTyped ==
  ASSUME StackInv, Daemon
  PROVE  StackInv'
<1>1. queue \in Seq(Event)
  BY DEF StackInv, TypeOK
<1>2. /\ [kind |-> "callError"] \in Event /\ [kind |-> "owner"] \in Event
      /\ [kind |-> "Destroy"] \in Event
      /\ \A e \in {"success", "failed"} : [kind |-> "Finished", exit |-> e] \in Event
  BY DEF Event
<1>3. ASSUME NEW e \in Event, Post(e), call' \in BOOLEAN,
             srv' \in {"idle", "running", "done", "gone", "crashed"}, signals' \in 0..MaxSignals
      PROVE  StackInv'
  BY <1>1, <1>3 DEF Post, StackInv, TypeOK, LoopsBelow, object
<1>4. CASE Accept
  BY <1>4 DEF Accept, StackInv, TypeOK, LoopsBelow, object
<1>5. CASE Refuse
  BY <1>2, <1>3, <1>5 DEF Refuse, StackInv, TypeOK
<1>6. CASE Report
  <2>1. signals' \in 0..MaxSignals
    BY <1>6, NestedBounds DEF Report, StackInv, TypeOK
  <2> QED  BY <1>3, <1>6, <2>1 DEF Report, StackInv, TypeOK
<1>7. CASE FinishRun
  BY <1>2, <1>3, <1>7 DEF FinishRun, StackInv, TypeOK
<1>8. CASE DestroyTid
  BY <1>2, <1>3, <1>8 DEF DestroyTid, StackInv, TypeOK
<1>9. CASE Crash
  <2>1. queue' \in Seq(Event)
    BY <1>1, <1>2, <1>9 DEF Crash
  <2> QED  BY <1>9, <2>1 DEF Crash, StackInv, TypeOK, LoopsBelow, object
<1> QED  BY <1>4, <1>5, <1>6, <1>7, <1>8, <1>9 DEF Daemon

(* The types hold at first, ...                                            *)
LEMMA StackInvInitial ==
  Init => StackInv
<1> SUFFICES ASSUME Init  PROVE StackInv
  OBVIOUS
<1>1. Len(stack) = 0 /\ stack \in Seq(Seq(Statement)) /\ queue \in Seq(Event) /\ exits \in Seq(Exit)
  BY DEF Init
<1>2. Len(stack) <= MaxLoops + 1 /\ deleteLevel \in 0..(MaxLoops + 1) /\ signals \in 0..MaxSignals
  BY <1>1, NestedBounds DEF Init
<1>3. LoopsBelow
  BY <1>1 DEF LoopsBelow
<1> QED  BY <1>1, <1>2, <1>3 DEF Init, StackInv, TypeOK

(* ... and in every step.                                                  *)
LEMMA StackInvKept ==
  StackInv /\ [Next]_vars => StackInv'
<1> SUFFICES ASSUME StackInv, [Next]_vars  PROVE StackInv'
  OBVIOUS
<1>1. CASE Setup
  BY <1>1 DEF Setup, StackInv, TypeOK, LoopsBelow
<1>2. CASE Thread
  BY <1>2, StatementTyped, ReturnTyped, HandleTyped, HandleDeleteTyped DEF Thread
<1>3. CASE LeaveLoop
  BY <1>3, LeaveLoopTyped
<1>4. CASE Daemon
  BY <1>4, DaemonTyped
<1>5. CASE UNCHANGED vars
  BY <1>5 DEF vars, object, daemon, StackInv, TypeOK, LoopsBelow
<1> QED  BY <1>1, <1>2, <1>3, <1>4, <1>5 DEF Next

(* Every variable keeps its type, and the stack never grows beyond one     *)
(* slot on top of the allowed event loops.                                 *)
THEOREM TypeCorrect == Spec => []TypeOK
<1>1. StackInv => TypeOK
  BY DEF StackInv
<1> QED  BY <1>1, StackInvInitial, StackInvKept, PTL DEF Spec

(***************************************************************************)
(* The contract                                                            *)
(***************************************************************************)
(* As long as nothing has been reported, no deletion is under way, and     *)
(* every slot that has not returned reports before it asks for one.        *)
UntilReported ==
  exits = <<>> =>
    /\ obj # "deleted" /\ ~sentFinished /\ deleteLevel = 0
    /\ \A i \in 1..Len(queue) : queue[i].kind # "delete"
    /\ \A i \in 1..Len(stack) : Ordered(stack[i])

ContractInv ==
  /\ StackInv
  /\ UntilReported
  /\ obj = "none" => exits = <<>>

(* The phase of the contract in terms of the object.                       *)
LEMMA PhaseValues ==
  /\ obj = "none" => Phase = "absent"
  /\ obj = "deleted" => Phase = "deleted"
  /\ obj = "live" => Phase = IF exits = <<>> THEN "active" ELSE "reported"
  /\ obj' = "none" => Phase' = "absent"
  /\ obj' = "deleted" => Phase' = "deleted"
  /\ obj' = "live" => Phase' = IF exits' = <<>> THEN "active" ELSE "reported"
  BY Zenon DEF Phase

(* What the object does is a step of the contract or none.                 *)
LEMMA ConstructionStarts ==
  ASSUME obj = "none", obj' = "live", exits = <<>>, UNCHANGED exits
  PROVE  [Contract!Next]_(Contract!vars)
<1>1. Phase = "absent" /\ Phase' = "active"
  BY PhaseValues
<1>2. Contract!Start("t")
  BY <1>1 DEF Contract!Start
<1> QED  BY <1>2 DEF Contract!Next

(* A report is a Report of the contract if it is the first one,            *)
(* else a stutter.                                                         *)
LEMMA ReportReports ==
  ASSUME obj = "live", UNCHANGED obj, exits \in Seq(Exit), NEW e \in Exit,
         exits' = Append(exits, e)
  PROVE  exits' # <<>> /\ [Contract!Next]_(Contract!vars)
<1>1. exits' # <<>> /\ exits'[1] = IF exits = <<>> THEN e ELSE exits[1]
  <2>1. Len(exits') = Len(exits) + 1 /\ Len(exits) \in Nat
    OBVIOUS
  <2>2. CASE exits = <<>>
    BY <2>1, <2>2
  <2>3. CASE exits # <<>>
    <3>1. 1 \in 1..Len(exits)
      BY <2>3
    <3> QED  BY <2>1, <2>3, <3>1
  <2> QED  BY <2>2, <2>3
<1>2. Phase' = "reported" /\ Phase = IF exits = <<>> THEN "active" ELSE "reported"
  BY <1>1, PhaseValues
<1>3. CASE exits = <<>>
  <2>1. Contract!Report("t", e)
    BY <1>1, <1>2, <1>3 DEF Contract!Report
  <2> QED  BY <1>1, <2>1 DEF Contract!Next
<1>4. CASE exits # <<>>
  BY <1>1, <1>2, <1>4 DEF Contract!vars
<1> QED  BY <1>3, <1>4

(* The deletion of an object that has reported is a Delete                 *)
(* of the contract.                                                        *)
LEMMA DeletionDeletes ==
  ASSUME obj = "live" \/ obj = "deleted", obj' = "deleted", exits # <<>>, UNCHANGED exits
  PROVE  [Contract!Next]_(Contract!vars)
<1>1. Phase' = "deleted"
  BY PhaseValues
<1>2. CASE obj = "deleted"
  <2>1. Phase = "deleted"
    BY <1>2, PhaseValues
  <2> QED  BY <1>1, <2>1 DEF Contract!vars
<1>3. CASE obj = "live"
  <2>1. Phase = "reported"
    BY <1>3, PhaseValues
  <2>2. Contract!Delete("t")
    BY <1>1, <2>1 DEF Contract!Delete
  <2> QED  BY <2>2 DEF Contract!Next
<1> QED  BY <1>2, <1>3

(* A step that touches neither is a stutter.                               *)
LEMMA SilentStutters ==
  ASSUME UNCHANGED <<obj, exits>>
  PROVE  [Contract!Next]_(Contract!vars)
<1>1. Phase' = Phase
  BY DEF Phase
<1> QED  BY <1>1 DEF Contract!vars

(* A slot goes on with a statement that reports nothing: what is left of   *)
(* it is still in order, and an event loop changes nothing about that.     *)
LEMMA OrderedRest ==
  ASSUME StackInv, stack # <<>>, Head(stack) # <<>>, Ordered(stack[1]),
         Head(Head(stack)).op \notin Reporting
  PROVE  Ordered(Tail(Head(stack))) /\ Ordered(<<Loop>> \o Tail(Head(stack)))
<1> DEFINE f == Tail(Head(stack))
           g == <<Loop>> \o f
<1>1. /\ f \in Seq(Statement) /\ Len(f) = Len(stack[1]) - 1 /\ Len(f) \in Nat
      /\ \A j \in 1..Len(f) : j + 1 \in 1..Len(stack[1]) /\ f[j] = stack[1][j + 1]
      /\ stack[1][1].op \notin Reporting
  BY TopTyped DEF StackInv
<1>2. Ordered(f)
  <2> SUFFICES ASSUME NEW j \in 1..Len(f), f[j].op \in AfterReport
               PROVE  \E k \in 1..(j - 1) : f[k].op \in Reporting
    BY DEF Ordered
  <2>1. PICK k \in 1..j : stack[1][k].op \in Reporting
    BY <1>1 DEF Ordered
  <2>2. k - 1 \in 1..(j - 1) /\ f[k - 1] = stack[1][k]
    BY <1>1, <2>1
  <2> QED  BY <2>1, <2>2
<1>3. /\ Len(g) = Len(f) + 1 /\ g[1] = Loop /\ Loop.op = "loop"
      /\ \A i \in 2..(Len(f) + 1) : i - 1 \in 1..Len(f) /\ g[i] = f[i - 1]
  BY <1>1, Pushed, Statements DEF Loop
<1>4. Ordered(g)
  <2> SUFFICES ASSUME NEW j \in 1..Len(g), g[j].op \in AfterReport
               PROVE  \E k \in 1..(j - 1) : g[k].op \in Reporting
    BY DEF Ordered
  <2>1. j # 1
    BY <1>3 DEF AfterReport
  <2>2. j - 1 \in 1..Len(f) /\ f[j - 1].op \in AfterReport
    BY <1>1, <1>3, <2>1
  <2>3. PICK k \in 1..(j - 2) : f[k].op \in Reporting
    BY <1>2, <2>2 DEF Ordered
  <2>4. k + 1 \in 1..(j - 1) /\ g[k + 1] = f[k]
    BY <1>1, <1>3, <2>2, <2>3
  <2> QED  BY <2>3, <2>4
<1> QED  BY <1>2, <1>4

(* So the whole stack stays in order when its top goes on.                 *)
LEMMA OrderedEmitted ==
  ASSUME StackInv, stack # <<>>, Head(stack) # <<>>,
         \A i \in 1..Len(stack) : Ordered(stack[i]),
         Head(Head(stack)).op \notin Reporting, NEW s, Emitted(s) \/ Continue
  PROVE  \A i \in 1..Len(stack') : Ordered(stack'[i])
<1>1. /\ stack \in Seq(Seq(Statement)) /\ Tail(Head(stack)) \in Seq(Statement)
      /\ Len(stack) \in Nat /\ Len(stack) >= 1
  BY TopTyped DEF StackInv, TypeOK
<1>2. PICK f \in {Tail(Head(stack)), <<Loop>> \o Tail(Head(stack))} :
        stack' = <<f>> \o Tail(stack)
  BY DEF Emitted, Continue
<1>3. f \in Seq(Statement) /\ Ordered(f)
  <2>1. Loop \in Statement
    BY Statements DEF Loop
  <2>2. <<Loop>> \o Tail(Head(stack)) \in Seq(Statement)
    BY <1>1, <2>1, Pushed
  <2>3. Ordered(stack[1])
    BY <1>1
  <2>4. Ordered(Tail(Head(stack))) /\ Ordered(<<Loop>> \o Tail(Head(stack)))
    BY <2>3, OrderedRest
  <2> QED  BY <1>1, <1>2, <2>2, <2>4
<1>4. Len(stack') = Len(stack) /\ stack'[1] = f /\ \A i \in 2..Len(stack) : stack'[i] = stack[i]
  BY <1>1, <1>2, <1>3, Replaced
<1> QED  BY <1>1, <1>3, <1>4

(* A step that reports nothing and posts no deletion.                      *)
LEMMA QuietContract ==
  ASSUME ContractInv, StackInv', UNCHANGED <<obj, exits, sentFinished, deleteLevel>>,
         exits = <<>> => /\ \A i \in 1..Len(queue') : queue'[i].kind # "delete"
                         /\ \A i \in 1..Len(stack') : Ordered(stack'[i])
  PROVE  ContractInv' /\ [Contract!Next]_(Contract!vars)
<1>1. [Contract!Next]_(Contract!vars)
  BY SilentStutters
<1> QED  BY <1>1 DEF ContractInv, UntilReported

(* A report, and a step after the report.                                  *)
LEMMA ReportContract ==
  ASSUME ContractInv, StackInv', obj = "live", UNCHANGED obj, NEW e \in Exit,
         exits' = Append(exits, e)
  PROVE  ContractInv' /\ [Contract!Next]_(Contract!vars)
<1>1. exits' # <<>> /\ [Contract!Next]_(Contract!vars)
  BY ReportReports DEF ContractInv, StackInv, TypeOK
<1> QED  BY <1>1 DEF ContractInv, UntilReported

(* After the report nothing can go wrong any more.                         *)
LEMMA ReportedContract ==
  ASSUME ContractInv, StackInv', exits # <<>>, UNCHANGED <<obj, exits>>
  PROVE  ContractInv' /\ [Contract!Next]_(Contract!vars)
<1>1. [Contract!Next]_(Contract!vars)
  BY SilentStutters
<1> QED  BY <1>1 DEF ContractInv, UntilReported

(* Each statement of a slot keeps the invariant and the contract.          *)
LEMMA StatementContract ==
  ASSUME ContractInv, StackInv',
         \/ EmitSignal \/ EmitFinished \/ EmitUnlessSent \/ SetSent
         \/ DeleteLater \/ DeleteProxy \/ StoreMember
  PROVE  ContractInv' /\ [Contract!Next]_(Contract!vars)
<1>1. obj = "live" /\ stack # <<>> /\ Head(stack) # <<>>
  BY DEF EmitSignal, EmitFinished, EmitUnlessSent, SetSent, DeleteLater, DeleteProxy,
         StoreMember, Executing
<1>2. /\ Head(Head(stack)) \in Statement /\ Head(Head(stack)) = stack[1][1]
      /\ 1 \in 1..Len(stack) /\ 1 \in 1..Len(stack[1])
  BY <1>1, TopTyped DEF ContractInv, StackInv
<1>3. ASSUME UNCHANGED <<obj, exits, sentFinished, deleteLevel, queue>>,
             Head(Head(stack)).op \notin Reporting, NEW s, Emitted(s) \/ Continue
      PROVE  ContractInv' /\ [Contract!Next]_(Contract!vars)
  <2>1. exits = <<>> => \A i \in 1..Len(stack') : Ordered(stack'[i])
    BY <1>1, <1>3, OrderedEmitted DEF ContractInv, UntilReported
  <2> QED  BY <1>3, <2>1, QuietContract DEF ContractInv, UntilReported
<1>4. ASSUME Head(Head(stack)).op \in AfterReport
      PROVE  exits # <<>>
  BY <1>2, <1>4 DEF ContractInv, UntilReported, Ordered
<1>5. CASE EmitSignal
  BY <1>3, <1>5 DEF EmitSignal, Executing, Reporting, object
<1>6. CASE EmitFinished
  <2>1. Head(Head(stack)).exit \in Exit
    BY <1>2, <1>6 DEF EmitFinished, Executing, Statement
  <2> QED  BY <1>1, <1>6, <2>1, ReportContract DEF EmitFinished
<1>7. CASE EmitUnlessSent
  <2>1. CASE sentFinished
    <3>1. exits # <<>>
      BY <2>1 DEF ContractInv, UntilReported
    <3> QED  BY <1>7, <2>1, <3>1, ReportedContract DEF EmitUnlessSent
  <2>2. CASE ~sentFinished
    <3>1. "unknown" \in Exit
      BY DEF Exit
    <3> QED  BY <1>1, <1>7, <2>2, <3>1, ReportContract DEF EmitUnlessSent
  <2> QED  BY <2>1, <2>2
<1>8. CASE SetSent
  <2>1. exits # <<>>
    BY <1>4, <1>8 DEF SetSent, Executing, AfterReport
  <2> QED  BY <1>8, <2>1, ReportedContract DEF SetSent
<1>9. CASE DeleteLater
  <2>1. exits # <<>>
    BY <1>4, <1>9 DEF DeleteLater, Executing, AfterReport
  <2> QED  BY <1>9, <2>1, ReportedContract DEF DeleteLater
<1>10. CASE DeleteProxy
  BY <1>3, <1>10 DEF DeleteProxy, Executing, Reporting
<1>11. CASE StoreMember
  BY <1>3, <1>11 DEF StoreMember, Executing, Reporting, object
<1> QED  BY <1>5, <1>6, <1>7, <1>8, <1>9, <1>10, <1>11

(* So does a slot that returns or is called, ...                           *)
LEMMA ReturnContract ==
  ASSUME ContractInv, StackInv', Return
  PROVE  ContractInv' /\ [Contract!Next]_(Contract!vars)
<1>1. /\ Len(Tail(stack)) = Len(stack) - 1 /\ Len(stack) \in Nat
      /\ \A i \in 1..Len(Tail(stack)) : i + 1 \in 1..Len(stack) /\ Tail(stack)[i] = stack[i + 1]
  BY HeadAndTail DEF Return, ContractInv, StackInv, TypeOK
<1>2. exits = <<>> => \A i \in 1..Len(stack') : Ordered(stack'[i])
  BY <1>1 DEF Return, ContractInv, UntilReported
<1> QED  BY <1>2, QuietContract DEF Return, ContractInv, UntilReported, object

(* ... the slot of the next event is clean, ...                            *)
LEMMA HandleContract ==
  ASSUME ContractInv, StackInv', Handle
  PROVE  ContractInv' /\ [Contract!Next]_(Contract!vars)
<1> DEFINE e == Head(queue)
<1>1. /\ e \in Event /\ e.kind # "delete"
      /\ \A i \in 1..Len(Tail(queue)) : i + 1 \in 1..Len(queue) /\ Tail(queue)[i] = queue[i + 1]
  BY HeadAndTail DEF Handle, ContractInv, StackInv, TypeOK
<1>2. Clean(Slot(e))
  BY <1>1, SlotClean
<1>3. stack \in Seq(Seq(Statement))
  BY DEF ContractInv, StackInv, TypeOK
<1>4. exits = <<>> => \A i \in 1..Len(stack') : Ordered(stack'[i])
  <2>1. CASE stack' = stack
    BY <2>1 DEF ContractInv, UntilReported
  <2>2. CASE stack' = <<Slot(e)>> \o stack
    <3>1. /\ Len(stack') = Len(stack) + 1 /\ stack'[1] = Slot(e)
          /\ \A i \in 2..(Len(stack) + 1) : i - 1 \in 1..Len(stack) /\ stack'[i] = stack[i - 1]
      BY <1>2, <1>3, <2>2, Pushed DEF Clean
    <3>2. ASSUME exits = <<>>, NEW i \in 1..Len(stack')  PROVE Ordered(stack'[i])
      <4>1. CASE i = 1
        BY <1>2, <3>1, <4>1 DEF Clean
      <4>2. CASE i # 1
        <5>1. i - 1 \in 1..Len(stack) /\ stack'[i] = stack[i - 1]
          BY <1>3, <3>1, <4>2
        <5> QED  BY <3>2, <5>1 DEF ContractInv, UntilReported
      <4> QED  BY <4>1, <4>2
    <3> QED  BY <3>2
  <2> QED  BY <2>1, <2>2 DEF Handle
<1>5. exits = <<>> => \A i \in 1..Len(queue') : queue'[i].kind # "delete"
  BY <1>1 DEF Handle, ContractInv, UntilReported
<1> QED  BY <1>4, <1>5, QuietContract DEF Handle, object

(* ... the deletion, ...                                                   *)
LEMMA HandleDeleteContract ==
  ASSUME ContractInv, StackInv', HandleDelete
  PROVE  ContractInv' /\ [Contract!Next]_(Contract!vars)
<1>1. Head(queue) = queue[1] /\ 1 \in 1..Len(queue)
  BY HeadAndTail DEF HandleDelete, ContractInv, StackInv, TypeOK
<1>2. exits # <<>> /\ (obj = "live" \/ obj = "deleted")
  BY <1>1 DEF HandleDelete, ContractInv, UntilReported, StackInv, TypeOK
<1>3. CASE UNCHANGED obj
  BY <1>2, <1>3, ReportedContract DEF HandleDelete
<1>4. CASE obj' = "deleted"
  <2>1. [Contract!Next]_(Contract!vars)
    BY <1>2, <1>4, DeletionDeletes DEF HandleDelete
  <2> QED  BY <1>2, <1>4, <2>1 DEF HandleDelete, ContractInv, UntilReported
<1> QED  BY <1>3, <1>4 DEF HandleDelete

(* ... the application and the daemon.                                     *)
LEMMA LeaveLoopContract ==
  ASSUME ContractInv, StackInv', LeaveLoop
  PROVE  ContractInv' /\ [Contract!Next]_(Contract!vars)
<1>1. stack # <<>> /\ Head(stack) # <<>> /\ Head(Head(stack)) = Loop /\ Continue
  BY DEF LeaveLoop, InLoop
<1>2. Head(Head(stack)).op \notin Reporting
  BY <1>1, Statements DEF Loop, Reporting
<1>3. exits = <<>> => \A i \in 1..Len(stack') : Ordered(stack'[i])
  BY <1>1, <1>2, OrderedEmitted DEF ContractInv, UntilReported
<1> QED  BY <1>3, QuietContract DEF LeaveLoop, ContractInv, UntilReported, object

(* The construction starts the contract.                                   *)
LEMMA SetupContract ==
  ASSUME ContractInv, StackInv', Setup
  PROVE  ContractInv' /\ [Contract!Next]_(Contract!vars)
<1>1. exits = <<>> /\ UNCHANGED exits
  BY DEF Setup, ContractInv
<1>2. [Contract!Next]_(Contract!vars)
  BY <1>1, ConstructionStarts DEF Setup
<1> QED  BY <1>2 DEF Setup, ContractInv, UntilReported

(* The daemon posts events, but never a deletion.                          *)
LEMMA DaemonContract ==
  ASSUME ContractInv, StackInv', Daemon
  PROVE  ContractInv' /\ [Contract!Next]_(Contract!vars)
<1>1. queue \in Seq(Event)
  BY DEF ContractInv, StackInv, TypeOK
<1>2. ASSUME NEW e \in Event, e.kind # "delete", Post(e)
      PROVE  ContractInv' /\ [Contract!Next]_(Contract!vars)
  <2>1. \A i \in 1..Len(queue') : (i \in 1..Len(queue) /\ queue'[i] = queue[i]) \/ queue'[i] = e
    BY <1>1, <1>2 DEF Post
  <2> QED  BY <1>2, <2>1, QuietContract DEF Post, ContractInv, UntilReported, object
<1>3. /\ [kind |-> "callError"] \in Event /\ [kind |-> "Destroy"] \in Event
      /\ \A e \in {"success", "failed"} : [kind |-> "Finished", exit |-> e] \in Event
  BY DEF Event
<1>4. CASE Accept
  BY <1>4, QuietContract DEF Accept, ContractInv, UntilReported, object
<1>5. CASE Refuse \/ DestroyTid
  BY <1>2, <1>3, <1>5 DEF Refuse, DestroyTid
<1>6. CASE Report
  BY <1>2, <1>6 DEF Report
<1>7. CASE FinishRun
  <2>1. PICK x \in {"success", "failed"} : Post([kind |-> "Finished", exit |-> x])
    BY <1>7 DEF FinishRun
  <2> QED  BY <1>2, <1>3, <2>1
<1>8. CASE Crash
  <2>1. \A i \in 1..Len(queue') : \/ i \in 1..Len(queue) /\ queue'[i] = queue[i]
                                 \/ queue'[i] \in {[kind |-> "owner"], [kind |-> "callError"]}
    BY <1>1, <1>8 DEF Crash
  <2>2. exits = <<>> => \A i \in 1..Len(queue') : queue'[i].kind # "delete"
    BY <2>1 DEF ContractInv, UntilReported
  <2> QED  BY <1>8, <2>2, QuietContract DEF Crash, ContractInv, UntilReported, object
<1> QED  BY <1>4, <1>5, <1>6, <1>7, <1>8 DEF Daemon

(* Whatever slots of the application run event loops, and wherever the     *)
(* slots of the library are interrupted: the object reports one outcome    *)
(* and is deleted only afterwards.                                         *)
THEOREM ContractKept == Spec => KeepsContract
<1>1. Init => ContractInv /\ Contract!Init
  <2> SUFFICES ASSUME Init  PROVE ContractInv /\ Contract!Init
    OBVIOUS
  <2>1. Len(queue) = 0 /\ Len(stack) = 0
    BY DEF Init
  <2>2. UntilReported
    BY <2>1 DEF Init, UntilReported
  <2>3. Phase = "absent" /\ exits = <<>>
    BY PhaseValues DEF Init
  <2>4. Contract!Init
    BY <2>3 DEF Contract!Init
  <2> QED  BY <2>2, <2>3, <2>4, StackInvInitial DEF ContractInv
<1>2. ContractInv /\ [Next]_vars => ContractInv' /\ [Contract!Next]_(Contract!vars)
  <2> SUFFICES ASSUME ContractInv, [Next]_vars
               PROVE  ContractInv' /\ [Contract!Next]_(Contract!vars)
    OBVIOUS
  <2>1. StackInv'
    BY StackInvKept DEF ContractInv
  <2>2. CASE Setup
    BY <2>1, <2>2, SetupContract
  <2>3. CASE Thread
    BY <2>1, <2>3, StatementContract, ReturnContract, HandleContract, HandleDeleteContract DEF Thread
  <2>4. CASE LeaveLoop
    BY <2>1, <2>4, LeaveLoopContract
  <2>5. CASE Daemon
    BY <2>1, <2>5, DaemonContract
  <2>6. CASE UNCHANGED vars
    BY <2>1, <2>6, QuietContract DEF vars, object, daemon, ContractInv, UntilReported
  <2> QED  BY <2>2, <2>3, <2>4, <2>5, <2>6 DEF Next
<1> QED  BY <1>1, <1>2, PTL DEF Spec, KeepsContract, Contract!Spec

(***************************************************************************)
(* Below: FinishedOnce and NoResumeAfterDelete, which depend on the        *)
(* signals whose slots run event loops.  FinishedOnce needs that neither   *)
(* the slots of errorCode() nor those of finished() do,                    *)
(* NoResumeAfterDelete that only those of mediaChangeRequired() do; TLC    *)
(* finds a counterexample for every signal left out.                       *)
(***************************************************************************)

(***************************************************************************)
(* What a slot may report                                                  *)
(***************************************************************************)
Has(f, op) == \E j \in 1..Len(f) : f[j].op = op
Reports(f) == \E op \in Reporting : Has(f, op)

(* A statement at which the slot may have to wait for the application.     *)
MayLoop(s) == s.op = "loop" \/ (s.op = "emit" /\ s.signal \in NestedIn)

(* A slot that may wait reports nothing, finished() is followed at once by *)
(* sentFinished, and after the test of sentFinished there is no report.    *)
Shaped(f) ==
  \A j \in 1..Len(f) :
    /\ MayLoop(f[j]) => ~Reports(f)
    /\ f[j].op = "finish" => /\ j + 1 \in 1..Len(f) /\ f[j + 1].op = "setSent"
                             /\ \A k \in 1..Len(f) : f[k].op = "finish" => k = j
    /\ f[j].op = "finishUnlessSent" => \A k \in (j + 1)..Len(f) : f[k].op \notin Reporting

(* The test of sentFinished comes when the proxy is gone.                  *)
Disconnects(f) ==
  \A j \in 1..Len(f) :
    f[j].op = "finishUnlessSent" => \E k \in 1..(j - 1) : f[k].op = "deleteProxy"

(* A slot that reports nothing may wait wherever it likes.                 *)
LEMMA SilentShaped ==
  ASSUME NEW f, ~Reports(f)
  PROVE  Shaped(f) /\ Disconnects(f)
<1>1. \A j \in 1..Len(f) : f[j].op # "finish" /\ f[j].op # "finishUnlessSent"
  BY DEF Reports, Has, Reporting
<1> QED  BY <1>1 DEF Shaped, Disconnects

(* What is left of a slot keeps its shape.                                 *)
LEMMA RestShaped ==
  ASSUME NEW f \in Seq(Statement), f # <<>>, Shaped(f)
  PROVE  /\ Shaped(Tail(f))
         /\ \A op : Has(Tail(f), op) => Has(f, op)
         /\ f[1].op # "deleteProxy" /\ Disconnects(f) => Disconnects(Tail(f))
         /\ f[1].op = "finish" => Tail(f) # <<>> /\ Tail(f)[1].op = "setSent" /\ ~Has(Tail(f), "finish")
         /\ f[1].op = "finishUnlessSent" => ~Reports(Tail(f))
<1> DEFINE g == Tail(f)
<1>1. /\ g \in Seq(Statement) /\ Len(g) = Len(f) - 1 /\ Len(f) \in Nat /\ Len(f) >= 1
      /\ \A j \in 1..Len(g) : j + 1 \in 1..Len(f) /\ g[j] = f[j + 1]
      /\ \A j \in 2..Len(f) : j - 1 \in 1..Len(g) /\ g[j - 1] = f[j]
  BY HeadAndTail
<1> HIDE DEF g
<1>2. \A op : Has(g, op) => Has(f, op)
  BY <1>1 DEF Has
<1>3. Shaped(g)
  <2> SUFFICES ASSUME NEW j \in 1..Len(g)
               PROVE  /\ MayLoop(g[j]) => ~Reports(g)
                      /\ g[j].op = "finish" =>
                           /\ j + 1 \in 1..Len(g) /\ g[j + 1].op = "setSent"
                           /\ \A k \in 1..Len(g) : g[k].op = "finish" => k = j
                      /\ g[j].op = "finishUnlessSent" =>
                           \A k \in (j + 1)..Len(g) : g[k].op \notin Reporting
    BY DEF Shaped
  <2>1. j + 1 \in 1..Len(f) /\ g[j] = f[j + 1]
    BY <1>1
  <2>2. MayLoop(g[j]) => ~Reports(g)
    BY <1>2, <2>1 DEF Shaped, Reports
  <2>3. ASSUME g[j].op = "finish"
        PROVE  /\ j + 1 \in 1..Len(g) /\ g[j + 1].op = "setSent"
               /\ \A k \in 1..Len(g) : g[k].op = "finish" => k = j
    <3>1. /\ j + 2 \in 1..Len(f) /\ f[j + 2].op = "setSent"
          /\ \A k \in 1..Len(f) : f[k].op = "finish" => k = j + 1
      BY <2>1, <2>3 DEF Shaped
    <3>2. j + 1 \in 1..Len(g) /\ g[j + 1] = f[j + 2]
      BY <1>1, <3>1
    <3>3. ASSUME NEW k \in 1..Len(g), g[k].op = "finish"  PROVE k = j
      <4>1. k + 1 \in 1..Len(f) /\ f[k + 1].op = "finish"
        BY <1>1, <3>3
      <4> QED  BY <1>1, <3>1, <4>1
    <3> QED  BY <3>1, <3>2, <3>3
  <2>4. ASSUME g[j].op = "finishUnlessSent", NEW k \in (j + 1)..Len(g)
        PROVE  g[k].op \notin Reporting
    <3>1. k + 1 \in (j + 2)..Len(f) /\ g[k] = f[k + 1]
      BY <1>1
    <3> QED  BY <2>1, <2>4, <3>1 DEF Shaped
  <2> QED  BY <2>2, <2>3, <2>4
<1>4. ASSUME f[1].op # "deleteProxy", Disconnects(f)
      PROVE  Disconnects(g)
  <2> SUFFICES ASSUME NEW j \in 1..Len(g), g[j].op = "finishUnlessSent"
               PROVE  \E k \in 1..(j - 1) : g[k].op = "deleteProxy"
    BY DEF Disconnects
  <2>1. PICK k \in 1..j : f[k].op = "deleteProxy"
    BY <1>1, <1>4 DEF Disconnects
  <2>2. k # 1
    BY <1>4, <2>1
  <2>3. k \in 2..Len(f) /\ k - 1 \in 1..(j - 1)
    BY <1>1, <2>1, <2>2
  <2>4. g[k - 1] = f[k]
    BY <1>1, <2>3
  <2> QED  BY <2>1, <2>3, <2>4
<1>5. ASSUME f[1].op = "finish"
      PROVE  g # <<>> /\ g[1].op = "setSent" /\ ~Has(g, "finish")
  <2>1. 2 \in 1..Len(f) /\ f[2].op = "setSent" /\ \A k \in 1..Len(f) : f[k].op = "finish" => k = 1
    BY <1>1, <1>5 DEF Shaped
  <2>2. 1 \in 1..Len(g) /\ g[1].op = "setSent"
    BY <1>1, <2>1
  <2>3. ~Has(g, "finish")
    <3> SUFFICES ASSUME NEW j \in 1..Len(g), g[j].op = "finish"  PROVE FALSE
      BY DEF Has
    <3>1. j + 1 \in 1..Len(f) /\ f[j + 1].op = "finish"
      BY <1>1
    <3> QED  BY <2>1, <3>1
  <2> QED  BY <2>2, <2>3
<1>6. ASSUME f[1].op = "finishUnlessSent"
      PROVE  ~Reports(g)
  <2> SUFFICES ASSUME NEW j \in 1..Len(g), g[j].op \in Reporting  PROVE FALSE
    BY DEF Reports, Has
  <2>1. j + 1 \in 2..Len(f) /\ f[j + 1].op \in Reporting
    BY <1>1
  <2>2. 1 \in 1..Len(f) /\ \A k \in 2..Len(f) : f[k].op \notin Reporting
    BY <1>1, <1>6 DEF Shaped
  <2> QED  BY <2>1, <2>2
<1> QED  BY <1>2, <1>3, <1>4, <1>5, <1>6 DEF g

(* A slot that waits in place of a statement reports no more than before.  *)
LEMMA WaitingSilent ==
  ASSUME NEW f \in Seq(Statement), f # <<>>, ~Reports(f)
  PROVE  ~Reports(<<Loop>> \o Tail(f))
<1> DEFINE r == Tail(f)
           g == <<Loop>> \o r
<1>1. Loop \in Statement /\ Loop.op = "loop"
  BY Statements DEF Loop
<1>2. /\ r \in Seq(Statement)
      /\ \A j \in 1..Len(r) : j + 1 \in 1..Len(f) /\ r[j] = f[j + 1]
  BY HeadAndTail
<1>3. /\ Len(g) = Len(r) + 1 /\ Len(r) \in Nat /\ g[1] = Loop
      /\ \A i \in 2..(Len(r) + 1) : i - 1 \in 1..Len(r) /\ g[i] = r[i - 1]
  BY <1>1, <1>2, Pushed
<1> HIDE DEF r, g
<1>4. ASSUME NEW j \in 1..Len(g), g[j].op \in Reporting  PROVE FALSE
  <2>1. j # 1
    BY <1>1, <1>3, <1>4 DEF Reporting
  <2>2. j - 1 \in 1..Len(r) /\ g[j] = r[j - 1]
    BY <1>3, <2>1
  <2>3. (j - 1) + 1 \in 1..Len(f) /\ g[j] = f[(j - 1) + 1]
    BY <1>2, <2>2
  <2> QED  BY <1>4, <2>3 DEF Reports, Has
<1> QED  BY <1>4 DEF Reports, Has, g, r

(* The slots that report nothing.                                          *)
LEMMA SilentSlots ==
  /\ \A s \in Relayed : ~Reports(relay(s))
  /\ ~Reports(updateProperties)
  /\ \A n \in Nat : ~Reports(Packages(n))
<1>1. /\ \A s \in Relayed \cup {"remainingTimeChanged"} : Emit(s).op \notin Reporting
      /\ Do("store").op \notin Reporting
  BY Statements DEF Reporting
<1>2. ASSUME NEW s \in Relayed  PROVE ~Reports(relay(s))
  <2>1. Len(relay(s)) = 1 /\ relay(s)[1] = Emit(s)
    BY DEF relay
  <2> QED  BY <1>1, <2>1 DEF Reports, Has
<1>3. ~Reports(updateProperties)
  <2>1. /\ Len(updateProperties) = 3
        /\ updateProperties[1] = Do("store") /\ updateProperties[3] = Do("store")
        /\ updateProperties[2] = Emit("remainingTimeChanged")
    BY DEF updateProperties
  <2>2. \A j \in 1..3 : updateProperties[j].op \notin Reporting
    BY <1>1, <2>1
  <2> QED  BY <2>1, <2>2 DEF Reports, Has
<1>4. ASSUME NEW n \in Nat  PROVE ~Reports(Packages(n))
  <2>1. \A j \in 1..n : Packages(n)[j] = Emit("package")
    BY DEF Packages
  <2>2. Len(Packages(n)) = n
    BY Statements DEF Packages, Relayed
  <2> QED  BY <1>1, <2>1, <2>2 DEF Reports, Has, Relayed
<1> QED  BY <1>2, <1>3, <1>4

(* finished() and destroy(), alone and after the error of a failed call.   *)
LEMMA ReportingSlots ==
  ASSUME "errorCode" \notin NestedIn, NEW e \in Exit
  PROVE  /\ Shaped(finished(e)) /\ Disconnects(finished(e))
         /\ Shaped(destroy) /\ Disconnects(destroy) /\ ~Has(destroy, "finish")
         /\ Shaped(<<Emit("errorCode")>> \o finished(e) \o destroy)
         /\ Disconnects(<<Emit("errorCode")>> \o finished(e) \o destroy)
<1> DEFINE f == <<Emit("errorCode")>> \o finished(e) \o destroy
<1>1. /\ Finish(e).op = "finish" /\ ~MayLoop(Finish(e))
      /\ \A op \in {"setSent", "finishUnlessSent", "deleteLater", "deleteProxy"} :
            Do(op).op = op /\ ~MayLoop(Do(op))
      /\ Emit("errorCode").op = "emit" /\ ~MayLoop(Emit("errorCode"))
  BY DEF Finish, Do, Emit, MayLoop
<1>2. /\ Len(finished(e)) = 3 /\ finished(e)[1] = Finish(e)
      /\ finished(e)[2] = Do("setSent") /\ finished(e)[3] = Do("deleteLater")
  BY DEF finished
<1>3. /\ Len(destroy) = 3 /\ destroy[1] = Do("deleteProxy")
      /\ destroy[2] = Do("finishUnlessSent") /\ destroy[3] = Do("deleteLater")
  BY DEF destroy
<1>4. /\ Len(f) = 7 /\ f[1] = Emit("errorCode")
      /\ f[2] = Finish(e) /\ f[3] = Do("setSent") /\ f[4] = Do("deleteLater")
      /\ f[5] = Do("deleteProxy") /\ f[6] = Do("finishUnlessSent") /\ f[7] = Do("deleteLater")
  BY DEF finished, destroy
<1> HIDE DEF f
<1>5. Shaped(finished(e)) /\ Disconnects(finished(e))
  <2>1. \A j \in 1..3 : j = 1 \/ j = 2 \/ j = 3
    OBVIOUS
  <2>2. /\ finished(e)[1].op = "finish" /\ finished(e)[2].op = "setSent"
        /\ finished(e)[3].op = "deleteLater"
        /\ \A j \in 1..3 : ~MayLoop(finished(e)[j])
    BY <1>1, <1>2, <2>1
  <2> QED  BY <1>2, <2>1, <2>2 DEF Shaped, Disconnects
<1>6. Shaped(destroy) /\ Disconnects(destroy) /\ ~Has(destroy, "finish")
  <2>1. \A j \in 1..3 : j = 1 \/ j = 2 \/ j = 3
    OBVIOUS
  <2>2. /\ destroy[1].op = "deleteProxy" /\ destroy[2].op = "finishUnlessSent"
        /\ destroy[3].op = "deleteLater"
        /\ \A j \in 1..3 : ~MayLoop(destroy[j])
    BY <1>1, <1>3, <2>1
  <2> QED  BY <1>3, <2>1, <2>2 DEF Shaped, Disconnects, Has, Reporting
<1>7. Shaped(f) /\ Disconnects(f)
  <2>1. \A j \in 1..7 : j = 1 \/ j = 2 \/ j = 3 \/ j = 4 \/ j = 5 \/ j = 6 \/ j = 7
    OBVIOUS
  <2>2. /\ f[1].op = "emit" /\ f[2].op = "finish" /\ f[3].op = "setSent"
        /\ f[4].op = "deleteLater" /\ f[5].op = "deleteProxy"
        /\ f[6].op = "finishUnlessSent" /\ f[7].op = "deleteLater"
        /\ \A j \in 1..7 : ~MayLoop(f[j])
    BY <1>1, <1>4, <2>1
  <2>3. /\ \A j \in 1..7 : f[j].op = "finish" => j = 2
        /\ \A j \in 1..7 : f[j].op = "finishUnlessSent" => j = 6
    BY <2>1, <2>2
  <2>4. Shaped(f)
    BY <1>4, <2>2, <2>3 DEF Shaped, Reporting
  <2>5. Disconnects(f)
    BY <1>4, <2>2, <2>3 DEF Disconnects
  <2> QED  BY <2>4, <2>5
<1> QED  BY <1>5, <1>6, <1>7 DEF f

Ending(e) == e.kind \in {"Finished", "callError"}

(* What the slot of an event may report, the loss of the owner aside.      *)
LEMMA SlotShaped ==
  ASSUME "errorCode" \notin NestedIn, NEW e \in Event, e.kind \notin {"delete", "owner"}
  PROVE  /\ Shaped(Slot(e)) /\ Disconnects(Slot(e))
         /\ Reports(Slot(e)) => Ending(e) \/ e.kind = "Destroy"
         /\ Has(Slot(e), "finish") => Ending(e)
<1>1. "failed" \in Exit /\ "success" \in Exit
  BY DEF Exit
<1>2. CASE e.kind = "Finished"
  <2>1. e.exit \in Exit
    BY <1>1, <1>2 DEF Event
  <2>2. Slot(e) = finished(e.exit)
    BY <1>2, Zenon DEF Slot
  <2>3. Ending(e)
    BY <1>2 DEF Ending
  <2> QED  BY <2>1, <2>2, <2>3, ReportingSlots
<1>3. CASE e.kind = "Destroy"
  <2>1. Slot(e) = destroy
    BY <1>3, Zenon DEF Slot
  <2> QED  BY <1>1, <1>3, <2>1, ReportingSlots
<1>4. CASE e.kind = "callError"
  <2>1. Slot(e) = <<Emit("errorCode")>> \o finished("failed") \o destroy
    BY <1>4, Zenon DEF Slot, callFailed
  <2>2. Ending(e)
    BY <1>4 DEF Ending
  <2> QED  BY <1>1, <2>1, <2>2, ReportingSlots
<1>5. CASE e.kind \in {"Relayed", "Packages", "properties"}
  <2>1. ~Reports(Slot(e))
    <3>1. CASE e.kind = "Relayed"
      <4>1. e.signal \in Relayed
        BY <3>1 DEF Event
      <4>2. Slot(e) = relay(e.signal)
        BY <3>1, Zenon DEF Slot
      <4> QED  BY <4>1, <4>2, SilentSlots
    <3>2. CASE e.kind = "Packages"
      <4>1. e.n \in Nat
        BY <3>2, NestedBounds DEF Event
      <4>2. Slot(e) = Packages(e.n)
        BY <3>2, Zenon DEF Slot
      <4> QED  BY <4>1, <4>2, SilentSlots
    <3>3. CASE e.kind = "properties"
      <4>1. Slot(e) = updateProperties
        BY <3>3, Zenon DEF Slot
      <4> QED  BY <4>1, SilentSlots
    <3> QED  BY <1>5, <3>1, <3>2, <3>3
  <2> QED  BY <2>1, SilentShaped DEF Reports, Reporting
<1> QED  BY <1>2, <1>3, <1>4, <1>5 DEF Event

(***************************************************************************)
(* The invariant of FinishedOnce                                           *)
(***************************************************************************)
NoEnding(q) == \A i \in 1..Len(q) : ~Ending(q[i])
NoDestroy(q) == \A i \in 1..Len(q) : q[i].kind # "Destroy"

(* The events of a daemon that does not crash: it ends a transaction once  *)
(* and destroys it after that.                                             *)
InOrder(q) ==
  \A i \in 1..Len(q) :
    /\ q[i].kind # "owner"
    /\ Ending(q[i]) => \A j \in 1..Len(q) : Ending(q[j]) => j = i
    /\ q[i].kind = "Destroy" => \A j \in (i + 1)..Len(q) : ~Ending(q[j])

Open == call \/ srv = "running"
Settled == ~Open /\ NoEnding(queue)

EndedOnce ==
  /\ obj = "none" => srv = "idle" /\ ~call /\ queue = <<>> /\ stack = <<>> /\ exits = <<>>
  /\ call => srv = "idle"
  /\ InOrder(queue)
  /\ Open => NoEnding(queue)
  /\ srv # "gone" => NoDestroy(queue)

(* Only the slot on top of the stack may report, and only when the         *)
(* transaction has ended and nothing but Destroy can follow.               *)
TopReports ==
  \A i \in 1..Len(stack) :
    /\ Shaped(stack[i])
    /\ Reports(stack[i]) => i = 1 /\ Settled
    /\ p => Disconnects(stack[i])

SentNext == stack # <<>> /\ stack[1] # <<>> /\ stack[1][1].op = "setSent"
Nowhere(op) == \A i \in 1..Len(stack) : ~Has(stack[i], op)

(* A report is the only one: the flag is set, or about to be set, or there *)
(* is nothing left that would test it.                                     *)
ReportedOnce ==
  exits # <<>> =>
    /\ Len(exits) = 1
    /\ Settled
    /\ Nowhere("finish")
    /\ sentFinished \/ SentNext \/ (~p /\ Nowhere("finishUnlessSent"))

OnceInv ==
  /\ StackInv
  /\ srv = "crashed" => obj # "none"
  /\ srv # "crashed" => EndedOnce /\ TopReports /\ ReportedOnce

(* No application waits while the library reports.                         *)
ReportsAlone == NestedIn \cap {"errorCode", "finished"} = {}

(* The slot on top goes on: it reports no more than before, and the slots  *)
(* below it do not change.                                                 *)
LEMMA TopGoesOn ==
  ASSUME StackInv, TopReports, stack # <<>>, Head(stack) # <<>>, NEW s,
         Continue \/ Emitted(s), s \in NestedIn => MayLoop(stack[1][1]),
         stack[1][1].op # "deleteProxy" \/ ~p', Settled => Settled', p' => p
  PROVE  /\ TopReports'
         /\ \A op \in Reporting : Nowhere(op) => Nowhere(op)'
<1> DEFINE f == stack[1]
           g == stack'[1]
<1>1. /\ f \in Seq(Statement) /\ f # <<>> /\ Head(stack) = f
      /\ stack \in Seq(Seq(Statement)) /\ Len(stack) \in Nat /\ Len(stack) >= 1
      /\ Tail(f) \in Seq(Statement) /\ Shaped(f) /\ (p => Disconnects(f))
  BY TopTyped DEF StackInv, TypeOK, TopReports
<1>2. /\ Shaped(Tail(f)) /\ (\A op : Has(Tail(f), op) => Has(f, op))
      /\ p' => Disconnects(Tail(f))
  <2> HIDE DEF f
  <2>1. /\ Shaped(Tail(f)) /\ (\A op : Has(Tail(f), op) => Has(f, op))
        /\ f[1].op # "deleteProxy" /\ Disconnects(f) => Disconnects(Tail(f))
    BY <1>1, RestShaped
  <2> QED  BY <1>1, <2>1 DEF f
<1>3. /\ Len(stack') = Len(stack) /\ \A i \in 2..Len(stack) : stack'[i] = stack[i]
      /\ Shaped(g) /\ (p' => Disconnects(g))
      /\ \A op \in Reporting : Has(g, op) => Has(f, op)
  <2>1. CASE Continue
    <3>1. stack' = <<Tail(f)>> \o Tail(stack)
      BY <1>1, <2>1 DEF Continue
    <3>2. /\ Len(stack') = Len(stack) /\ g = Tail(f)
          /\ \A i \in 2..Len(stack) : stack'[i] = stack[i]
      BY <1>1, <3>1, Replaced
    <3> QED  BY <1>2, <3>2
  <2>2. CASE s \in NestedIn /\ stack' = <<<<Loop>> \o Tail(f)>> \o Tail(stack)
    <3>1. <<Loop>> \o Tail(f) \in Seq(Statement)
      BY <1>1, Statements, Pushed DEF Loop
    <3>2. /\ Len(stack') = Len(stack) /\ g = <<Loop>> \o Tail(f)
          /\ \A i \in 2..Len(stack) : stack'[i] = stack[i]
      BY <1>1, <2>2, <3>1, Replaced
    <3>3. ~Reports(f)
      <4>1. 1 \in 1..Len(f)
        BY <1>1
      <4> QED  BY <1>1, <2>2, <4>1 DEF Shaped
    <3>4. ~Reports(g)
      BY <1>1, <3>2, <3>3, WaitingSilent
    <3>5. Shaped(g) /\ Disconnects(g)
      BY <3>4, SilentShaped
    <3> QED  BY <3>2, <3>4, <3>5 DEF Reports
  <2> QED  BY <1>1, <2>1, <2>2 DEF Emitted
<1> HIDE DEF f, g
<1>4. TopReports'
  <2> SUFFICES ASSUME NEW i \in 1..Len(stack')
               PROVE  /\ Shaped(stack'[i])
                      /\ Reports(stack'[i]) => i = 1 /\ Settled'
                      /\ p' => Disconnects(stack'[i])
    BY DEF TopReports
  <2>1. CASE i = 1
    <3>1. Reports(g) => Reports(f)
      BY <1>3 DEF Reports
    <3>2. Reports(f) => Settled
      BY <1>1 DEF TopReports, f
    <3> QED  BY <1>3, <2>1, <3>1, <3>2 DEF g
  <2>2. CASE i # 1
    <3>1. i \in 2..Len(stack) /\ i \in 1..Len(stack) /\ stack'[i] = stack[i]
      BY <1>1, <1>3, <2>2
    <3> QED  BY <3>1 DEF TopReports
  <2> QED  BY <2>1, <2>2
<1>5. ASSUME NEW op \in Reporting, Nowhere(op)
      PROVE  Nowhere(op)'
  <2> SUFFICES ASSUME NEW i \in 1..Len(stack')  PROVE ~Has(stack'[i], op)
    BY DEF Nowhere, Has
  <2>1. CASE i = 1
    <3>1. ~Has(f, op)
      BY <1>1, <1>5 DEF Nowhere, f
    <3> QED  BY <1>3, <2>1, <3>1 DEF g
  <2>2. CASE i # 1
    <3>1. i \in 1..Len(stack) /\ stack'[i] = stack[i]
      BY <1>1, <1>3, <2>2
    <3> QED  BY <1>5, <3>1 DEF Nowhere
  <2> QED  BY <2>1, <2>2
<1> QED  BY <1>4, <1>5

(* An event may be posted unless it ends a transaction that has ended      *)
(* or has been destroyed.                                                  *)
LEMMA Posted ==
  ASSUME NEW q \in Seq(Event), NEW e \in Event, InOrder(q), e.kind # "owner",
         Ending(e) => NoEnding(q) /\ NoDestroy(q)
  PROVE  /\ InOrder(Append(q, e))
         /\ ~Ending(e) /\ NoEnding(q) => NoEnding(Append(q, e))
         /\ e.kind # "Destroy" /\ NoDestroy(q) => NoDestroy(Append(q, e))
<1> DEFINE r == Append(q, e)
<1>1. /\ Len(r) = Len(q) + 1 /\ Len(q) \in Nat
      /\ \A i \in 1..Len(r) :
            (i \in 1..Len(q) /\ r[i] = q[i]) \/ (i = Len(q) + 1 /\ r[i] = e)
  OBVIOUS
<1> HIDE DEF r
<1>2. InOrder(r)
  <2> SUFFICES ASSUME NEW i \in 1..Len(r)
               PROVE  /\ r[i].kind # "owner"
                      /\ Ending(r[i]) => \A j \in 1..Len(r) : Ending(r[j]) => j = i
                      /\ r[i].kind = "Destroy" => \A j \in (i + 1)..Len(r) : ~Ending(r[j])
    BY DEF InOrder
  <2>1. r[i].kind # "owner"
    BY <1>1 DEF InOrder
  <2>2. ASSUME Ending(r[i]), NEW j \in 1..Len(r), Ending(r[j])
        PROVE  j = i
    BY <1>1, <2>2 DEF InOrder, NoEnding
  <2>3. ASSUME r[i].kind = "Destroy", NEW j \in (i + 1)..Len(r), Ending(r[j])
        PROVE  FALSE
    <3>1. j \in 1..Len(r) /\ i # Len(r)
      BY <1>1
    <3>2. i \in 1..Len(q) /\ q[i].kind = "Destroy"
      BY <1>1, <2>3, <3>1
    <3>3. CASE j \in 1..Len(q) /\ r[j] = q[j]
      <4>1. j \in (i + 1)..Len(q)
        BY <1>1, <3>3
      <4> QED  BY <2>3, <3>2, <3>3, <4>1 DEF InOrder
    <3>4. CASE r[j] = e
      BY <2>3, <3>2, <3>4 DEF NoDestroy
    <3> QED  BY <1>1, <3>1, <3>3, <3>4
  <2> QED  BY <2>1, <2>2, <2>3
<1>3. ~Ending(e) /\ NoEnding(q) => NoEnding(r)
  BY <1>1 DEF NoEnding
<1>4. e.kind # "Destroy" /\ NoDestroy(q) => NoDestroy(r)
  BY <1>1 DEF NoDestroy
<1> QED  BY <1>2, <1>3, <1>4 DEF r

(* The next event is taken: after the end of the transaction, or Destroy,  *)
(* there is no end left in the queue.                                      *)
LEMMA Taken ==
  ASSUME NEW q \in Seq(Event), q # <<>>, InOrder(q)
  PROVE  /\ Head(q) \in Event /\ Head(q).kind # "owner" /\ Tail(q) \in Seq(Event)
         /\ InOrder(Tail(q))
         /\ NoEnding(q) => NoEnding(Tail(q))
         /\ NoDestroy(q) => NoDestroy(Tail(q)) /\ Head(q).kind # "Destroy"
         /\ Ending(Head(q)) => ~NoEnding(q)
         /\ Ending(Head(q)) \/ Head(q).kind = "Destroy" => NoEnding(Tail(q))
<1> DEFINE r == Tail(q)
           e == Head(q)
<1>1. /\ e \in Event /\ e = q[1] /\ 1 \in 1..Len(q) /\ r \in Seq(Event)
      /\ Len(r) = Len(q) - 1 /\ Len(q) \in Nat
      /\ \A i \in 1..Len(r) : i + 1 \in 2..Len(q) /\ i + 1 \in 1..Len(q) /\ r[i] = q[i + 1]
  BY HeadAndTail
<1> HIDE DEF r, e
<1>2. NoEnding(q) => NoEnding(r) /\ ~Ending(e)
  BY <1>1 DEF NoEnding
<1>3. NoDestroy(q) => NoDestroy(r) /\ e.kind # "Destroy"
  BY <1>1 DEF NoDestroy
<1>4. Ending(e) \/ e.kind = "Destroy" => NoEnding(r)
  <2> SUFFICES ASSUME Ending(e) \/ e.kind = "Destroy", NEW i \in 1..Len(r), Ending(r[i])
               PROVE  FALSE
    BY DEF NoEnding
  <2>1. i + 1 \in 2..Len(q) /\ i + 1 \in 1..Len(q) /\ Ending(q[i + 1])
    BY <1>1
  <2>2. Ending(q[1]) => \A j \in 1..Len(q) : Ending(q[j]) => j = 1
    BY <1>1 DEF InOrder
  <2>3. q[1].kind = "Destroy" => \A j \in 2..Len(q) : ~Ending(q[j])
    BY <1>1 DEF InOrder
  <2>4. i + 1 # 1
    BY <1>1
  <2> QED  BY <1>1, <2>1, <2>2, <2>3, <2>4
<1>5. InOrder(r)
  <2> SUFFICES ASSUME NEW i \in 1..Len(r)
               PROVE  /\ r[i].kind # "owner"
                      /\ Ending(r[i]) => \A j \in 1..Len(r) : Ending(r[j]) => j = i
                      /\ r[i].kind = "Destroy" => \A j \in (i + 1)..Len(r) : ~Ending(r[j])
    BY DEF InOrder
  <2>1. r[i].kind # "owner"
    BY <1>1 DEF InOrder
  <2>2. ASSUME Ending(r[i]), NEW j \in 1..Len(r), Ending(r[j])
        PROVE  j = i
    <3>1. Ending(q[i + 1]) /\ Ending(q[j + 1]) /\ i + 1 \in 1..Len(q) /\ j + 1 \in 1..Len(q)
      BY <1>1, <2>2
    <3>2. j + 1 = i + 1
      BY <3>1 DEF InOrder
    <3> QED  BY <1>1, <3>2
  <2>3. ASSUME r[i].kind = "Destroy", NEW j \in (i + 1)..Len(r), Ending(r[j])
        PROVE  FALSE
    <3>1. j \in 1..Len(r) /\ j + 1 \in (i + 2)..Len(q) /\ i + 1 \in 1..Len(q)
      BY <1>1
    <3>2. q[i + 1].kind = "Destroy" /\ Ending(q[j + 1])
      BY <1>1, <2>3, <3>1
    <3>3. j + 1 \in ((i + 1) + 1)..Len(q)
      BY <1>1, <3>1
    <3> QED  BY <3>1, <3>2, <3>3 DEF InOrder
  <2> QED  BY <2>1, <2>2, <2>3
<1>6. e.kind # "owner"
  BY <1>1 DEF InOrder
<1> QED  BY <1>1, <1>2, <1>3, <1>4, <1>5, <1>6 DEF r, e

(* The statements that report: finish() and the test of sentFinished.      *)
LEMMA ReportStatements ==
  ASSUME StackInv, EndedOnce, TopReports, ReportedOnce, ReportsAlone,
         EmitFinished \/ EmitUnlessSent
  PROVE  EndedOnce' /\ TopReports' /\ ReportedOnce'
<1> DEFINE f == stack[1]
<1>1. /\ obj = "live" /\ UNCHANGED <<obj, call, srv, queue, p, sentFinished>>
      /\ stack # <<>> /\ Head(stack) # <<>> /\ f[1].op \in Reporting
      /\ Continue
      /\ \/ exits' = exits /\ f[1].op = "finishUnlessSent" /\ sentFinished
         \/ \E e : exits' = Append(exits, e)
  <2>1. "finished" \notin NestedIn
    BY DEF ReportsAlone
  <2>2. stack # <<>> /\ Head(stack) # <<>> /\ Head(Head(stack)) = f[1]
    BY TopTyped DEF EmitFinished, EmitUnlessSent, Executing, StackInv
  <2> QED  BY <2>1, <2>2 DEF EmitFinished, EmitUnlessSent, Executing, Emitted, Reporting, daemon
<1>2. /\ f \in Seq(Statement) /\ f # <<>> /\ stack \in Seq(Seq(Statement)) /\ Len(stack) >= 1
      /\ Len(stack) \in Nat /\ Tail(f) \in Seq(Statement) /\ Head(stack) = f /\ Len(f) >= 1 /\ Len(f) \in Nat
      /\ Shaped(f) /\ (p => Disconnects(f))
  BY <1>1, TopTyped DEF StackInv, TypeOK, TopReports
<1>3. EndedOnce'
  BY <1>1 DEF EndedOnce, Open
<1>4. Settled
  <2>1. Reports(f)
    BY <1>1, <1>2 DEF Reports, Has
  <2> QED  BY <1>2, <2>1 DEF TopReports
<1>5. Settled'
  BY <1>1, <1>4 DEF Settled, Open
<1>6. TopReports' /\ \A op \in Reporting : Nowhere(op) => Nowhere(op)'
  <2>1. f[1].op # "deleteProxy" /\ ("finished" \in NestedIn => MayLoop(f[1]))
    BY <1>1 DEF Reporting, ReportsAlone
  <2> QED  BY <1>1, <1>5, <2>1, TopGoesOn
<1>7. /\ Len(stack') = Len(stack) /\ stack'[1] = Tail(f)
      /\ \A i \in 2..Len(stack) : stack'[i] = stack[i]
  <2>1. stack' = <<Tail(f)>> \o Tail(stack)
    BY <1>1, <1>2 DEF Continue
  <2> QED  BY <1>1, <1>2, <2>1, Replaced
<1>8. \A i \in 2..Len(stack) : ~Reports(stack[i])
  BY DEF TopReports
<1>9. ASSUME NEW op \in Reporting, ~Has(Tail(f), op)
      PROVE  Nowhere(op)'
  <2> SUFFICES ASSUME NEW i \in 1..Len(stack')  PROVE ~Has(stack'[i], op)
    BY DEF Nowhere, Has
  <2>1. CASE i = 1
    BY <1>7, <1>9, <2>1
  <2>2. CASE i # 1
    <3>1. i \in 2..Len(stack)
      BY <1>2, <1>7, <2>2
    <3> QED  BY <1>7, <1>8, <1>9, <3>1 DEF Reports
  <2> QED  BY <2>1, <2>2
<1>10. CASE exits' = exits /\ sentFinished
  <2>1. exits' # <<>> => Len(exits') = 1 /\ Nowhere("finish")'
    BY <1>6, <1>10 DEF ReportedOnce, Reporting
  <2> QED  BY <1>1, <1>3, <1>5, <1>6, <1>10, <2>1 DEF ReportedOnce
<1>11. CASE f[1].op = "finish"
  <2>1. exits = <<>>
    <3>1. Has(f, "finish")
      BY <1>2, <1>11 DEF Has
    <3>2. ~Nowhere("finish")
      BY <1>2, <3>1 DEF Nowhere
    <3> QED  BY <3>2 DEF ReportedOnce
  <2>2. Len(exits') = 1
    BY <1>1, <1>11, <2>1
  <2>3. Tail(f) # <<>> /\ Tail(f)[1].op = "setSent" /\ ~Has(Tail(f), "finish")
    <3> HIDE DEF f
    <3> QED  BY <1>2, <1>11, RestShaped
  <2>4. Nowhere("finish")'
    BY <1>9, <2>3 DEF Reporting
  <2>5. SentNext'
    <3>1. stack' # <<>>
      BY <1>2, <1>7
    <3> QED  BY <1>7, <2>3, <3>1 DEF SentNext
  <2> QED  BY <1>3, <1>5, <1>6, <2>2, <2>4, <2>5 DEF ReportedOnce
<1>12. CASE f[1].op = "finishUnlessSent" /\ ~sentFinished /\ \E e : exits' = Append(exits, e)
  <2>1. ~p
    <3>1. ~Disconnects(f)
      BY <1>2, <1>12 DEF Disconnects
    <3> QED  BY <1>2, <3>1
  <2>2. exits = <<>>
    <3>1. Has(f, "finishUnlessSent")
      BY <1>2, <1>12 DEF Has
    <3>2. ~Nowhere("finishUnlessSent") /\ ~SentNext
      BY <1>2, <1>12, <3>1 DEF Nowhere, SentNext
    <3> QED  BY <1>12, <3>2 DEF ReportedOnce
  <2>3. Len(exits') = 1
    BY <1>12, <2>2
  <2>4. ~Reports(Tail(f))
    <3> HIDE DEF f
    <3> QED  BY <1>2, <1>12, RestShaped
  <2>5. Nowhere("finish")' /\ Nowhere("finishUnlessSent")'
    BY <1>9, <2>4 DEF Reporting, Reports
  <2> QED  BY <1>1, <1>3, <1>5, <1>6, <2>1, <2>3, <2>5 DEF ReportedOnce
<1> QED  BY <1>1, <1>2, <1>10, <1>11, <1>12 DEF EmitUnlessSent, EmitFinished, Reporting, Executing

(* The statements that report nothing.                                     *)
LEMMA OtherStatements ==
  ASSUME StackInv, EndedOnce, TopReports, ReportedOnce,
         EmitSignal \/ SetSent \/ DeleteLater \/ DeleteProxy \/ StoreMember
  PROVE  EndedOnce' /\ TopReports' /\ ReportedOnce'
<1>1. /\ obj = "live" /\ UNCHANGED <<obj, call, srv, exits>> /\ queue \in Seq(Event)
      /\ stack # <<>> /\ Head(stack) # <<>> /\ Head(Head(stack)) = stack[1][1]
  <2>1. stack # <<>> /\ Head(stack) # <<>>
    BY DEF EmitSignal, SetSent, DeleteLater, DeleteProxy, StoreMember, Executing
  <2> QED  BY <2>1, TopTyped DEF EmitSignal, SetSent, DeleteLater, DeleteProxy, StoreMember,
                                 Executing, object, daemon, StackInv, TypeOK
<1>2. EndedOnce' /\ (Settled => Settled')
  <2>1. CASE UNCHANGED queue
    BY <1>1, <2>1 DEF EndedOnce, Settled, Open
  <2>2. CASE queue' = Append(queue, [kind |-> "delete"])
    <3> DEFINE e == [kind |-> "delete"]
    <3>1. e \in Event /\ ~Ending(e) /\ e.kind # "owner" /\ e.kind # "Destroy"
      BY DEF Event, Ending
    <3>2. InOrder(queue)
      BY DEF EndedOnce
    <3> HIDE DEF e
    <3>3. /\ InOrder(Append(queue, e))
          /\ NoEnding(queue) => NoEnding(Append(queue, e))
          /\ NoDestroy(queue) => NoDestroy(Append(queue, e))
      BY <1>1, <3>1, <3>2, Posted
    <3> QED  BY <1>1, <2>2, <3>3 DEF EndedOnce, Settled, Open, e
  <2> QED  BY <2>1, <2>2 DEF EmitSignal, SetSent, DeleteLater, DeleteProxy, StoreMember
<1>3. PICK s : /\ Continue \/ Emitted(s)
               /\ s \in NestedIn => MayLoop(stack[1][1])
  <2>1. CASE EmitSignal
    BY <1>1, <2>1 DEF EmitSignal, Executing, MayLoop
  <2>2. CASE SetSent \/ DeleteLater \/ DeleteProxy \/ StoreMember
    <3>1. Continue
      BY <2>2 DEF SetSent, DeleteLater, DeleteProxy, StoreMember
    <3>2. \E s : s \notin NestedIn
      BY NestedAssumption, "Setup" \notin Relayed \cup {"finished", "remainingTimeChanged"} DEF Relayed
    <3> QED  BY <3>1, <3>2
  <2> QED  BY <2>1, <2>2
<1>4. (stack[1][1].op # "deleteProxy" \/ ~p') /\ (p' => p)
  BY <1>1 DEF EmitSignal, SetSent, DeleteLater, DeleteProxy, StoreMember, Executing, object
<1>5. TopReports' /\ \A op \in Reporting : Nowhere(op) => Nowhere(op)'
  BY <1>1, <1>2, <1>3, <1>4, TopGoesOn
<1>6. ReportedOnce'
  <2> SUFFICES ASSUME exits # <<>>
               PROVE  Len(exits') = 1 /\ Settled' /\ Nowhere("finish")'
                      /\ (sentFinished' \/ SentNext' \/ (~p' /\ Nowhere("finishUnlessSent")'))
    BY <1>1 DEF ReportedOnce
  <2>1. Len(exits') = 1 /\ Settled' /\ Nowhere("finish")'
    BY <1>1, <1>2, <1>5 DEF ReportedOnce, Reporting
  <2>2. (sentFinished => sentFinished') /\ (SentNext => sentFinished')
    BY <1>1 DEF EmitSignal, SetSent, DeleteLater, DeleteProxy, StoreMember, Executing, object, SentNext
  <2>3. ~p /\ Nowhere("finishUnlessSent") => ~p' /\ Nowhere("finishUnlessSent")'
    BY <1>4, <1>5 DEF Reporting
  <2> QED  BY <2>1, <2>2, <2>3 DEF ReportedOnce
<1> QED  BY <1>2, <1>5, <1>6

(* A slot returns.                                                         *)
LEMMA ReturnOnce ==
  ASSUME StackInv, EndedOnce, TopReports, ReportedOnce, Return
  PROVE  EndedOnce' /\ TopReports' /\ ReportedOnce'
<1>1. /\ stack # <<>> /\ stack \in Seq(Seq(Statement)) /\ Head(stack) = <<>>
      /\ stack' = Tail(stack) /\ UNCHANGED <<object, queue, daemon>>
  BY DEF Return, StackInv, TypeOK
<1>2. /\ \A i \in 1..Len(stack') : i + 1 \in 1..Len(stack) /\ stack'[i] = stack[i + 1]
      /\ Len(stack) \in Nat /\ Head(stack) = stack[1]
  BY <1>1, HeadAndTail
<1>3. EndedOnce' /\ (Settled' <=> Settled)
  BY <1>1 DEF EndedOnce, Settled, Open, object, daemon
<1>4. TopReports'
  <2> SUFFICES ASSUME NEW i \in 1..Len(stack')
               PROVE  Shaped(stack'[i]) /\ ~Reports(stack'[i]) /\ (p' => Disconnects(stack'[i]))
    BY DEF TopReports
  <2>1. i + 1 \in 1..Len(stack) /\ stack'[i] = stack[i + 1] /\ i + 1 # 1
    BY <1>2
  <2>2. ~Reports(stack[i + 1]) /\ Shaped(stack[i + 1])
    BY <2>1 DEF TopReports
  <2> QED  BY <2>1, <2>2, SilentShaped
<1>5. \A op : Nowhere(op) => Nowhere(op)'
  BY <1>2 DEF Nowhere
<1>6. ~SentNext
  BY <1>1, <1>2 DEF SentNext
<1> QED  BY <1>1, <1>3, <1>4, <1>5, <1>6 DEF ReportedOnce, object

(* Inside an event loop nothing is about to be reported.                   *)
LEMMA LoopSilent ==
  ASSUME StackInv, TopReports, InLoop
  PROVE  /\ \A i \in 1..Len(stack) : ~Reports(stack[i])
         /\ ~SentNext
<1>1. ASSUME stack # <<>>
      PROVE  1 \in 1..Len(stack) /\ stack[1][1].op = "loop" /\ 1 \in 1..Len(stack[1])
  <2>1. Head(stack) # <<>> /\ Head(Head(stack)) = Loop
    BY <1>1 DEF InLoop
  <2> QED  BY <1>1, <2>1, TopTyped, Statements DEF StackInv, Loop
<1>2. ASSUME NEW i \in 1..Len(stack), Reports(stack[i])  PROVE FALSE
  <2>1. i = 1 /\ Shaped(stack[1])
    BY <1>2 DEF TopReports
  <2>2. stack # <<>>
    BY DEF StackInv, TypeOK
  <2>3. MayLoop(stack[1][1])
    BY <1>1, <2>2 DEF MayLoop
  <2> QED  BY <1>1, <1>2, <2>1, <2>2, <2>3 DEF Shaped
<1>3. ~SentNext
  BY <1>1 DEF SentNext
<1> QED  BY <1>2, <1>3

(* The slot of the next event is called.                                   *)
LEMMA HandleOnce ==
  ASSUME StackInv, EndedOnce, TopReports, ReportedOnce, ReportsAlone, Handle
  PROVE  EndedOnce' /\ TopReports' /\ ReportedOnce'
<1> DEFINE e == Head(queue)
           f == Slot(e)
<1>1. /\ InLoop /\ queue # <<>> /\ queue \in Seq(Event) /\ InOrder(queue) /\ e.kind # "delete"
      /\ queue' = Tail(queue) /\ UNCHANGED <<object, daemon>>
      /\ stack' = stack \/ (Deliverable(e) /\ stack' = <<f>> \o stack)
      /\ stack \in Seq(Seq(Statement))
  BY DEF Handle, StackInv, TypeOK, EndedOnce
<1>2. /\ e \in Event /\ e.kind # "owner"
      /\ InOrder(queue') /\ (NoEnding(queue) => NoEnding(queue'))
      /\ NoDestroy(queue) => NoDestroy(queue') /\ e.kind # "Destroy"
      /\ Ending(e) => ~NoEnding(queue)
      /\ Ending(e) \/ e.kind = "Destroy" => NoEnding(queue')
  BY <1>1, Taken
<1>3. EndedOnce' /\ (Settled => Settled')
  <2>1. obj # "none" /\ UNCHANGED <<obj, call, srv>>
    BY <1>1 DEF EndedOnce, object, daemon
  <2> QED  BY <1>2, <2>1 DEF EndedOnce, Settled, Open
<1>4. Ending(e) \/ e.kind = "Destroy" => Settled'
  BY <1>1, <1>2 DEF EndedOnce, Settled, Open, daemon
<1>5. (\A i \in 1..Len(stack) : ~Reports(stack[i])) /\ ~SentNext
  BY <1>1, LoopSilent
<1>6. /\ f \in Seq(Statement) /\ Shaped(f) /\ Disconnects(f)
      /\ Reports(f) => Ending(e) \/ e.kind = "Destroy"
      /\ Has(f, "finish") => Ending(e)
  <2>1. e \in Event /\ e.kind \notin {"delete", "owner"} /\ "errorCode" \notin NestedIn
    BY <1>1, <1>2 DEF ReportsAlone
  <2> HIDE DEF e
  <2> QED  BY <2>1, SlotClean, SlotShaped DEF Clean
<1> HIDE DEF e, f
<1>7. CASE stack' = stack
  <2>1. TopReports'
    BY <1>1, <1>5, <1>7, SilentShaped DEF TopReports
  <2>2. \A op : Nowhere(op) => Nowhere(op)'
    BY <1>7 DEF Nowhere
  <2> QED  BY <1>1, <1>3, <1>5, <2>1, <2>2 DEF ReportedOnce, object
<1>8. CASE Deliverable(e) /\ stack' = <<f>> \o stack
  <2>1. /\ Len(stack') = Len(stack) + 1 /\ stack'[1] = f /\ Len(stack) \in Nat
        /\ \A i \in 2..(Len(stack) + 1) : i - 1 \in 1..Len(stack) /\ stack'[i] = stack[i - 1]
    BY <1>1, <1>6, <1>8, Pushed
  <2>2. \A i \in 1..Len(stack') : i = 1 \/ ~Reports(stack'[i])
    BY <1>5, <2>1
  <2>3. TopReports'
    <3> SUFFICES ASSUME NEW i \in 1..Len(stack')
                 PROVE  /\ Shaped(stack'[i])
                        /\ Reports(stack'[i]) => i = 1 /\ Settled'
                        /\ p' => Disconnects(stack'[i])
      BY DEF TopReports
    <3>1. CASE i = 1
      BY <1>4, <1>6, <2>1, <3>1
    <3>2. CASE ~Reports(stack'[i])
      BY <3>2, SilentShaped
    <3> QED  BY <2>2, <3>1, <3>2
  <2>4. ASSUME NEW op \in Reporting, ~Has(f, op)
        PROVE  Nowhere(op)'
    <3>1. \A i \in 1..Len(stack') : ~Has(stack'[i], op)
      BY <2>1, <2>2, <2>4 DEF Reports
    <3> QED  BY <3>1 DEF Nowhere, Has
  <2>5. ReportedOnce'
    <3> SUFFICES ASSUME exits # <<>>
                 PROVE  Len(exits') = 1 /\ Settled' /\ Nowhere("finish")'
                        /\ (sentFinished' \/ (~p' /\ Nowhere("finishUnlessSent")'))
      BY <1>1 DEF ReportedOnce, object
    <3>1. Settled /\ Len(exits) = 1 /\ (sentFinished \/ ~p)
      BY <1>5 DEF ReportedOnce
    <3>2. ~Ending(e)
      BY <1>2, <3>1 DEF Settled
    <3>3. Nowhere("finish")'
      BY <1>6, <2>4, <3>2 DEF Reporting
    <3>4. ASSUME ~sentFinished  PROVE ~p /\ Nowhere("finishUnlessSent")'
      <4>1. ~p /\ e.kind # "Destroy"
        BY <1>8, <3>1, <3>4 DEF Deliverable
      <4>2. ~Has(f, "finishUnlessSent")
        BY <1>6, <3>2, <4>1 DEF Reports, Reporting
      <4> QED  BY <2>4, <4>1, <4>2 DEF Reporting
    <3> QED  BY <1>1, <1>3, <3>1, <3>3, <3>4 DEF object
  <2> QED  BY <1>3, <2>3, <2>5
<1> QED  BY <1>1, <1>7, <1>8

(* The deletion is carried out or posted again.                            *)
LEMMA HandleDeleteOnce ==
  ASSUME StackInv, EndedOnce, TopReports, ReportedOnce, HandleDelete
  PROVE  EndedOnce' /\ TopReports' /\ ReportedOnce'
<1> DEFINE e == Head(queue)
           r == Tail(queue)
<1>1. /\ InLoop /\ queue # <<>> /\ queue \in Seq(Event) /\ InOrder(queue) /\ e.kind = "delete"
      /\ UNCHANGED <<sentFinished, exits, stack, daemon>> /\ (p' => p)
      /\ queue' = r \/ queue' = Append(r, e)
      /\ obj' = obj \/ obj' = "deleted"
  BY DEF HandleDelete, StackInv, TypeOK, EndedOnce
<1>2. /\ e \in Event /\ r \in Seq(Event)
      /\ InOrder(r) /\ (NoEnding(queue) => NoEnding(r)) /\ (NoDestroy(queue) => NoDestroy(r))
  BY <1>1, Taken
<1>3. ~Ending(e) /\ e.kind # "owner" /\ e.kind # "Destroy"
  BY <1>1 DEF Ending
<1> HIDE DEF e, r
<1>4. /\ InOrder(Append(r, e))
      /\ NoEnding(r) => NoEnding(Append(r, e))
      /\ NoDestroy(r) => NoDestroy(Append(r, e))
  BY <1>2, <1>3, Posted
<1>5. EndedOnce' /\ (Settled => Settled')
  <2>1. obj' # "none" /\ UNCHANGED <<call, srv>>
    BY <1>1 DEF EndedOnce, daemon
  <2>2. InOrder(queue') /\ (NoEnding(queue) => NoEnding(queue'))
        /\ (NoDestroy(queue) => NoDestroy(queue'))
    BY <1>1, <1>2, <1>4
  <2> QED  BY <2>1, <2>2 DEF EndedOnce, Settled, Open
<1>6. TopReports'
  BY <1>1, <1>5 DEF TopReports
<1>7. ReportedOnce'
  BY <1>1, <1>5 DEF ReportedOnce, Nowhere, SentNext
<1> QED  BY <1>5, <1>6, <1>7

(* The application leaves its event loop, ...                              *)
LEMMA LeaveLoopOnce ==
  ASSUME StackInv, EndedOnce, TopReports, ReportedOnce, LeaveLoop
  PROVE  EndedOnce' /\ TopReports' /\ ReportedOnce'
<1>1. /\ stack # <<>> /\ Head(stack) # <<>> /\ Head(Head(stack)) = stack[1][1]
      /\ InLoop /\ Continue /\ UNCHANGED <<object, queue, daemon>>
  BY TopTyped DEF LeaveLoop, InLoop, StackInv
<1>2. stack[1][1].op # "deleteProxy" /\ ~SentNext
  BY <1>1, LoopSilent, Statements DEF InLoop, Loop
<1>3. EndedOnce' /\ (Settled => Settled')
  BY <1>1 DEF EndedOnce, Settled, Open, object, daemon
<1>4. \E s : s \notin NestedIn
  BY NestedAssumption, "Setup" \notin Relayed \cup {"finished", "remainingTimeChanged"} DEF Relayed
<1>5. TopReports' /\ \A op \in Reporting : Nowhere(op) => Nowhere(op)'
  BY <1>1, <1>2, <1>3, <1>4, TopGoesOn DEF object
<1> QED  BY <1>1, <1>2, <1>3, <1>5 DEF ReportedOnce, object, Reporting

(* ... constructs the object, ...                                          *)
LEMMA SetupOnce ==
  ASSUME StackInv, EndedOnce, TopReports, ReportedOnce, Setup
  PROVE  EndedOnce' /\ TopReports' /\ ReportedOnce'
<1>1. /\ queue = <<>> /\ stack = <<>> /\ exits = <<>> /\ obj' = "live"
      /\ UNCHANGED <<queue, stack, exits>> /\ srv = "idle"
      /\ (call' => srv' = "idle") /\ srv' # "gone" /\ Len(stack') = 0 /\ Len(queue') = 0
  BY DEF EndedOnce, Setup
<1>2. InOrder(queue') /\ NoEnding(queue') /\ NoDestroy(queue')
  BY <1>1 DEF InOrder, NoEnding, NoDestroy
<1> QED  BY <1>1, <1>2 DEF EndedOnce, TopReports, ReportedOnce

(* ... and the daemon does what it can do without a crash.                 *)
LEMMA DaemonOnce ==
  ASSUME StackInv, EndedOnce, TopReports, ReportedOnce, Daemon, srv' # "crashed"
  PROVE  EndedOnce' /\ TopReports' /\ ReportedOnce'
<1>1. UNCHANGED <<obj, p, sentFinished, exits, stack>> /\ ~Crash
  BY DEF Daemon, Accept, Refuse, Report, FinishRun, DestroyTid, Crash, Post, object
<1>2. queue \in Seq(Event) /\ InOrder(queue)
  BY DEF StackInv, TypeOK, EndedOnce
<1>3. ASSUME EndedOnce', Settled => Settled'
      PROVE  TopReports' /\ ReportedOnce'
  <2>1. TopReports'
    BY <1>1, <1>3 DEF TopReports
  <2>2. ReportedOnce'
    BY <1>1, <1>3 DEF ReportedOnce, Nowhere, SentNext
  <2> QED  BY <2>1, <2>2
<1>4. ASSUME NEW e \in Event, Post(e), e.kind # "owner", obj # "none",
             Ending(e) => NoEnding(queue) /\ NoDestroy(queue)
      PROVE  /\ InOrder(queue') /\ UNCHANGED obj
             /\ ~Ending(e) /\ NoEnding(queue) => NoEnding(queue')
             /\ e.kind # "Destroy" /\ NoDestroy(queue) => NoDestroy(queue')
  BY <1>1, <1>2, <1>4, Posted DEF Post
<1>5. CASE Accept
  BY <1>1, <1>3, <1>5 DEF Accept, EndedOnce, Settled, Open
<1>6. CASE Refuse
  <2> DEFINE e == [kind |-> "callError"]
  <2>1. e \in Event /\ Ending(e) /\ e.kind # "owner" /\ e.kind # "Destroy"
    BY DEF Event, Ending
  <2>2. Post(e) /\ obj # "none" /\ NoEnding(queue) /\ NoDestroy(queue) /\ Open /\ srv = "idle"
    BY <1>6 DEF Refuse, EndedOnce, Open
  <2> HIDE DEF e
  <2>3. InOrder(queue') /\ NoDestroy(queue') /\ UNCHANGED obj
    BY <1>4, <2>1, <2>2
  <2> QED  BY <1>3, <1>6, <2>2, <2>3 DEF Refuse, EndedOnce, Settled, Open
<1>7. CASE Report
  <2>1. PICK e \in Event : e.kind \in {"Relayed", "Packages", "properties"} /\ Post(e)
    BY <1>7 DEF Report
  <2>2. ~Ending(e) /\ e.kind # "owner" /\ e.kind # "Destroy"
    BY <2>1 DEF Ending
  <2>3. Open /\ srv = "running" /\ obj # "none" /\ NoEnding(queue) /\ NoDestroy(queue)
    BY <1>7 DEF Report, EndedOnce, Open
  <2>4. InOrder(queue') /\ NoEnding(queue') /\ NoDestroy(queue') /\ UNCHANGED obj
    BY <1>4, <2>1, <2>2, <2>3
  <2> QED  BY <1>3, <1>7, <2>3, <2>4 DEF Report, EndedOnce, Settled, Open
<1>8. CASE FinishRun
  <2>1. PICK x \in {"success", "failed"} : Post([kind |-> "Finished", exit |-> x])
    BY <1>8 DEF FinishRun
  <2> DEFINE e == [kind |-> "Finished", exit |-> x]
  <2>2. e \in Event /\ Ending(e) /\ e.kind # "owner" /\ e.kind # "Destroy" /\ Post(e)
    BY <2>1 DEF Event, Ending
  <2>3. /\ obj # "none" /\ NoEnding(queue) /\ NoDestroy(queue) /\ Open /\ ~call
        /\ srv' = "done" /\ UNCHANGED call
    BY <1>8 DEF FinishRun, EndedOnce, Open
  <2> HIDE DEF e
  <2>4. InOrder(queue') /\ NoDestroy(queue') /\ UNCHANGED obj
    BY <1>4, <2>2, <2>3
  <2> QED  BY <1>3, <2>3, <2>4 DEF EndedOnce, Settled, Open
<1>9. CASE DestroyTid
  <2> DEFINE e == [kind |-> "Destroy"]
  <2>1. e \in Event /\ ~Ending(e) /\ e.kind # "owner" /\ Post(e)
    BY <1>9 DEF DestroyTid, Event, Ending
  <2>2. obj # "none" /\ ~call /\ srv' = "gone" /\ UNCHANGED call
    BY <1>9 DEF DestroyTid, EndedOnce
  <2> HIDE DEF e
  <2>3. InOrder(queue') /\ (NoEnding(queue) => NoEnding(queue')) /\ UNCHANGED obj
    BY <1>4, <2>1, <2>2
  <2> QED  BY <1>3, <2>2, <2>3 DEF EndedOnce, Settled, Open
<1> QED  BY <1>1, <1>5, <1>6, <1>7, <1>8, <1>9 DEF Daemon

(* A daemon that has crashed does not come back, and only a client with an *)
(* object sees it crash.                                                   *)
LEMMA CrashStays ==
  ASSUME srv = "crashed" => obj # "none", [Next]_vars
  PROVE  /\ srv' = "crashed" => obj' # "none"
         /\ srv = "crashed" => srv' = "crashed"
<1>1. CASE Setup
  BY <1>1 DEF Setup
<1>2. CASE Thread
  <2>1. UNCHANGED srv /\ (obj' = obj \/ obj' = "deleted")
    BY <1>2 DEF Thread, EmitSignal, EmitFinished, EmitUnlessSent, SetSent, DeleteLater,
                DeleteProxy, StoreMember, Executing, Return, Handle, HandleDelete, object, daemon
  <2> QED  BY <2>1
<1>3. CASE LeaveLoop
  BY <1>3 DEF LeaveLoop, object, daemon
<1>4. CASE Daemon
  BY <1>4 DEF Daemon, Accept, Refuse, Report, FinishRun, DestroyTid, Crash, Post, object
<1>5. CASE UNCHANGED vars
  BY <1>5 DEF vars, object, daemon
<1> QED  BY <1>1, <1>2, <1>3, <1>4, <1>5 DEF Next

(* If no slot of the application runs an event loop inside errorCode() or  *)
(* finished(), the object reports once unless the daemon crashes, whatever *)
(* is interrupted elsewhere.                                               *)
THEOREM ReportedOnlyOnce ==
  ASSUME ReportsAlone
  PROVE  Spec => []FinishedOnce
<1>1. Init => OnceInv
  <2> SUFFICES ASSUME Init  PROVE OnceInv
    OBVIOUS
  <2>1. Len(queue) = 0 /\ Len(stack) = 0
    BY DEF Init
  <2>2. InOrder(queue) /\ NoEnding(queue) /\ NoDestroy(queue)
    BY <2>1 DEF InOrder, NoEnding, NoDestroy
  <2> QED  BY <2>1, <2>2, StackInvInitial
           DEF Init, OnceInv, EndedOnce, TopReports, ReportedOnce
<1>2. OnceInv /\ [Next]_vars => OnceInv'
  <2> SUFFICES ASSUME OnceInv, [Next]_vars, srv' # "crashed"
               PROVE  EndedOnce' /\ TopReports' /\ ReportedOnce'
    BY CrashStays, StackInvKept DEF OnceInv
  <2>1. StackInv /\ EndedOnce /\ TopReports /\ ReportedOnce
    BY CrashStays DEF OnceInv
  <2>2. CASE Setup
    BY <2>1, <2>2, SetupOnce
  <2>3. CASE Thread
    BY <2>1, <2>3, ReportStatements, OtherStatements, ReturnOnce, HandleOnce, HandleDeleteOnce
       DEF Thread
  <2>4. CASE LeaveLoop
    BY <2>1, <2>4, LeaveLoopOnce
  <2>5. CASE Daemon
    BY <2>1, <2>5, DaemonOnce
  <2>6. CASE UNCHANGED vars
    BY <2>1, <2>6 DEF vars, object, daemon, EndedOnce, TopReports, ReportedOnce, Open, Settled,
                      Nowhere, SentNext
  <2> QED  BY <2>2, <2>3, <2>4, <2>5, <2>6 DEF Next
<1>3. OnceInv => FinishedOnce
  <2> SUFFICES ASSUME OnceInv, srv # "crashed"  PROVE Len(exits) <= 1
    BY DEF FinishedOnce
  <2>1. CASE exits = <<>>
    <3>1. Len(exits) = 0
      BY <2>1
    <3> QED  BY <3>1
  <2>2. CASE exits # <<>>
    <3>1. Len(exits) = 1
      BY <2>2 DEF OnceInv, ReportedOnce
    <3> QED  BY <3>1
  <2> QED  BY <2>1, <2>2
<1> QED  BY <1>1, <1>2, <1>3, PTL DEF Spec

(***************************************************************************)
(* NoResumeAfterDelete                                                     *)
(***************************************************************************)
(* Only slots that have nothing left to do after the signal wait in it.    *)
WaitsAtEnd == NestedIn \subseteq {"mediaChangeRequired"}

EndsWaiting(f) == \A j \in 1..Len(f) : MayLoop(f[j]) => Len(f) = 1

Waiting ==
  \A i \in 1..Len(stack) : EndsWaiting(stack[i]) /\ (i # 1 => stack[i] = <<Loop>>)

ResumeInv == StackInv /\ Waiting /\ NoResumeAfterDelete

(* Every slot of the library relays mediaChangeRequired() as the last      *)
(* thing it does.                                                          *)
LEMMA SlotEndsWaiting ==
  ASSUME WaitsAtEnd, NEW e \in Event, e.kind # "delete"
  PROVE  EndsWaiting(Slot(e))
<1>1. /\ \A s \in {"package", "errorCode", "remainingTimeChanged"} : ~MayLoop(Emit(s))
      /\ \A op \in {"setSent", "finishUnlessSent", "deleteLater", "deleteProxy", "store"} :
            ~MayLoop(Do(op))
      /\ \A x \in Exit : ~MayLoop(Finish(x))
  BY DEF MayLoop, Emit, Do, Finish, WaitsAtEnd
<1>2. \A x \in Exit : EndsWaiting(finished(x))
  <2> SUFFICES ASSUME NEW x \in Exit, NEW j \in 1..Len(finished(x))
               PROVE  ~MayLoop(finished(x)[j])
    BY DEF EndsWaiting
  <2>1. /\ Len(finished(x)) = 3 /\ finished(x)[1] = Finish(x)
        /\ finished(x)[2] = Do("setSent") /\ finished(x)[3] = Do("deleteLater")
    BY DEF finished
  <2>2. j = 1 \/ j = 2 \/ j = 3
    BY <2>1
  <2> QED  BY <1>1, <2>1, <2>2
<1>3. EndsWaiting(destroy)
  <2> SUFFICES ASSUME NEW j \in 1..Len(destroy)  PROVE ~MayLoop(destroy[j])
    BY DEF EndsWaiting
  <2>1. /\ Len(destroy) = 3 /\ destroy[1] = Do("deleteProxy")
        /\ destroy[2] = Do("finishUnlessSent") /\ destroy[3] = Do("deleteLater")
    BY DEF destroy
  <2>2. j = 1 \/ j = 2 \/ j = 3
    BY <2>1
  <2> QED  BY <1>1, <2>1, <2>2
<1>4. \A x \in Exit : EndsWaiting(<<Emit("errorCode")>> \o finished(x) \o destroy)
  <2> SUFFICES ASSUME NEW x \in Exit
               PROVE  EndsWaiting(<<Emit("errorCode")>> \o finished(x) \o destroy)
    OBVIOUS
  <2> DEFINE f == <<Emit("errorCode")>> \o finished(x) \o destroy
  <2>1. /\ Len(f) = 7 /\ f[1] = Emit("errorCode")
        /\ f[2] = Finish(x) /\ f[3] = Do("setSent") /\ f[4] = Do("deleteLater")
        /\ f[5] = Do("deleteProxy") /\ f[6] = Do("finishUnlessSent") /\ f[7] = Do("deleteLater")
    BY DEF finished, destroy
  <2> HIDE DEF f
  <2>2. ASSUME NEW j \in 1..Len(f)  PROVE ~MayLoop(f[j])
    <3>1. j = 1 \/ j = 2 \/ j = 3 \/ j = 4 \/ j = 5 \/ j = 6 \/ j = 7
      BY <2>1
    <3> QED  BY <1>1, <2>1, <3>1
  <2>3. EndsWaiting(f)
    BY <2>2 DEF EndsWaiting
  <2> QED  BY <2>3 DEF f
<1>5. "killed" \in Exit /\ "failed" \in Exit /\ "success" \in Exit
  BY DEF Exit
<1>6. CASE e.kind = "Finished"
  <2>1. e.exit \in Exit
    BY <1>5, <1>6 DEF Event
  <2>2. Slot(e) = finished(e.exit)
    BY <1>6, Zenon DEF Slot
  <2> QED  BY <1>2, <2>1, <2>2
<1>7. CASE e.kind = "Destroy"
  <2>1. Slot(e) = destroy
    BY <1>7, Zenon DEF Slot
  <2> QED  BY <1>3, <2>1
<1>8. CASE e.kind = "Relayed"
  <2>1. Slot(e) = <<Emit(e.signal)>>
    BY <1>8, Zenon DEF Slot, relay
  <2> QED  BY <2>1 DEF EndsWaiting
<1>9. CASE e.kind = "Packages"
  <2>1. e.n \in Nat
    BY <1>9, NestedBounds DEF Event
  <2>2. Slot(e) = Packages(e.n)
    BY <1>9, Zenon DEF Slot
  <2>3. Len(Packages(e.n)) = e.n /\ \A j \in 1..e.n : Packages(e.n)[j] = Emit("package")
    BY <2>1, Statements DEF Packages, Relayed
  <2> QED  BY <1>1, <2>2, <2>3 DEF EndsWaiting
<1>10. CASE e.kind = "properties"
  <2>1. Slot(e) = updateProperties
    BY <1>10, Zenon DEF Slot
  <2>2. ASSUME NEW j \in 1..Len(updateProperties)  PROVE ~MayLoop(updateProperties[j])
    <3>1. /\ Len(updateProperties) = 3
          /\ updateProperties[1] = Do("store") /\ updateProperties[3] = Do("store")
          /\ updateProperties[2] = Emit("remainingTimeChanged")
      BY DEF updateProperties
    <3>2. j = 1 \/ j = 2 \/ j = 3
      BY <3>1
    <3> QED  BY <1>1, <3>1, <3>2
  <2> QED  BY <2>1, <2>2 DEF EndsWaiting
<1>11. CASE e.kind = "callError"
  <2>1. Slot(e) = <<Emit("errorCode")>> \o finished("failed") \o destroy
    BY <1>11, Zenon DEF Slot, callFailed
  <2> QED  BY <1>4, <1>5, <2>1
<1>12. CASE e.kind = "owner"
  <2>1. Slot(e) = IF p THEN <<Emit("errorCode")>> \o finished("killed") \o destroy ELSE <<>>
    BY <1>12, Zenon DEF Slot, daemonQuit
  <2>2. EndsWaiting(<<>>)
    BY DEF EndsWaiting
  <2> QED  BY <1>4, <1>5, <2>1, <2>2
<1> QED  BY <1>6, <1>7, <1>8, <1>9, <1>10, <1>11, <1>12 DEF Event

(* The slots below the top wait.                                           *)
LEMMA WaitingBelow ==
  ASSUME EndsWaiting(stack'[1]), \A i \in 2..Len(stack') : stack'[i] = <<Loop>>,
         Len(stack') \in Nat
  PROVE  Waiting'
<1>1. EndsWaiting(<<Loop>>)
  BY DEF EndsWaiting
<1> SUFFICES ASSUME NEW i \in 1..Len(stack')
             PROVE  EndsWaiting(stack'[i]) /\ (i # 1 => stack'[i] = <<Loop>>)
  BY DEF Waiting, EndsWaiting, MayLoop
<1>2. CASE i = 1
  BY <1>2
<1>3. CASE i # 1
  <2>1. i \in 2..Len(stack')
    BY <1>3
  <2> QED  BY <1>1, <2>1
<1> QED  BY <1>2, <1>3

(* The slot on top goes on; if it has nothing left but its event loop, it  *)
(* has nothing left.                                                       *)
LEMMA TopWaits ==
  ASSUME StackInv, Waiting, stack # <<>>, Head(stack) # <<>>, NEW s,
         Continue \/ (Emitted(s) /\ (s \in NestedIn => MayLoop(stack[1][1])))
  PROVE  /\ Waiting'
         /\ Len(stack') = Len(stack) /\ \A i \in 2..Len(stack) : stack'[i] = stack[i]
         /\ Continue /\ stack[1] = <<Loop>> => stack'[1] = <<>>
<1> DEFINE f == stack[1]
           g == Tail(f)
<1>1. /\ f \in Seq(Statement) /\ f # <<>> /\ Head(stack) = f
      /\ stack \in Seq(Seq(Statement)) /\ Len(stack) \in Nat /\ Len(stack) >= 1
      /\ g \in Seq(Statement) /\ EndsWaiting(f)
      /\ Len(g) = Len(f) - 1 /\ Len(f) \in Nat /\ Len(f) >= 1
      /\ \A j \in 1..Len(g) : j + 1 \in 1..Len(f) /\ g[j] = f[j + 1]
  BY TopTyped DEF StackInv, TypeOK, Waiting
<1>2. EndsWaiting(g)
  BY <1>1 DEF EndsWaiting
<1>3. EndsWaiting(<<Loop>>)
  BY DEF EndsWaiting
<1> HIDE DEF f, g
<1>4. CASE Continue
  <2>1. stack' = <<g>> \o Tail(stack)
    BY <1>1, <1>4 DEF Continue, g
  <2>2. /\ Len(stack') = Len(stack) /\ stack'[1] = g
        /\ \A i \in 2..Len(stack) : stack'[i] = stack[i]
    BY <1>1, <2>1, Replaced
  <2>3. Waiting'
    <3>1. \A i \in 2..Len(stack') : stack'[i] = <<Loop>>
      BY <1>1, <2>2 DEF Waiting
    <3> QED  BY <1>1, <1>2, <2>2, <3>1, WaitingBelow
  <2>4. f = <<Loop>> => g = <<>>
    BY DEF g
  <2> QED  BY <2>2, <2>3, <2>4 DEF f
<1>5. CASE ~Continue
  <2>1. MayLoop(f[1]) /\ stack' = <<<<Loop>> \o g>> \o Tail(stack)
    BY <1>1, <1>5 DEF Emitted, f, g
  <2>2. Len(f) = 1
    BY <1>1, <2>1 DEF EndsWaiting
  <2>3. g = <<>>
    BY <1>1, <2>2
  <2>4. <<Loop>> \o g = <<Loop>>
    BY <2>3
  <2>5. <<Loop>> \in Seq(Statement)
    BY Statements DEF Loop
  <2>6. /\ Len(stack') = Len(stack) /\ stack'[1] = <<Loop>>
        /\ \A i \in 2..Len(stack) : stack'[i] = stack[i]
    BY <1>1, <2>1, <2>4, <2>5, Replaced
  <2>7. Waiting'
    <3>1. \A i \in 2..Len(stack') : stack'[i] = <<Loop>>
      BY <1>1, <2>6 DEF Waiting
    <3> QED  BY <1>1, <1>3, <2>6, <3>1, WaitingBelow
  <2> QED  BY <1>5, <2>6, <2>7
<1> QED  BY <1>4, <1>5

(* In an event loop, every slot on the stack has nothing but to leave it.  *)
LEMMA LoopsOnly ==
  ASSUME StackInv, Waiting, InLoop
  PROVE  \A i \in 1..Len(stack) : stack[i] = <<Loop>>
<1> SUFFICES ASSUME NEW i \in 1..Len(stack)  PROVE stack[i] = <<Loop>>
  OBVIOUS
<1>1. CASE i # 1
  BY <1>1 DEF Waiting
<1>2. CASE i = 1
  <2>1. stack # <<>>
    BY <1>2 DEF StackInv, TypeOK
  <2>2. Head(stack) # <<>> /\ Head(Head(stack)) = Loop
    BY <2>1 DEF InLoop
  <2>3. /\ stack[1] \in Seq(Statement) /\ stack[1][1] = Loop /\ 1 \in 1..Len(stack[1])
    BY <2>1, <2>2, TopTyped DEF StackInv
  <2>4. MayLoop(stack[1][1])
    BY <2>3, Statements DEF MayLoop, Loop
  <2>5. Len(stack[1]) = 1
    BY <1>2, <2>3, <2>4 DEF Waiting, EndsWaiting
  <2> QED  BY <1>2, <2>3, <2>5
<1> QED  BY <1>1, <1>2

(* A statement belongs to an object that is not deleted.                   *)
LEMMA StatementResume ==
  ASSUME WaitsAtEnd, ResumeInv, \/ EmitSignal \/ EmitFinished \/ EmitUnlessSent \/ SetSent
                                \/ DeleteLater \/ DeleteProxy \/ StoreMember
  PROVE  Waiting' /\ NoResumeAfterDelete'
<1>1. obj' = "live" /\ stack # <<>> /\ Head(stack) # <<>> /\ Head(Head(stack)) = stack[1][1]
  <2>1. obj' = "live" /\ stack # <<>> /\ Head(stack) # <<>>
    BY DEF EmitSignal, EmitFinished, EmitUnlessSent, SetSent, DeleteLater, DeleteProxy,
           StoreMember, Executing, object
  <2> QED  BY <2>1, TopTyped DEF ResumeInv, StackInv
<1>2. \E s : Continue \/ (Emitted(s) /\ (s \in NestedIn => MayLoop(stack[1][1])))
  <2>1. CASE EmitSignal
    BY <1>1, <2>1 DEF EmitSignal, Executing, MayLoop
  <2>2. CASE EmitFinished \/ EmitUnlessSent
    BY <2>2 DEF EmitFinished, EmitUnlessSent, WaitsAtEnd, Emitted
  <2> QED  BY <2>1, <2>2 DEF SetSent, DeleteLater, DeleteProxy, StoreMember
<1>3. Waiting'
  BY <1>1, <1>2, TopWaits DEF ResumeInv
<1> QED  BY <1>1, <1>3 DEF NoResumeAfterDelete

(* A slot returns, ...                                                     *)
LEMMA ReturnResume ==
  ASSUME ResumeInv, Return
  PROVE  Waiting' /\ NoResumeAfterDelete'
<1>1. /\ stack # <<>> /\ stack \in Seq(Seq(Statement)) /\ stack' = Tail(stack) /\ obj' = obj
      /\ stack' \in Seq(Seq(Statement))
  BY HeadAndTail DEF Return, ResumeInv, StackInv, TypeOK, object
<1>2. \A i \in 1..Len(stack') : i + 1 \in 1..Len(stack) /\ stack'[i] = stack[i + 1] /\ i + 1 # 1
  BY <1>1, HeadAndTail
<1>3. \A i \in 1..Len(stack') : stack'[i] = <<Loop>>
  BY <1>2 DEF ResumeInv, Waiting
<1>4. EndsWaiting(<<Loop>>)
  BY DEF EndsWaiting
<1>5. DOMAIN stack' = 1..Len(stack')
  BY <1>1
<1> QED  BY <1>3, <1>4, <1>5 DEF Waiting, NoResumeAfterDelete

(* ... the next one is called, on an object that is not deleted, ...       *)
LEMMA HandleResume ==
  ASSUME WaitsAtEnd, ResumeInv, Handle
  PROVE  Waiting' /\ NoResumeAfterDelete'
<1> DEFINE e == Head(queue)
           f == Slot(e)
<1>1. /\ InLoop /\ e \in Event /\ e.kind # "delete" /\ obj' = obj
      /\ stack' = stack \/ (obj = "live" /\ stack' = <<f>> \o stack)
      /\ stack \in Seq(Seq(Statement))
  BY HeadAndTail DEF Handle, ResumeInv, StackInv, TypeOK, object, Deliverable
<1>2. f \in Seq(Statement) /\ EndsWaiting(f)
  <2> HIDE DEF e
  <2> QED  BY <1>1, SlotClean, SlotEndsWaiting DEF Clean
<1>3. \A i \in 1..Len(stack) : stack[i] = <<Loop>>
  BY <1>1, LoopsOnly DEF ResumeInv
<1> HIDE DEF e, f
<1>5. CASE stack' = stack
  BY <1>1, <1>5 DEF ResumeInv, Waiting, NoResumeAfterDelete
<1>6. CASE obj = "live" /\ stack' = <<f>> \o stack
  <2>1. /\ Len(stack') = Len(stack) + 1 /\ stack'[1] = f /\ Len(stack) \in Nat
        /\ \A i \in 2..(Len(stack) + 1) : i - 1 \in 1..Len(stack) /\ stack'[i] = stack[i - 1]
    BY <1>1, <1>2, <1>6, Pushed
  <2>2. \A i \in 2..Len(stack') : stack'[i] = <<Loop>>
    BY <1>3, <2>1
  <2>3. Waiting'
    BY <1>2, <2>1, <2>2, WaitingBelow
  <2> QED  BY <1>1, <1>6, <2>3 DEF NoResumeAfterDelete
<1> QED  BY <1>1, <1>5, <1>6

(* ... the object is deleted while every slot waits, ...                   *)
LEMMA HandleDeleteResume ==
  ASSUME ResumeInv, HandleDelete
  PROVE  Waiting' /\ NoResumeAfterDelete'
<1>1. InLoop /\ stack' = stack /\ DOMAIN stack = 1..Len(stack)
  BY DEF HandleDelete, ResumeInv, StackInv, TypeOK
<1>2. \A i \in 1..Len(stack) : stack[i] = <<Loop>>
  BY <1>1, LoopsOnly DEF ResumeInv
<1>3. Waiting'
  BY <1>1 DEF ResumeInv, Waiting
<1> QED  BY <1>1, <1>2, <1>3 DEF NoResumeAfterDelete

(* ... and then they leave their loops.                                    *)
LEMMA LeaveLoopResume ==
  ASSUME ResumeInv, LeaveLoop
  PROVE  Waiting' /\ NoResumeAfterDelete'
<1>1. /\ stack # <<>> /\ Head(stack) # <<>> /\ InLoop /\ Continue /\ obj' = obj
      /\ stack \in Seq(Seq(Statement)) /\ Len(stack) >= 1 /\ Len(stack) \in Nat
  BY TopTyped DEF LeaveLoop, InLoop, ResumeInv, StackInv, TypeOK, object
<1>2. \A i \in 1..Len(stack) : stack[i] = <<Loop>>
  BY <1>1, LoopsOnly DEF ResumeInv
<1>3. /\ Waiting' /\ stack'[1] = <<>>
      /\ Len(stack') = Len(stack) /\ \A i \in 2..Len(stack) : stack'[i] = stack[i]
  BY <1>1, <1>2, TopWaits DEF ResumeInv
<1>4. stack' \in Seq(Seq(Statement))
  BY StackInvKept DEF ResumeInv, StackInv, TypeOK, Next
<1>5. DOMAIN stack' = 1..Len(stack')
  BY <1>4
<1>6. ASSUME NEW i \in 1..Len(stack')  PROVE stack'[i] \in {<<>>, <<Loop>>}
  <2>1. i = 1 \/ i \in 2..Len(stack)
    BY <1>1, <1>3
  <2>2. i \in 1..Len(stack)
    BY <1>3
  <2> QED  BY <1>2, <1>3, <2>1, <2>2
<1> QED  BY <1>3, <1>5, <1>6 DEF NoResumeAfterDelete

(* If only the slots of mediaChangeRequired() run event loops, an object   *)
(* deleted in one of them is not touched by a slot further down the stack. *)
THEOREM NeverResumed ==
  ASSUME WaitsAtEnd
  PROVE  Spec => []NoResumeAfterDelete
<1>1. Init => ResumeInv
  <2> SUFFICES ASSUME Init  PROVE ResumeInv
    OBVIOUS
  <2>1. Len(stack) = 0
    BY DEF Init
  <2> QED  BY <2>1, StackInvInitial DEF Init, ResumeInv, Waiting, NoResumeAfterDelete
<1>2. ResumeInv /\ [Next]_vars => ResumeInv'
  <2> SUFFICES ASSUME ResumeInv, [Next]_vars  PROVE Waiting' /\ NoResumeAfterDelete'
    BY StackInvKept DEF ResumeInv
  <2>1. ASSUME UNCHANGED stack, obj' # "deleted" \/ UNCHANGED obj
        PROVE  Waiting' /\ NoResumeAfterDelete'
    BY <2>1 DEF ResumeInv, Waiting, NoResumeAfterDelete
  <2>2. CASE Setup
    BY <2>1, <2>2 DEF Setup
  <2>3. CASE Thread
    BY <2>3, StatementResume, ReturnResume, HandleResume, HandleDeleteResume DEF Thread
  <2>4. CASE LeaveLoop
    BY <2>4, LeaveLoopResume
  <2>5. CASE Daemon
    BY <2>1, <2>5 DEF Daemon, Accept, Refuse, Report, FinishRun, DestroyTid, Crash, Post, object
  <2>6. CASE UNCHANGED vars
    BY <2>1, <2>6 DEF vars, object
  <2> QED  BY <2>2, <2>3, <2>4, <2>5, <2>6 DEF Next
<1>3. ResumeInv => NoResumeAfterDelete
  BY DEF ResumeInv
<1> QED  BY <1>1, <1>2, <1>3, PTL DEF Spec
=============================================================================
