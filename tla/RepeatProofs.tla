---------------------------- MODULE RepeatProofs ----------------------------
(***************************************************************************)
(* Proofs about the later finished() in Transaction: an object that        *)
(* reports twice adds a failure or a kill, and then it is silent; it       *)
(* reports once if the daemon only leaves when it is idle.                 *)
(***************************************************************************)
EXTENDS TransactionProofs

(***************************************************************************)
(* The events that can make an object report                               *)
(***************************************************************************)
(* The answer to CreateTransaction, the failure of the method call and     *)
(* Finished; each of them is posted once.  Destroy is of no interest: its  *)
(* slot reports only if nothing has been reported.                         *)
Marks == {"create", "error", "finish"}
NoMark == "none"

About(e, t) == e.kind # "owner" /\ e.t = t

Mark(e, t) ==
  IF ~About(e, t) THEN NoMark
  ELSE IF e.kind = "createReply" THEN "create"
  ELSE IF e.kind = "runReply" /\ e.arg # "ok" THEN "error"
  ELSE IF e.kind = "Finished" THEN "finish" ELSE NoMark

None(q, t, m) == \A i \in 1..Len(q) : Mark(q[i], t) # m

(* None of them comes twice, and no failure comes after Finished.          *)
Sorted(q, t) ==
  \A i, j \in 1..Len(q) : i < j /\ Mark(q[i], t) \in Marks =>
     /\ Mark(q[j], t) # Mark(q[i], t)
     /\ Mark(q[i], t) = "finish" => Mark(q[j], t) # "error"

(* An event of that kind is posted.                                        *)
LEMMA MarkPosted ==
  ASSUME NEW q \in Seq(AnyEvent), NEW e \in AnyEvent, NEW t, Sorted(q, t),
         Mark(e, t) \in Marks => None(q, t, Mark(e, t)),
         Mark(e, t) = "error" => None(q, t, "finish")
  PROVE  /\ Append(q, e) \in Seq(AnyEvent)
         /\ Sorted(Append(q, e), t)
         /\ \A m : None(Append(q, e), t, m) <=> None(q, t, m) /\ Mark(e, t) # m
<1> DEFINE r == Append(q, e)
<1>1. /\ r \in Seq(AnyEvent) /\ Len(r) = Len(q) + 1 /\ Len(q) \in Nat
      /\ \A i \in 1..Len(q) : i \in 1..Len(r) /\ r[i] = q[i]
      /\ Len(r) \in 1..Len(r) /\ r[Len(r)] = e
      /\ \A i \in 1..Len(r) : i # Len(r) => i \in 1..Len(q) /\ r[i] = q[i]
  OBVIOUS
<1> HIDE DEF r
<1>2. Sorted(r, t)
  <2> SUFFICES ASSUME NEW i \in 1..Len(r), NEW j \in 1..Len(r), i < j, Mark(r[i], t) \in Marks
               PROVE  /\ Mark(r[j], t) # Mark(r[i], t)
                      /\ Mark(r[i], t) = "finish" => Mark(r[j], t) # "error"
    BY DEF Sorted
  <2>1. i \in 1..Len(q) /\ r[i] = q[i]
    BY <1>1
  <2>2. CASE j = Len(r)
    BY <1>1, <2>1, <2>2 DEF None
  <2>3. CASE j # Len(r)
    <3>1. j \in 1..Len(q) /\ r[j] = q[j]
      BY <1>1, <2>3
    <3> QED  BY <2>1, <3>1 DEF Sorted
  <2> QED  BY <2>2, <2>3
<1>3. ASSUME NEW m  PROVE None(r, t, m) <=> None(q, t, m) /\ Mark(e, t) # m
  BY <1>1 DEF None
<1> QED  BY <1>1, <1>2, <1>3 DEF r

(* The first event is taken.                                               *)
LEMMA MarkTaken ==
  ASSUME NEW q \in Seq(AnyEvent), q # <<>>, NEW t, Sorted(q, t)
  PROVE  /\ Head(q) \in AnyEvent /\ Tail(q) \in Seq(AnyEvent)
         /\ Sorted(Tail(q), t)
         /\ \A m : None(q, t, m) <=> None(Tail(q), t, m) /\ Mark(Head(q), t) # m
         /\ Mark(Head(q), t) \in Marks => None(Tail(q), t, Mark(Head(q), t))
         /\ Mark(Head(q), t) = "finish" => None(Tail(q), t, "error")
<1> DEFINE r == Tail(q)
           e == Head(q)
<1>1. /\ e \in AnyEvent /\ e = q[1] /\ 1 \in 1..Len(q) /\ Len(q) \in Nat
      /\ r \in Seq(AnyEvent) /\ Len(r) = Len(q) - 1
      /\ \A i \in 1..Len(r) : i + 1 \in 1..Len(q) /\ i + 1 > 1 /\ r[i] = q[i + 1]
      /\ \A i \in 1..Len(q) : i # 1 => i - 1 \in 1..Len(r) /\ r[i - 1] = q[i]
  OBVIOUS
<1> HIDE DEF r, e
<1>2. Sorted(r, t)
  <2> SUFFICES ASSUME NEW i \in 1..Len(r), NEW j \in 1..Len(r), i < j, Mark(r[i], t) \in Marks
               PROVE  /\ Mark(r[j], t) # Mark(r[i], t)
                      /\ Mark(r[i], t) = "finish" => Mark(r[j], t) # "error"
    BY DEF Sorted
  <2>1. /\ i + 1 \in 1..Len(q) /\ r[i] = q[i + 1] /\ j + 1 \in 1..Len(q) /\ r[j] = q[j + 1]
        /\ i + 1 < j + 1
    BY <1>1
  <2> QED  BY <2>1 DEF Sorted
<1>3. ASSUME NEW m  PROVE None(q, t, m) <=> None(r, t, m) /\ Mark(e, t) # m
  BY <1>1 DEF None
<1>4. ASSUME Mark(e, t) \in Marks, NEW i \in 1..Len(r)
      PROVE  /\ Mark(r[i], t) # Mark(e, t)
             /\ Mark(e, t) = "finish" => Mark(r[i], t) # "error"
  <2>1. i + 1 \in 1..Len(q) /\ 1 < i + 1 /\ r[i] = q[i + 1] /\ 1 \in 1..Len(q)
    BY <1>1
  <2> QED  BY <1>1, <1>4, <2>1 DEF Sorted
<1>5. Mark(e, t) = "finish" => Mark(e, t) \in Marks
  BY DEF Marks
<1> QED  BY <1>1, <1>2, <1>3, <1>4, <1>5 DEF r, e, None

(***************************************************************************)
(* The invariant                                                           *)
(***************************************************************************)
(* What can still happen to t, whose object is s, whose method call is c   *)
(* and whose transaction in the daemon is v, with the events q: a tid is   *)
(* asked for before anything can be reported, the call fails only if the   *)
(* daemon never ran it or ran it late, and Finished comes from a run.      *)
Answers(t, s, c, v, q) ==
  /\ Sorted(q, t)
  /\ s.obj = "none" => /\ c = "none" /\ \A m \in Marks : None(q, t, m)
                       /\ t \in Own => v = "absent"
  /\ t \in Foreign => /\ c = "none" /\ None(q, t, "create")
                      /\ v = "absent" => s.obj = "none"
  /\ c = "create" \/ ~None(q, t, "create") =>
       /\ ~s.p /\ s.exits = <<>>
       /\ None(q, t, "error") /\ None(q, t, "finish")
       /\ v \in {"absent", "idle", "gone", "lost"}
  /\ ~None(q, t, "create") => c = "none"
  /\ c = "run" => None(q, t, "error") /\ None(q, t, "finish") /\ v \notin {"running", "done"}
  /\ ~None(q, t, "error") => c \in {"none", "late"}
  /\ ~None(q, t, "finish") => v \in {"done", "gone", "lost"} /\ c \in {"none", "late"}
  /\ v = "running" => c \in {"none", "late"}
  /\ c = "late" /\ s.p => ~None(q, t, "error")

(* An object that has reported once and kept its proxy hears nothing but   *)
(* daemonQuit(); after two reports it hears nothing.                       *)
Repeats(t, s, c, v, q) ==
  /\ s.exits # <<>> /\ s.p => /\ Len(s.exits) = 1 /\ s.sentFinished
                              /\ c = "none" /\ v # "running"
                              /\ None(q, t, "error") /\ None(q, t, "finish")
  /\ Len(s.exits) <= 2
  /\ Len(s.exits) = 2 => /\ s.exits[2] \in {"failed", "killed"}
                         /\ ~s.p /\ c # "run" /\ None(q, t, "error")

Stage(t, s, c, v, q) == Answers(t, s, c, v, q) /\ Repeats(t, s, c, v, q)

RepeatInv == \A t \in Txn : Stage(t, tx[t], call[t], srv[t], queue)

(***************************************************************************)
(* Steps that do not concern t                                             *)
(***************************************************************************)
(* Events without a mark for t come and go.                                *)
LEMMA UnmarkedPosted ==
  ASSUME NEW t, NEW s, NEW c, NEW v, NEW q \in Seq(AnyEvent), NEW e \in AnyEvent,
         Stage(t, s, c, v, q), Mark(e, t) = NoMark
  PROVE  Stage(t, s, c, v, Append(q, e)) /\ Append(q, e) \in Seq(AnyEvent)
<1>1. Mark(e, t) \notin Marks
  BY DEF Marks, NoMark
<1>2. /\ Append(q, e) \in Seq(AnyEvent) /\ Sorted(Append(q, e), t)
      /\ \A m \in Marks : None(Append(q, e), t, m) <=> None(q, t, m)
  BY <1>1, MarkPosted DEF Stage, Answers, Marks
<1> HIDE DEF Sorted, None, Mark
<1>3. "create" \in Marks /\ "error" \in Marks /\ "finish" \in Marks
  BY DEF Marks
<1> QED  BY <1>2, <1>3 DEF Stage, Answers, Repeats

(* The same for an event that is taken.                                    *)
LEMMA UnmarkedTaken ==
  ASSUME NEW t, NEW s, NEW c, NEW v, NEW q \in Seq(AnyEvent), q # <<>>,
         Stage(t, s, c, v, q), Mark(Head(q), t) = NoMark
  PROVE  Stage(t, s, c, v, Tail(q)) /\ Tail(q) \in Seq(AnyEvent)
<1>1. Mark(Head(q), t) \notin Marks
  BY DEF Marks, NoMark
<1>2. /\ Tail(q) \in Seq(AnyEvent) /\ Sorted(Tail(q), t)
      /\ \A m \in Marks : None(Tail(q), t, m) <=> None(q, t, m)
  BY <1>1, MarkTaken DEF Stage, Answers
<1>3. "create" \in Marks /\ "error" \in Marks /\ "finish" \in Marks
  BY DEF Marks
<1> QED  BY <1>2, <1>3 DEF Stage, Answers, Repeats

(* The object changes in nothing that matters here.                        *)
LEMMA AlikeStage ==
  ASSUME NEW t, NEW s, NEW r, NEW c, NEW v, NEW q, Stage(t, s, c, v, q),
         r.obj = s.obj, r.p = s.p, r.exits = s.exits, r.sentFinished = s.sentFinished
  PROVE  Stage(t, r, c, v, q)
  BY DEF Stage, Answers, Repeats

(***************************************************************************)
(* What the slots do to the stage of their object                          *)
(***************************************************************************)
(* The first event is marked: its mark is gone from the rest of the queue. *)
LEMMA MarkGone ==
  ASSUME NEW t, NEW s, NEW c, NEW v, NEW q \in Seq(AnyEvent), q # <<>>,
         Stage(t, s, c, v, q)
  PROVE  /\ Sorted(Tail(q), t) /\ Tail(q) \in Seq(AnyEvent)
         /\ None(q, t, "create") <=> None(Tail(q), t, "create") /\ Mark(Head(q), t) # "create"
         /\ None(q, t, "error") <=> None(Tail(q), t, "error") /\ Mark(Head(q), t) # "error"
         /\ None(q, t, "finish") <=> None(Tail(q), t, "finish") /\ Mark(Head(q), t) # "finish"
         /\ Mark(Head(q), t) = "create" => None(Tail(q), t, "create")
         /\ Mark(Head(q), t) = "error" => None(Tail(q), t, "error")
         /\ Mark(Head(q), t) = "finish" => None(Tail(q), t, "finish") /\ None(Tail(q), t, "error")
<1>1. Sorted(q, t)
  BY DEF Stage, Answers
<1>2. /\ Tail(q) \in Seq(AnyEvent) /\ Sorted(Tail(q), t)
      /\ \A m : None(q, t, m) <=> None(Tail(q), t, m) /\ Mark(Head(q), t) # m
      /\ Mark(Head(q), t) \in Marks => None(Tail(q), t, Mark(Head(q), t))
      /\ Mark(Head(q), t) = "finish" => None(Tail(q), t, "error")
  BY <1>1, MarkTaken
<1>3. "create" \in Marks /\ "error" \in Marks /\ "finish" \in Marks
  BY DEF Marks
<1> QED  BY <1>2, <1>3

(* One more report.                                                        *)
LEMMA OneMore ==
  ASSUME NEW x \in Seq(Exit), NEW e \in Exit
  PROVE  /\ Append(x, e) \in Seq(Exit) /\ Append(x, e) # <<>>
         /\ Len(Append(x, e)) = Len(x) + 1 /\ Len(x) \in Nat
         /\ x = <<>> <=> Len(x) = 0
         /\ Len(x) = 1 => Append(x, e)[2] = e
<1>1. /\ Append(x, e) \in Seq(Exit) /\ Len(Append(x, e)) = Len(x) + 1 /\ Len(x) \in Nat
      /\ x = <<>> <=> Len(x) = 0
      /\ Append(x, e)[Len(x) + 1] = e
  OBVIOUS
<1>2. Append(x, e) # <<>>
  BY <1>1
<1>3. Len(x) = 1 => Len(x) + 1 = 2
  OBVIOUS
<1> QED  BY <1>1, <1>2, <1>3

(* The first report.                                                       *)
OneReport(x) == x # <<>> /\ Len(x) = 1 /\ Len(x) <= 2 /\ Len(x) # 2

(* The first thing that is reported makes one report.                      *)
LEMMA FirstReport ==
  ASSUME NEW e \in Exit
  PROVE  OneReport(Append(<<>>, e))
  BY DEF OneReport

(* The tid arrives: setup(), and the method is dispatched.                 *)
LEMMA SetupStage ==
  ASSUME NEW t, NEW s \in Object, NEW c, NEW v, NEW q \in Seq(AnyEvent), q # <<>>,
         s.obj = "live", Stage(t, s, c, v, q), Mark(Head(q), t) = "create"
  PROVE  Stage(t, setup(s), "run", v, Tail(q))
<1> DEFINE r == setup(s)
<1>1. r.obj = s.obj /\ r.p /\ r.exits = s.exits
  BY DEF setup, Object
<1> HIDE DEF r
<1>2. ~None(q, t, "create") /\ s.exits = <<>> /\ s.exits \in Seq(Exit)
  BY MarkGone DEF Stage, Answers, Object
<1>3. Len(s.exits) = 0
  BY <1>2
<1>4. Answers(t, r, "run", v, Tail(q))
  BY <1>1, <1>2, MarkGone DEF Stage, Answers
<1>5. Repeats(t, r, "run", v, Tail(q))
  BY <1>1, <1>2, <1>3 DEF Repeats
<1> QED  BY <1>4, <1>5 DEF Stage, r

(* The dispatch fails: reported at once, and the proxy is kept.            *)
LEMMA DispatchStage ==
  ASSUME NEW t, NEW s \in Object, NEW c, NEW v, NEW q \in Seq(AnyEvent), q # <<>>,
         s.obj = "live", Stage(t, s, c, v, q), Mark(Head(q), t) = "create"
  PROVE  Stage(t, finished(errorCode(setup(s), "InternalError"), "failed"), c, v, Tail(q))
<1> DEFINE r == finished(errorCode(setup(s), "InternalError"), "failed")
<1>1. /\ r.obj = s.obj /\ r.p /\ r.sentFinished /\ r.exits = Append(s.exits, "failed")
  BY DEF setup, errorCode, finished, Object
<1>2. ~None(q, t, "create") /\ s.exits = <<>> /\ s.exits \in Seq(Exit) /\ "failed" \in Exit
  BY MarkGone DEF Stage, Answers, Object, Exit
<1> HIDE DEF r
<1>3. OneReport(r.exits)
  BY <1>1, <1>2, FirstReport
<1>4. Stage(t, r, c, v, Tail(q))
  BY <1>1, <1>2, <1>3, MarkGone DEF Stage, Answers, Repeats, OneReport
<1> QED  BY <1>4 DEF r

(* Whatever failed: what callFailed() leaves.                              *)
LEMMA CallFailedFields ==
  ASSUME NEW s \in Object, NEW a
  PROVE  /\ callFailed(s, a).obj = s.obj /\ ~callFailed(s, a).p
         /\ callFailed(s, a).sentFinished
         /\ callFailed(s, a).exits = Append(s.exits, "failed")
  BY DEF callFailed, errorCode, finished, destroy, Object

(* CreateTransaction or the method call has failed.                        *)
LEMMA FailureStage ==
  ASSUME NEW t, NEW s \in Object, NEW c, NEW v, NEW q \in Seq(AnyEvent), q # <<>>,
         s.obj = "live", Stage(t, s, c, v, q), Mark(Head(q), t) \in {"create", "error"}, NEW a
  PROVE  Stage(t, callFailed(s, a), c, v, Tail(q))
<1> DEFINE r == callFailed(s, a)
<1>1. r.obj = s.obj /\ ~r.p /\ r.sentFinished /\ r.exits = Append(s.exits, "failed")
  BY CallFailedFields
<1>2. s.exits \in Seq(Exit) /\ "failed" \in Exit
  BY DEF Object, Exit
<1> HIDE DEF r
<1>3. /\ Len(r.exits) = Len(s.exits) + 1 /\ Len(s.exits) \in Nat /\ r.exits # <<>>
      /\ s.exits = <<>> <=> Len(s.exits) = 0
      /\ Len(s.exits) = 1 => r.exits[2] = "failed"
  BY <1>1, <1>2, OneMore
<1>4. CASE Mark(Head(q), t) = "create"
  <2>1. s.exits = <<>> /\ c = "none"
    BY <1>4, MarkGone DEF Stage, Answers
  <2>2. OneReport(r.exits)
    BY <1>1, <1>2, <2>1, FirstReport
  <2>3. Stage(t, r, c, v, Tail(q))
    BY <1>1, <1>4, <2>1, <2>2, MarkGone DEF Stage, Answers, Repeats, OneReport
  <2> QED  BY <2>3 DEF r
<1>5. CASE Mark(Head(q), t) = "error"
  <2>1. c \in {"none", "late"} /\ ~None(q, t, "error")
    BY <1>5, MarkGone DEF Stage, Answers
  <2>2. Len(s.exits) # 2 /\ Len(s.exits) <= 2
    BY <2>1 DEF Stage, Repeats
  <2>3. Len(r.exits) <= 2 /\ (Len(r.exits) = 2 => r.exits[2] = "failed")
    <3>1. \A n \in Nat : n # 2 /\ n <= 2 => n + 1 <= 2 /\ (n + 1 = 2 => n = 1)
      OBVIOUS
    <3>2. Len(s.exits) \in Nat
      BY <1>3
    <3>3. Len(s.exits) + 1 <= 2 /\ (Len(s.exits) + 1 = 2 => Len(s.exits) = 1)
      BY <2>2, <3>1, <3>2
    <3> QED  BY <1>3, <3>3
  <2>4. None(q, t, "create")
    BY <2>1 DEF Stage, Answers
  <2>5. None(Tail(q), t, "error") /\ None(Tail(q), t, "create") /\ Sorted(Tail(q), t)
        /\ (None(q, t, "finish") <=> None(Tail(q), t, "finish"))
    BY <1>5, <2>4, MarkGone
  <2>6. Answers(t, r, c, v, Tail(q))
    BY <1>1, <2>1, <2>5 DEF Stage, Answers
  <2>7. Repeats(t, r, c, v, Tail(q))
    BY <1>1, <2>1, <2>3, <2>5 DEF Repeats
  <2> QED  BY <2>6, <2>7 DEF Stage, r
<1> QED  BY <1>4, <1>5

(* The proxy relays Finished.                                              *)
LEMMA FinishedStage ==
  ASSUME NEW t, NEW s \in Object, NEW c, NEW v, NEW q \in Seq(AnyEvent), q # <<>>,
         s.obj = "live", s.p, Stage(t, s, c, v, q), Mark(Head(q), t) = "finish", NEW e \in Exit
  PROVE  Stage(t, finished(s, e), c, v, Tail(q))
<1> DEFINE r == finished(s, e)
<1>1. r.obj = s.obj /\ r.p /\ r.sentFinished /\ r.exits = Append(s.exits, e)
  BY DEF finished, Object
<1> HIDE DEF r
<1>2. ~None(q, t, "finish")
  BY MarkGone
<1>3. s.exits = <<>> /\ s.exits \in Seq(Exit)
  BY <1>2 DEF Stage, Repeats, Object
<1>4. OneReport(r.exits)
  BY <1>1, <1>3, FirstReport
<1>5. None(q, t, "error") /\ None(Tail(q), t, "error") /\ None(Tail(q), t, "finish")
  BY MarkGone
<1>6. c = "none" /\ v \in {"done", "gone", "lost"}
  BY <1>2, <1>5 DEF Stage, Answers
<1>7. None(q, t, "create")
  BY <1>2 DEF Stage, Answers
<1>8. None(Tail(q), t, "create") /\ Sorted(Tail(q), t)
  BY <1>7, MarkGone
<1>9. Answers(t, r, c, v, Tail(q))
  BY <1>1, <1>5, <1>6, <1>8 DEF Stage, Answers
<1>10. Repeats(t, r, c, v, Tail(q))
  BY <1>1, <1>4, <1>5, <1>6 DEF Repeats, OneReport
<1> QED  BY <1>9, <1>10 DEF Stage, r

(* The daemon destroys the transaction, or the object is deleted.          *)
LEMMA DestroyStage ==
  ASSUME NEW t, NEW s \in Object, NEW c, NEW v, NEW q, s.p, s.obj = "live",
         Stage(t, s, c, v, q)
  PROVE  Stage(t, destroy(s), c, v, q)
<1> DEFINE r == destroy(s)
<1>1. r.obj = s.obj /\ ~r.p
      /\ r.exits = IF s.sentFinished THEN s.exits ELSE Append(s.exits, "unknown")
  BY DEF destroy, Object
<1> HIDE DEF r
<1>2. s.exits \in Seq(Exit) /\ "unknown" \in Exit
  BY DEF Object, Exit
<1>3. s.exits # <<>> => Len(s.exits) = 1 /\ s.sentFinished
  BY DEF Stage, Repeats
<1>4. Len(r.exits) <= 1 /\ Len(r.exits) \in Nat
  BY <1>1, <1>2, <1>3, OneMore
<1>5. c # "create" /\ None(q, t, "create")
  BY DEF Stage, Answers
<1>6. Answers(t, r, c, v, q)
  BY <1>1, <1>5 DEF Stage, Answers
<1>7. Repeats(t, r, c, v, q)
  BY <1>1, <1>4 DEF Repeats
<1> QED  BY <1>6, <1>7 DEF Stage, r

(* daemonQuit() reports a kill unless the proxy is gone.                   *)
LEMMA QuitStage ==
  ASSUME NEW t, NEW s \in Object, NEW c, NEW v, NEW q, ObjectInv(s), Stage(t, s, c, v, q)
  PROVE  Stage(t, daemonQuit(s), c, v, q)
<1>1. CASE ~s.p
  BY <1>1 DEF daemonQuit
<1>2. CASE s.p
  <2> DEFINE r == daemonQuit(s)
  <2>1. r.obj = s.obj /\ ~r.p /\ r.exits = Append(s.exits, "killed")
    BY <1>2 DEF daemonQuit, destroy, finished, errorCode, Object
  <2> HIDE DEF r
  <2>2. s.exits \in Seq(Exit) /\ "killed" \in Exit
    BY DEF Object, Exit
  <2>3. s.exits # <<>> => Len(s.exits) = 1 /\ c = "none" /\ None(q, t, "error")
    BY <1>2 DEF Stage, Repeats
  <2>4. /\ Len(r.exits) <= 2
        /\ Len(r.exits) = 2 => r.exits[2] = "killed" /\ s.exits # <<>>
    BY <2>1, <2>2, <2>3, OneMore
  <2>5. c # "create" /\ None(q, t, "create") /\ s.obj = "live"
    BY <1>2 DEF Stage, Answers, ObjectInv
  <2>6. Answers(t, r, c, v, q)
    BY <2>1, <2>5 DEF Stage, Answers
  <2>7. Repeats(t, r, c, v, q)
    BY <2>1, <2>3, <2>4 DEF Repeats
  <2> QED  BY <2>6, <2>7 DEF Stage, r
<1> QED  BY <1>1, <1>2

(* The object is deleted.                                                  *)
LEMMA DeletedStage ==
  ASSUME NEW t, NEW s \in Object, NEW c, NEW v, NEW q, s.obj = "live", Stage(t, s, c, v, q)
  PROVE  Stage(t, [s EXCEPT !.obj = "deleted", !.p = FALSE], c, v, q)
<1> DEFINE r == [s EXCEPT !.obj = "deleted", !.p = FALSE]
<1>1. r.obj = "deleted" /\ ~r.p /\ r.exits = s.exits
  BY DEF Object
<1> HIDE DEF r
<1>2. Stage(t, r, c, v, q)
  BY <1>1 DEF Stage, Answers, Repeats
<1> QED  BY <1>2 DEF r

(* Qt drops an event of an object without a proxy.                         *)
LEMMA DroppedStage ==
  ASSUME NEW t, NEW s, NEW c, NEW v, NEW q \in Seq(AnyEvent), q # <<>>, ~s.p,
         Stage(t, s, c, v, q)
  PROVE  Stage(t, s, c, v, Tail(q))
<1>1. /\ None(q, t, "create") => None(Tail(q), t, "create")
      /\ None(q, t, "error") => None(Tail(q), t, "error")
      /\ None(q, t, "finish") => None(Tail(q), t, "finish")
      /\ Sorted(Tail(q), t)
  BY MarkGone
<1>2. Answers(t, s, c, v, Tail(q))
  <2>1. s.obj = "none" => \A m \in Marks : None(Tail(q), t, m)
    BY <1>1 DEF Stage, Answers, Marks
  <2> QED  BY <1>1, <2>1 DEF Stage, Answers
<1>3. Repeats(t, s, c, v, Tail(q))
  BY <1>1 DEF Stage, Repeats
<1> QED  BY <1>2, <1>3 DEF Stage

(***************************************************************************)
(* What the daemon does to the stage                                       *)
(***************************************************************************)
(* An event with a mark is posted: the mark is all that is new.            *)
LEMMA MarkAdded ==
  ASSUME NEW t, NEW s, NEW c, NEW v, NEW q \in Seq(AnyEvent), NEW e \in AnyEvent,
         Stage(t, s, c, v, q), Mark(e, t) \in Marks, None(q, t, Mark(e, t)),
         Mark(e, t) = "error" => None(q, t, "finish")
  PROVE  /\ Sorted(Append(q, e), t) /\ Append(q, e) \in Seq(AnyEvent)
         /\ None(Append(q, e), t, "create") <=> None(q, t, "create") /\ Mark(e, t) # "create"
         /\ None(Append(q, e), t, "error") <=> None(q, t, "error") /\ Mark(e, t) # "error"
         /\ None(Append(q, e), t, "finish") <=> None(q, t, "finish") /\ Mark(e, t) # "finish"
<1>1. Sorted(q, t)
  BY DEF Stage, Answers
<1>2. /\ Append(q, e) \in Seq(AnyEvent) /\ Sorted(Append(q, e), t)
      /\ \A m : None(Append(q, e), t, m) <=> None(q, t, m) /\ Mark(e, t) # m
  BY <1>1, MarkPosted
<1> QED  BY <1>2

(* CreateTransaction is answered; a tid comes with an idle transaction.    *)
LEMMA CreateAnswered ==
  ASSUME NEW t, NEW s, NEW v, NEW w \in {v, "idle"}, NEW q \in Seq(AnyEvent),
         NEW e \in AnyEvent, Stage(t, s, "create", v, q), Mark(e, t) = "create"
  PROVE  Stage(t, s, "none", w, Append(q, e)) /\ Append(q, e) \in Seq(AnyEvent)
<1>1. /\ None(q, t, "create") /\ None(q, t, "error") /\ None(q, t, "finish")
      /\ s.obj # "none" /\ t \notin Foreign /\ ~s.p /\ s.exits = <<>>
      /\ w \in {"absent", "idle", "gone", "lost"} /\ Len(s.exits) # 2 /\ Len(s.exits) <= 2
  <2>1. /\ None(q, t, "create") /\ None(q, t, "error") /\ None(q, t, "finish")
        /\ s.obj # "none" /\ t \notin Foreign /\ ~s.p /\ s.exits = <<>>
        /\ w \in {"absent", "idle", "gone", "lost"}
    BY DEF Stage, Answers
  <2>2. Len(s.exits) = 0
    BY <2>1
  <2> QED  BY <2>1, <2>2
<1>2. Mark(e, t) \in Marks
  BY DEF Marks
<1>3. /\ Sorted(Append(q, e), t) /\ Append(q, e) \in Seq(AnyEvent)
      /\ None(Append(q, e), t, "error") /\ None(Append(q, e), t, "finish")
  BY <1>1, <1>2, MarkAdded
<1>4. Answers(t, s, "none", w, Append(q, e))
  BY <1>1, <1>3 DEF Answers
<1>5. Repeats(t, s, "none", w, Append(q, e))
  BY <1>1, <1>3 DEF Repeats
<1> QED  BY <1>3, <1>4, <1>5 DEF Stage

(* The method call is accepted; the call of a client that has given up is  *)
(* still "late".                                                           *)
LEMMA CallAccepted ==
  ASSUME NEW t, NEW s, NEW c, NEW d, NEW q, Stage(t, s, c, "idle", q),
         <<c, d>> \in {<<"run", "none">>, <<"late", "late">>}
  PROVE  Stage(t, s, d, "running", q)
<1>1. /\ None(q, t, "create") /\ None(q, t, "finish") /\ t \notin Foreign /\ s.obj # "none"
      /\ Sorted(q, t) /\ ~(s.exits # <<>> /\ s.p)
      /\ d \in {"none", "late"} /\ (d = "late" /\ s.p => ~None(q, t, "error"))
  BY DEF Stage, Answers, Repeats
<1>2. Answers(t, s, d, "running", q)
  BY <1>1 DEF Answers
<1>3. Repeats(t, s, d, "running", q)
  BY <1>1 DEF Stage, Repeats
<1> QED  BY <1>2, <1>3 DEF Stage

(* The method call fails, and the daemon will not run it, or only late.    *)
LEMMA CallRefused ==
  ASSUME NEW t, NEW s, NEW v, NEW d, NEW w, NEW q \in Seq(AnyEvent), NEW e \in AnyEvent,
         Stage(t, s, "run", v, q), Mark(e, t) = "error",
         <<d, w>> \in {<<"none", "done">>, <<"none", "gone">>, <<"none", "lost">>, <<"late", "idle">>}
  PROVE  Stage(t, s, d, w, Append(q, e)) /\ Append(q, e) \in Seq(AnyEvent)
<1>1. /\ None(q, t, "create") /\ None(q, t, "error") /\ None(q, t, "finish")
      /\ s.obj # "none" /\ t \notin Foreign /\ ~(s.exits # <<>> /\ s.p)
      /\ Len(s.exits) # 2 /\ Len(s.exits) <= 2
      /\ d \in {"none", "late"} /\ w \notin {"running", "absent"}
  BY DEF Stage, Answers, Repeats
<1>2. Mark(e, t) \in Marks
  BY DEF Marks
<1>3. /\ Sorted(Append(q, e), t) /\ Append(q, e) \in Seq(AnyEvent)
      /\ None(Append(q, e), t, "create") /\ None(Append(q, e), t, "finish")
      /\ ~None(Append(q, e), t, "error")
  BY <1>1, <1>2, MarkAdded
<1>4. Answers(t, s, d, w, Append(q, e))
  BY <1>1, <1>3 DEF Answers
<1>5. Repeats(t, s, d, w, Append(q, e))
  BY <1>1, <1>3 DEF Repeats
<1> QED  BY <1>3, <1>4, <1>5 DEF Stage

(* Another client's transaction begins.                                    *)
LEMMA BegunStage ==
  ASSUME NEW t \in Foreign, NEW s, NEW c, NEW q, ObjectInv(s), Stage(t, s, c, "absent", q)
  PROVE  Stage(t, s, c, "running", q)
<1>1. t \notin Own
  BY OwnershipAssumption
<1>2. s.obj = "none" /\ c = "none" /\ (\A m \in Marks : None(q, t, m)) /\ Sorted(q, t)
  BY DEF Stage, Answers
<1>3. None(q, t, "create") /\ None(q, t, "error") /\ None(q, t, "finish")
  BY <1>2 DEF Marks
<1>4. Answers(t, s, c, "running", q)
  BY <1>1, <1>2, <1>3 DEF Answers
<1>5. s.exits = <<>>
  BY <1>2 DEF ObjectInv, Reported
<1> QED  BY <1>4, <1>5 DEF Stage, Repeats

(* The transaction runs to its end in the daemon.                          *)
LEMMA EndedStage ==
  ASSUME NEW t, NEW s, NEW c, NEW q, Stage(t, s, c, "running", q)
  PROVE  Stage(t, s, c, "done", q)
<1>1. Answers(t, s, c, "done", q)
  BY DEF Stage, Answers
<1>2. Repeats(t, s, c, "done", q)
  BY DEF Stage, Repeats
<1> QED  BY <1>1, <1>2 DEF Stage

(* ... and its Finished is relayed.                                        *)
LEMMA RelayedStage ==
  ASSUME NEW t, NEW s, NEW c, NEW q \in Seq(AnyEvent), NEW e \in AnyEvent,
         s.p, s.obj = "live", Stage(t, s, c, "running", q), Mark(e, t) = "finish"
  PROVE  Stage(t, s, c, "done", Append(q, e)) /\ Append(q, e) \in Seq(AnyEvent)
<1>1. /\ None(q, t, "create") /\ None(q, t, "finish") /\ c \in {"none", "late"}
      /\ s.exits = <<>> /\ (c = "late" => ~None(q, t, "error"))
      /\ (~None(q, t, "error") => c \in {"none", "late"})
  BY DEF Stage, Answers, Repeats
<1>2. Mark(e, t) \in Marks
  BY DEF Marks
<1>3. /\ Sorted(Append(q, e), t) /\ Append(q, e) \in Seq(AnyEvent)
      /\ None(Append(q, e), t, "create")
      /\ None(Append(q, e), t, "error") <=> None(q, t, "error")
  BY <1>1, <1>2, MarkAdded
<1>4. Answers(t, s, c, "done", Append(q, e))
  BY <1>1, <1>3 DEF Stage, Answers
<1>5. Repeats(t, s, c, "done", Append(q, e))
  BY <1>1, <1>3 DEF Stage, Repeats
<1> QED  BY <1>3, <1>4, <1>5 DEF Stage

(* The daemon forgets the transaction, or dies.                            *)
LEMMA GoneStage ==
  ASSUME NEW t, NEW s, NEW c, NEW v, NEW q, v # "absent", Stage(t, s, c, v, q),
         NEW w \in {"gone", "lost"}
  PROVE  Stage(t, s, c, w, q)
<1>1. Answers(t, s, c, w, q)
  BY DEF Stage, Answers
<1>2. Repeats(t, s, c, w, q)
  BY DEF Stage, Repeats
<1> QED  BY <1>1, <1>2 DEF Stage

(***************************************************************************)
(* The application                                                         *)
(***************************************************************************)
(* A factory method makes the object.                                      *)
LEMMA CreatedStage ==
  ASSUME NEW t \in Own, NEW s \in Object, NEW c, NEW v, NEW q, s.obj = "none", ObjectInv(s),
         Stage(t, s, c, v, q)
  PROVE  Stage(t, [s EXCEPT !.obj = "live"], "create", v, q)
<1> DEFINE r == [s EXCEPT !.obj = "live"]
<1>1. r.obj = "live" /\ ~r.p /\ r.exits = <<>>
  BY DEF Object, ObjectInv, Reported
<1> HIDE DEF r
<1>2. /\ (\A m \in Marks : None(q, t, m)) /\ Sorted(q, t) /\ v = "absent"
  BY DEF Stage, Answers
<1>3. None(q, t, "create") /\ None(q, t, "error") /\ None(q, t, "finish") /\ t \notin Foreign
  BY <1>2, OwnershipAssumption DEF Marks
<1>4. Len(r.exits) <= 2 /\ Len(r.exits) # 2
  <2>1. Len(r.exits) = 0
    BY <1>1
  <2> QED  BY <2>1
<1>5. Answers(t, r, "create", v, q)
  BY <1>1, <1>2, <1>3 DEF Answers
<1>6. Repeats(t, r, "create", v, q)
  BY <1>1, <1>4 DEF Repeats
<1> QED  BY <1>5, <1>6 DEF Stage, r

(* An object is attached to the tid of another client.                     *)
LEMMA AttachedStage ==
  ASSUME NEW t \in Foreign, NEW s \in Object, NEW c, NEW v, NEW q, s.obj = "none",
         ObjectInv(s), v # "absent", Stage(t, s, c, v, q)
  PROVE  Stage(t, setup([s EXCEPT !.obj = "live"]), c, v, q)
<1> DEFINE r == setup([s EXCEPT !.obj = "live"])
<1>1. r.obj = "live" /\ r.exits = <<>>
  BY DEF Object, ObjectInv, Reported, setup
<1> HIDE DEF r
<1>2. c = "none" /\ (\A m \in Marks : None(q, t, m)) /\ Sorted(q, t)
  BY DEF Stage, Answers
<1>3. None(q, t, "create") /\ None(q, t, "error") /\ None(q, t, "finish")
  BY <1>2 DEF Marks
<1>4. Len(r.exits) <= 2 /\ Len(r.exits) # 2
  <2>1. Len(r.exits) = 0
    BY <1>1
  <2> QED  BY <2>1
<1>5. Answers(t, r, c, v, q)
  BY <1>1, <1>2, <1>3 DEF Answers
<1>6. Repeats(t, r, c, v, q)
  BY <1>1, <1>4 DEF Repeats
<1> QED  BY <1>5, <1>6 DEF Stage, r

(***************************************************************************)
(* Every step keeps the invariant                                          *)
(***************************************************************************)
RepeatState == ContractInv /\ RepeatInv

(* What the invariant says of one object.                                  *)
LEMMA StateFacts ==
  ASSUME RepeatState, NEW t \in Txn
  PROVE  /\ TypeOK /\ queue \in Seq(AnyEvent)
         /\ tx[t] \in Object /\ ObjectInv(tx[t])
         /\ Stage(t, tx[t], call[t], srv[t], queue)
  BY DEF RepeatState, ContractInv, RepeatInv, TypeOK, AnyEvent

(* A handler leaves t at a stage; the deletion it may post has no mark.    *)
LEMMA BecomesStage ==
  ASSUME RepeatState, NEW t \in Txn, NEW s, NEW c, NEW evs \in Seq(AnyEvent),
         Becomes(t, s, evs), call' = [call EXCEPT ![t] = c], UNCHANGED srv,
         Stage(t, s, c, srv[t], evs),
         \A u \in Txn : u # t => Stage(u, tx[u], call[u], srv[u], evs)
  PROVE  RepeatInv'
<1>1. SUFFICES ASSUME NEW u \in Txn
               PROVE  Stage(u, tx'[u], call'[u], srv[u], queue')
  BY DEF RepeatInv
<1>2. tx \in [Txn -> Object] /\ call \in [Txn -> {"none", "create", "run", "late"}]
  BY DEF RepeatState, ContractInv, TypeOK
<1>3. Stage(u, tx'[u], call'[u], srv[u], evs)
  BY <1>2 DEF Becomes
<1>4. Event("delete", t) \in AnyEvent /\ Mark(Event("delete", t), u) = NoMark
  BY DEF Event, AnyEvent, ObjectEvent, Mark, NoMark
<1>5. Stage(u, tx'[u], call'[u], srv[u], Append(evs, Event("delete", t)))
  BY <1>3, <1>4, UnmarkedPosted
<1> QED  BY <1>3, <1>5 DEF Becomes

(* An event about t is nothing to the other objects.                       *)
LEMMA OthersTaken ==
  ASSUME RepeatState, NEW t \in Txn, queue # <<>>, Head(queue).t = t
  PROVE  /\ Tail(queue) \in Seq(AnyEvent)
         /\ \A u \in Txn : u # t => Stage(u, tx[u], call[u], srv[u], Tail(queue))
<1>1. ASSUME NEW u \in Txn, u # t
      PROVE  Stage(u, tx[u], call[u], srv[u], Tail(queue))
  <2>1. Mark(Head(queue), u) = NoMark
    BY <1>1 DEF Mark, About
  <2> QED  BY <2>1, StateFacts, UnmarkedTaken
<1>2. Tail(queue) \in Seq(AnyEvent)
  BY StateFacts
<1> QED  BY <1>1, <1>2

(* The daemon moves t and may post an event about it.                      *)
LEMMA DaemonStage ==
  ASSUME RepeatState, NEW t \in Txn, NEW c, NEW v, NEW e \in AnyEvent, UNCHANGED tx,
         e.kind # "owner", e.t = t,
         call' = [call EXCEPT ![t] = c], srv' = [srv EXCEPT ![t] = v],
         queue' = queue \/ queue' = Append(queue, e),
         Stage(t, tx[t], c, v, queue')
  PROVE  RepeatInv'
<1>1. SUFFICES ASSUME NEW u \in Txn
               PROVE  Stage(u, tx[u], call'[u], srv'[u], queue')
  BY DEF RepeatInv
<1>2. /\ call \in [Txn -> {"none", "create", "run", "late"}]
      /\ srv \in [Txn -> {"absent", "idle", "running", "done", "gone", "lost"}]
  BY DEF RepeatState, ContractInv, TypeOK
<1>3. CASE u = t
  BY <1>2, <1>3
<1>4. CASE u # t
  <2>1. Mark(e, u) = NoMark
    BY <1>4 DEF Mark, About
  <2>2. Stage(u, tx[u], call[u], srv[u], Append(queue, e))
    BY <2>1, StateFacts, UnmarkedPosted
  <2> QED  BY <1>2, <1>4, <2>2, StateFacts
<1> QED  BY <1>3, <1>4

(* The application's calls.                                                *)
LEMMA ApplicationStage ==
  ASSUME RepeatState, Application
  PROVE  RepeatInv'
<1>1. PICK t \in Txn : Create(t) \/ Attach(t) \/ Connect(t) \/ Cancel(t)
  BY DEF Application
<1>2. /\ queue \in Seq(AnyEvent) /\ tx[t] \in Object /\ ObjectInv(tx[t])
      /\ Stage(t, tx[t], call[t], srv[t], queue)
      /\ \A u \in Txn : Stage(u, tx[u], call[u], srv[u], queue)
      /\ call \in [Txn -> {"none", "create", "run", "late"}]
  BY StateFacts DEF TypeOK
<1>3. [call EXCEPT ![t] = call[t]] = call
  BY <1>2
<1>4. CASE Create(t)
  <2>1. Stage(t, [tx[t] EXCEPT !.obj = "live"], "create", srv[t], queue)
    BY <1>2, <1>4, CreatedStage DEF Create
  <2> QED  BY <1>2, <1>4, <2>1, BecomesStage DEF Create, External
<1>5. CASE Attach(t)
  <2>1. Stage(t, setup([tx[t] EXCEPT !.obj = "live"]), call[t], srv[t], queue)
    BY <1>2, <1>5, AttachedStage DEF Attach
  <2> QED  BY <1>2, <1>3, <1>5, <2>1, BecomesStage DEF Attach, External
<1>6. CASE Connect(t)
  <2>1. Stage(t, connectNotify(tx[t]), call[t], srv[t], queue)
    <3> DEFINE r == connectNotify(tx[t])
    <3>1. r.obj = tx[t].obj /\ r.p = tx[t].p /\ r.exits = tx[t].exits
          /\ r.sentFinished = tx[t].sentFinished
      BY <1>2 DEF connectNotify, Object
    <3> HIDE DEF r
    <3>2. Stage(t, r, call[t], srv[t], queue)
      BY <1>2, <3>1, AlikeStage
    <3> QED  BY <3>2 DEF r
  <2> QED  BY <1>2, <1>3, <1>6, <2>1, BecomesStage DEF Connect, External
<1>7. CASE Cancel(t)
  <2> DEFINE r == [tx[t] EXCEPT !.cancel = IF tx[t].p THEN "sent" ELSE "lost"]
  <2>1. r.obj = tx[t].obj /\ r.p = tx[t].p /\ r.exits = tx[t].exits
        /\ r.sentFinished = tx[t].sentFinished
    BY <1>2 DEF Object
  <2>2. Becomes(t, r, queue) /\ call' = call /\ UNCHANGED srv
    BY <1>7 DEF Cancel, External
  <2> HIDE DEF r
  <2>3. Stage(t, r, call[t], srv[t], queue)
    BY <1>2, <2>1, AlikeStage
  <2> QED  BY <1>2, <1>3, <2>2, <2>3, BecomesStage
<1> QED  BY <1>1, <1>4, <1>5, <1>6, <1>7

(* What the handler of an event for t starts from, and what it has to show. *)
LEMMA HandledStage ==
  ASSUME RepeatState, NEW t \in Txn, NEW k, k # "owner", Handling(k, t)
  PROVE  /\ queue \in Seq(AnyEvent) /\ queue # <<>>
         /\ tx[t] \in Object /\ ObjectInv(tx[t]) /\ tx[t].obj = "live"
         /\ Stage(t, tx[t], call[t], srv[t], queue)
         /\ \A s, c : /\ Becomes(t, s, Tail(queue)) /\ UNCHANGED srv
                      /\ call' = [call EXCEPT ![t] = c]
                      /\ Stage(t, s, c, srv[t], Tail(queue))
                      => RepeatInv'
         /\ \A s : /\ Becomes(t, s, Tail(queue)) /\ UNCHANGED <<call, srv>>
                   /\ Stage(t, s, call[t], srv[t], Tail(queue))
                   => RepeatInv'
<1>1. Alive(tx[t]) /\ queue # <<>>
  BY ReceiverAlive DEF RepeatState, Handling
<1>2. /\ Tail(queue) \in Seq(AnyEvent)
      /\ \A u \in Txn : u # t => Stage(u, tx[u], call[u], srv[u], Tail(queue))
  BY <1>1, OthersTaken DEF Handling
<1>3. ASSUME NEW s, NEW c, Becomes(t, s, Tail(queue)), UNCHANGED srv,
             call' = [call EXCEPT ![t] = c], Stage(t, s, c, srv[t], Tail(queue))
      PROVE  RepeatInv'
  BY <1>2, <1>3, BecomesStage
<1>4. call = [call EXCEPT ![t] = call[t]]
  BY DEF RepeatState, ContractInv, TypeOK
<1>5. ASSUME NEW s, Becomes(t, s, Tail(queue)), UNCHANGED <<call, srv>>,
             Stage(t, s, call[t], srv[t], Tail(queue))
      PROVE  RepeatInv'
  BY <1>3, <1>4, <1>5
<1> QED  BY <1>1, <1>3, <1>5, StateFacts DEF Alive

(* The mark of the event that is handled.                                  *)
LEMMA HandledMark ==
  ASSUME NEW t \in Txn, NEW k, Handling(k, t)
  PROVE  /\ k = "createReply" => Mark(Head(queue), t) = "create"
         /\ k = "runReply" => Mark(Head(queue), t) = IF Head(queue).arg # "ok" THEN "error"
                                                       ELSE NoMark
         /\ k = "Finished" => Mark(Head(queue), t) = "finish"
         /\ k \in {"Destroy", "delete"} => Mark(Head(queue), t) = NoMark
  BY DEF Handling, Mark, About

(* The bus takes match rules: nothing here depends on them.                *)
LEMMA BusStage ==
  ASSUME RepeatState, Bus
  PROVE  RepeatInv'
<1>1. PICK t \in Txn : TakeRules(t)
  BY DEF Bus
<1>2. /\ queue \in Seq(AnyEvent) /\ tx[t] \in Object
      /\ Stage(t, tx[t], call[t], srv[t], queue)
      /\ \A u \in Txn : Stage(u, tx[u], call[u], srv[u], queue)
      /\ call \in [Txn -> {"none", "create", "run", "late"}]
  BY StateFacts DEF TypeOK
<1> DEFINE r == taken(tx[t])
<1>3. r.obj = tx[t].obj /\ r.p = tx[t].p /\ r.exits = tx[t].exits
      /\ r.sentFinished = tx[t].sentFinished
  BY <1>2 DEF taken, Object
<1>4. Becomes(t, r, queue) /\ UNCHANGED <<call, srv>>
  BY <1>1 DEF TakeRules, External
<1> HIDE DEF r
<1>5. Stage(t, r, call[t], srv[t], queue)
  BY <1>2, <1>3, AlikeStage
<1>6. call' = [call EXCEPT ![t] = call[t]]
  BY <1>2, <1>4
<1> QED  BY <1>2, <1>4, <1>5, <1>6, BecomesStage

(* The handlers of the event loop.                                         *)
LEMMA HandlerStage ==
  ASSUME RepeatState, EventLoop
  PROVE  RepeatInv'
<1>1. ASSUME NEW t \in Txn, CreateSucceeded(t)
      PROVE  RepeatInv'
  <2>1. Handling("createReply", t)
    BY <1>1 DEF CreateSucceeded
  <2>2. Mark(Head(queue), t) = "create"
    BY <2>1, HandledMark
  <2>3. Stage(t, setup(tx[t]), "run", srv[t], Tail(queue))
    BY <2>1, <2>2, HandledStage, SetupStage
  <2>4. /\ Becomes(t, setup(tx[t]), Tail(queue)) /\ UNCHANGED srv
        /\ call' = [call EXCEPT ![t] = "run"]
    BY <1>1 DEF CreateSucceeded, External
  <2> QED  BY <2>1, <2>3, <2>4, HandledStage
<1>2. ASSUME NEW t \in Txn, DispatchFailed(t)
      PROVE  RepeatInv'
  <2> DEFINE r == finished(errorCode(setup(tx[t]), "InternalError"), "failed")
  <2>1. Handling("createReply", t)
    BY <1>2 DEF DispatchFailed
  <2>2. Mark(Head(queue), t) = "create"
    BY <2>1, HandledMark
  <2>3. Stage(t, r, call[t], srv[t], Tail(queue))
    BY <2>1, <2>2, HandledStage, DispatchStage
  <2>4. Becomes(t, r, Tail(queue)) /\ UNCHANGED <<call, srv>>
    BY <1>2 DEF DispatchFailed, External
  <2> QED  BY <2>1, <2>3, <2>4, HandledStage
<1>3. ASSUME NEW t \in Txn, CreateFailed(t) \/ RunFailed(t)
      PROVE  RepeatInv'
  <2> DEFINE r == callFailed(tx[t], Head(queue).arg)
  <2>1. PICK k \in {"createReply", "runReply"} : Handling(k, t)
    BY <1>3 DEF CreateFailed, RunFailed
  <2>2. Mark(Head(queue), t) \in {"create", "error"}
    BY <1>3, <2>1, HandledMark DEF CreateFailed, RunFailed
  <2>3. Stage(t, r, call[t], srv[t], Tail(queue))
    BY <2>1, <2>2, HandledStage, FailureStage
  <2>4. Becomes(t, r, Tail(queue)) /\ UNCHANGED <<call, srv>>
    BY <1>3 DEF CreateFailed, RunFailed, External
  <2> QED  BY <2>1, <2>3, <2>4, HandledStage
<1>4. ASSUME NEW t \in Txn, RunSucceeded(t)
      PROVE  RepeatInv'
  <2>1. Handling("runReply", t)
    BY <1>4 DEF RunSucceeded
  <2>2. Mark(Head(queue), t) = NoMark
    BY <1>4, <2>1, HandledMark DEF RunSucceeded
  <2>3. Stage(t, tx[t], call[t], srv[t], Tail(queue))
    BY <2>1, <2>2, HandledStage, UnmarkedTaken
  <2>4. Becomes(t, tx[t], Tail(queue)) /\ UNCHANGED <<call, srv>>
    BY <1>4 DEF RunSucceeded, External
  <2> QED  BY <2>1, <2>3, <2>4, HandledStage
<1>5. ASSUME NEW t \in Txn, HandleFinished(t)
      PROVE  RepeatInv'
  <2> DEFINE r == finished(tx[t], Head(queue).arg)
  <2>1. Handling("Finished", t)
    BY <1>5 DEF HandleFinished
  <2>2. Mark(Head(queue), t) = "finish" /\ tx[t].p /\ Head(queue).arg \in Exit
    BY <2>1, HandledMark, VerdictTyped DEF RepeatState, ContractInv, Handling, Deliverable
  <2>3. Stage(t, r, call[t], srv[t], Tail(queue))
    BY <2>1, <2>2, HandledStage, FinishedStage
  <2>4. Becomes(t, r, Tail(queue)) /\ UNCHANGED <<call, srv>>
    BY <1>5 DEF HandleFinished, External
  <2> QED  BY <2>1, <2>3, <2>4, HandledStage
<1>6. ASSUME NEW t \in Txn, HandleDestroy(t)
      PROVE  RepeatInv'
  <2>1. Handling("Destroy", t)
    BY <1>6 DEF HandleDestroy
  <2>2. Mark(Head(queue), t) = NoMark /\ tx[t].p
    BY <2>1, HandledMark DEF Handling, Deliverable
  <2>3. Stage(t, tx[t], call[t], srv[t], Tail(queue))
    BY <2>1, <2>2, HandledStage, UnmarkedTaken
  <2>4. Stage(t, destroy(tx[t]), call[t], srv[t], Tail(queue))
    BY <2>1, <2>2, <2>3, HandledStage, DestroyStage
  <2>5. Becomes(t, destroy(tx[t]), Tail(queue)) /\ UNCHANGED <<call, srv>>
    BY <1>6 DEF HandleDestroy, External
  <2> QED  BY <2>1, <2>4, <2>5, HandledStage
<1>7. ASSUME NEW t \in Txn, HandleDelete(t)
      PROVE  RepeatInv'
  <2> DEFINE r == [tx[t] EXCEPT !.obj = "deleted", !.p = FALSE]
  <2>1. Handling("delete", t)
    BY <1>7 DEF HandleDelete
  <2>2. Mark(Head(queue), t) = NoMark
    BY <2>1, HandledMark
  <2>3. Stage(t, tx[t], call[t], srv[t], Tail(queue))
    BY <2>1, <2>2, HandledStage, UnmarkedTaken
  <2>4. Stage(t, r, call[t], srv[t], Tail(queue))
    BY <2>1, <2>3, HandledStage, DeletedStage
  <2>5. Becomes(t, r, Tail(queue)) /\ UNCHANGED <<call, srv>>
    BY <1>7 DEF HandleDelete, External
  <2> HIDE DEF r
  <2> QED  BY <2>1, <2>4, <2>5, HandledStage
<1>8. ASSUME NEW t \in Txn, DaemonQuit(t)
      PROVE  RepeatInv'
  <2>1. Stage(t, daemonQuit(tx[t]), call[t], srv[t], queue)
    BY StateFacts, QuitStage
  <2>2. Becomes(t, daemonQuit(tx[t]), queue) /\ UNCHANGED <<call, srv>>
    BY <1>8 DEF DaemonQuit, External
  <2>3. call = [call EXCEPT ![t] = call[t]]
    BY DEF RepeatState, ContractInv, TypeOK
  <2> QED  BY <2>1, <2>2, <2>3, StateFacts, BecomesStage
<1>9. CASE OwnerChanged
  <2>1. /\ queue # <<>> /\ Head(queue).kind = "owner" /\ queue' = Tail(queue)
        /\ UNCHANGED <<tx, call, srv>>
    BY <1>9 DEF OwnerChanged, Ready, External
  <2>2. ASSUME NEW u \in Txn  PROVE Stage(u, tx[u], call[u], srv[u], Tail(queue))
    <3>1. Mark(Head(queue), u) = NoMark
      BY <2>1 DEF Mark, About
    <3> QED  BY <2>1, <3>1, StateFacts, UnmarkedTaken
  <2> QED  BY <2>1, <2>2 DEF RepeatInv
<1>10. CASE Discard
  <2>1. /\ queue # <<>> /\ ~Deliverable(Head(queue)) /\ queue' = Tail(queue)
        /\ UNCHANGED <<tx, call, srv>>
    BY <1>10 DEF Discard, Ready, External
  <2>2. ASSUME NEW u \in Txn  PROVE Stage(u, tx[u], call[u], srv[u], Tail(queue))
    <3>1. CASE Mark(Head(queue), u) = NoMark
      BY <2>1, <3>1, StateFacts, UnmarkedTaken
    <3>2. CASE Mark(Head(queue), u) # NoMark
      <4>1. /\ Head(queue).t = u
            /\ Head(queue).kind \in {"createReply", "runReply", "Finished"}
        BY <3>2 DEF Mark, About
      <4>2. ~tx[u].p
        BY <2>1, <4>1, StateFacts DEF Deliverable, ObjectInv
      <4> QED  BY <2>1, <4>2, StateFacts, DroppedStage
    <3> QED  BY <3>1, <3>2
  <2> QED  BY <2>1, <2>2 DEF RepeatInv
<1> QED
  BY <1>1, <1>2, <1>3, <1>4, <1>5, <1>6, <1>7, <1>8, <1>9, <1>10 DEF EventLoop

(* The events the daemon posts about t.                                    *)
LEMMA PostedEvents ==
  ASSUME NEW t \in Txn
  PROVE  /\ \A k \in {"createReply", "runReply"}, a \in {"ok", "denied", "error"} :
              LET e == EventWith(k, t, a) IN
              /\ e \in AnyEvent /\ e.kind # "owner" /\ e.t = t
              /\ Mark(e, t) = IF k = "createReply" THEN "create"
                                ELSE IF a # "ok" THEN "error" ELSE NoMark
         /\ \A x \in Verdict :
              LET e == EventWith("Finished", t, x) IN
              e \in AnyEvent /\ e.kind # "owner" /\ e.t = t /\ Mark(e, t) = "finish"
         /\ LET e == Event("Destroy", t) IN
            e \in AnyEvent /\ e.kind # "owner" /\ e.t = t /\ Mark(e, t) = NoMark
<1>1. ASSUME NEW k \in {"createReply", "runReply"}, NEW a \in {"ok", "denied", "error"}
      PROVE  LET e == EventWith(k, t, a) IN
             /\ e \in AnyEvent /\ e.kind # "owner" /\ e.t = t
             /\ Mark(e, t) = IF k = "createReply" THEN "create"
                               ELSE IF a # "ok" THEN "error" ELSE NoMark
  BY DEF EventWith, AnyEvent, ObjectEvent, Mark, About
<1>2. ASSUME NEW x \in Verdict
      PROVE  LET e == EventWith("Finished", t, x) IN
             e \in AnyEvent /\ e.kind # "owner" /\ e.t = t /\ Mark(e, t) = "finish"
  BY DEF EventWith, AnyEvent, ObjectEvent, Mark, About
<1>3. LET e == Event("Destroy", t) IN
      e \in AnyEvent /\ e.kind # "owner" /\ e.t = t /\ Mark(e, t) = NoMark
  BY DEF Event, AnyEvent, ObjectEvent, Mark, About
<1> QED  BY <1>1, <1>2, <1>3

(* The daemon and the bus.                                                 *)
LEMMA DaemonOfStage ==
  ASSUME RepeatState, NEW t \in Txn, DaemonOf(t) \/ ForeignBegin(t)
  PROVE  RepeatInv'
<1>1. /\ queue \in Seq(AnyEvent) /\ tx[t] \in Object /\ ObjectInv(tx[t])
      /\ Stage(t, tx[t], call[t], srv[t], queue)
      /\ call = [call EXCEPT ![t] = call[t]] /\ srv = [srv EXCEPT ![t] = srv[t]]
  BY StateFacts DEF TypeOK
<1>2. CASE AnswerCreate(t)
  <2> DEFINE e == EventWith("createReply", t, "ok")
  <2>1. e \in AnyEvent /\ e.kind # "owner" /\ e.t = t /\ Mark(e, t) = "create"
    BY PostedEvents
  <2>2. /\ call[t] = "create" /\ call' = [call EXCEPT ![t] = "none"]
        /\ queue' = Append(queue, e) /\ srv' = [srv EXCEPT ![t] = "idle"] /\ UNCHANGED tx
    BY <1>2 DEF AnswerCreate, Reply
  <2> HIDE DEF e
  <2>3. Stage(t, tx[t], "none", "idle", Append(queue, e))
    <3>1. "idle" \in {srv[t], "idle"} /\ Stage(t, tx[t], "create", srv[t], queue)
      BY <1>1, <2>2
    <3> QED  BY <1>1, <2>1, <3>1, CreateAnswered
  <2> QED  BY <2>1, <2>2, <2>3, DaemonStage
<1>3. CASE FailCreate(t)
  <2>1. PICK a \in {"denied", "error"} : Reply(t, "createReply", a, "none")
    BY <1>3 DEF FailCreate
  <2> DEFINE e == EventWith("createReply", t, a)
  <2>2. e \in AnyEvent /\ e.kind # "owner" /\ e.t = t /\ Mark(e, t) = "create"
    BY PostedEvents
  <2>3. /\ call[t] = "create" /\ call' = [call EXCEPT ![t] = "none"]
        /\ queue' = Append(queue, e) /\ UNCHANGED <<tx, srv>>
    BY <1>3, <2>1 DEF FailCreate, Reply, External
  <2> HIDE DEF e
  <2>4. Stage(t, tx[t], "none", srv[t], Append(queue, e))
    BY <1>1, <2>2, <2>3, CreateAnswered
  <2> QED  BY <1>1, <2>2, <2>3, <2>4, DaemonStage
<1>4. CASE AcceptRun(t)
  <2> DEFINE e == EventWith("runReply", t, "ok")
  <2>1. e \in AnyEvent /\ e.kind # "owner" /\ e.t = t /\ Mark(e, t) = NoMark
    BY PostedEvents
  <2>2. srv[t] = "idle" /\ srv' = [srv EXCEPT ![t] = "running"] /\ UNCHANGED tx
    BY <1>4 DEF AcceptRun
  <2>3. CASE call[t] = "run" /\ Reply(t, "runReply", "ok", "none")
    <3>1. call' = [call EXCEPT ![t] = "none"] /\ queue' = Append(queue, e)
      BY <2>3 DEF Reply
    <3> HIDE DEF e
    <3>2. Stage(t, tx[t], "none", "running", queue)
      BY <1>1, <2>2, <2>3, CallAccepted
    <3>3. Stage(t, tx[t], "none", "running", Append(queue, e))
      BY <1>1, <2>1, <3>2, UnmarkedPosted
    <3> QED  BY <2>1, <2>2, <3>1, <3>3, DaemonStage
  <2>4. CASE call[t] = "late" /\ UNCHANGED <<call, queue>>
    <3> HIDE DEF e
    <3>1. Stage(t, tx[t], "late", "running", queue)
      BY <1>1, <2>2, <2>4, CallAccepted
    <3>2. call' = [call EXCEPT ![t] = "late"] /\ queue' = queue
      BY <1>1, <2>4
    <3> QED  BY <2>1, <2>2, <3>1, <3>2, DaemonStage
  <2> QED  BY <1>4, <2>3, <2>4 DEF AcceptRun
<1>5. CASE RejectRun(t)
  <2>1. PICK a \in {"denied", "error"} : Reply(t, "runReply", a, "none")
    BY <1>5 DEF RejectRun
  <2> DEFINE e == EventWith("runReply", t, a)
  <2>2. e \in AnyEvent /\ e.kind # "owner" /\ e.t = t /\ Mark(e, t) = "error"
    BY PostedEvents
  <2>3. /\ call[t] = "run" /\ call' = [call EXCEPT ![t] = "none"]
        /\ queue' = Append(queue, e) /\ srv' = [srv EXCEPT ![t] = "done"] /\ UNCHANGED tx
    BY <1>5, <2>1 DEF RejectRun, Reply
  <2> HIDE DEF e
  <2>4. Stage(t, tx[t], "none", "done", Append(queue, e))
    BY <1>1, <2>2, <2>3, CallRefused
  <2> QED  BY <2>2, <2>3, <2>4, DaemonStage
<1>6. CASE FailRun(t)
  <2> DEFINE e == EventWith("runReply", t, "error")
  <2>1. e \in AnyEvent /\ e.kind # "owner" /\ e.t = t /\ Mark(e, t) = "error"
    BY PostedEvents
  <2>2. PICK d : /\ <<d, srv[t]>> \in {<<"none", "gone">>, <<"none", "lost">>, <<"late", "idle">>}
                 /\ Reply(t, "runReply", "error", d)
    BY <1>6 DEF FailRun
  <2>3. /\ call[t] = "run" /\ call' = [call EXCEPT ![t] = d]
        /\ queue' = Append(queue, e) /\ UNCHANGED <<tx, srv>>
    BY <1>6, <2>2 DEF FailRun, Reply, External
  <2> HIDE DEF e
  <2>4. Stage(t, tx[t], d, srv[t], Append(queue, e))
    BY <1>1, <2>1, <2>2, <2>3, CallRefused
  <2> QED  BY <1>1, <2>1, <2>3, <2>4, DaemonStage
<1>7. ASSUME NEW x \in Verdict, FinishRun(t, x)
      PROVE  RepeatInv'
  <2> DEFINE e == EventWith("Finished", t, x)
  <2>1. e \in AnyEvent /\ e.kind # "owner" /\ e.t = t /\ Mark(e, t) = "finish"
    BY PostedEvents
  <2>2. /\ srv[t] = "running" /\ srv' = [srv EXCEPT ![t] = "done"] /\ UNCHANGED <<tx, call>>
        /\ queue' = IF tx[t].p /\ "Finished" \in tx[t].wired THEN Append(queue, e) ELSE queue
    BY <1>7 DEF FinishRun
  <2> HIDE DEF e
  <2>3. Stage(t, tx[t], call[t], "done", queue)
    BY <1>1, <2>2, EndedStage
  <2>4. tx[t].p => Stage(t, tx[t], call[t], "done", Append(queue, e))
    BY <1>1, <2>1, <2>2, RelayedStage DEF ObjectInv
  <2>5. Stage(t, tx[t], call[t], "done", queue')
    BY <2>2, <2>3, <2>4
  <2> QED  BY <1>1, <2>1, <2>2, <2>5, DaemonStage
<1>8. CASE DestroyTid(t)
  <2> DEFINE e == Event("Destroy", t)
  <2>1. e \in AnyEvent /\ e.kind # "owner" /\ e.t = t /\ Mark(e, t) = NoMark
    BY PostedEvents
  <2>2. /\ srv[t] # "absent" /\ srv' = [srv EXCEPT ![t] = "gone"] /\ UNCHANGED <<tx, call>>
        /\ queue' = IF tx[t].p /\ "Destroy" \in tx[t].wired THEN Append(queue, e) ELSE queue
    BY <1>8 DEF DestroyTid
  <2> HIDE DEF e
  <2>3. Stage(t, tx[t], call[t], "gone", queue)
    BY <1>1, <2>2, GoneStage
  <2>4. Stage(t, tx[t], call[t], "gone", Append(queue, e))
    BY <1>1, <2>1, <2>3, UnmarkedPosted
  <2>5. Stage(t, tx[t], call[t], "gone", queue')
    BY <2>2, <2>3, <2>4
  <2> QED  BY <1>1, <2>1, <2>2, <2>5, DaemonStage
<1>9. CASE ForeignBegin(t)
  <2> DEFINE e == Event("Destroy", t)
  <2>1. e \in AnyEvent /\ e.kind # "owner" /\ e.t = t
    BY PostedEvents
  <2>2. /\ t \in Foreign /\ srv[t] = "absent" /\ srv' = [srv EXCEPT ![t] = "running"]
        /\ UNCHANGED <<tx, call, queue>>
    BY <1>9 DEF ForeignBegin
  <2> HIDE DEF e
  <2>3. Stage(t, tx[t], call[t], "running", queue)
    BY <1>1, <2>2, BegunStage
  <2> QED  BY <1>1, <2>1, <2>2, <2>3, DaemonStage
<1> QED
  BY <1>2, <1>3, <1>4, <1>5, <1>6, <1>7, <1>8, <1>9 DEF DaemonOf

(* NameOwnerChanged is posted; every transaction of a lost daemon is gone. *)
LEMMA OwnerStage ==
  ASSUME RepeatState, LoseOwner \/ StartOwner
  PROVE  RepeatInv'
<1>1. PICK old \in BOOLEAN, new \in BOOLEAN : OwnerChange(old, new)
  BY DEF LoseOwner, StartOwner
<1> DEFINE e == [kind |-> "owner", old |-> old, new |-> new]
<1>2. e \in AnyEvent /\ e.kind = "owner"
  BY DEF OwnerEvent, AnyEvent
<1>3. UNCHANGED <<tx, call>> /\ queue' = Append(queue, e)
  BY <1>1 DEF OwnerChange
<1> HIDE DEF e
<1>4. SUFFICES ASSUME NEW u \in Txn
               PROVE  Stage(u, tx[u], call[u], srv'[u], Append(queue, e))
  BY <1>3 DEF RepeatInv
<1>5. Stage(u, tx[u], call[u], srv'[u], queue)
  <2>1. srv'[u] = srv[u] \/ (srv[u] # "absent" /\ srv'[u] = "lost")
    <3>1. CASE LoseOwner
      <4>1. srv' = [t \in Txn |-> IF srv[t] = "absent" THEN "absent" ELSE "lost"]
        BY <3>1 DEF LoseOwner
      <4> QED  BY <4>1
    <3>2. CASE StartOwner
      BY <3>2 DEF StartOwner
    <3> QED  BY <3>1, <3>2
  <2> QED  BY <2>1, StateFacts, GoneStage
<1>6. Mark(e, u) = NoMark
  BY <1>2 DEF Mark, About
<1> QED  BY <1>2, <1>5, <1>6, StateFacts, UnmarkedPosted

(* The invariant holds initially, and every step keeps it.                 *)
LEMMA RepeatInvariant == Spec => []RepeatState
<1>1. Init => RepeatInv
  <2> SUFFICES ASSUME Init, NEW t \in Txn
               PROVE  Stage(t, tx[t], call[t], srv[t], queue)
    BY DEF RepeatInv
  <2>1. /\ tx[t] = NoObject /\ call[t] = "none" /\ srv[t] = "absent" /\ queue = <<>>
    BY DEF Init
  <2>2. NoObject.obj = "none" /\ NoObject.exits = <<>> /\ ~NoObject.p
    BY DEF NoObject
  <2>3. Sorted(<<>>, t) /\ \A m : None(<<>>, t, m)
    BY DEF Sorted, None
  <2>4. Answers(t, NoObject, "none", "absent", <<>>)
    BY <2>2, <2>3 DEF Answers
  <2>5. Len(NoObject.exits) <= 2 /\ Len(NoObject.exits) # 2
    <3>1. Len(NoObject.exits) = 0
      BY <2>2
    <3> QED  BY <3>1
  <2>6. Repeats(t, NoObject, "none", "absent", <<>>)
    BY <2>2, <2>5 DEF Repeats
  <2> QED  BY <2>1, <2>4, <2>6 DEF Stage
<1>2. ContractInv /\ RepeatInv /\ [Next]_vars => RepeatInv'
  <2> SUFFICES ASSUME RepeatState, [Next]_vars  PROVE RepeatInv'
    BY DEF RepeatState
  <2>1. CASE Application
    BY <2>1, ApplicationStage
  <2>2. CASE EventLoop
    BY <2>2, HandlerStage
  <2>3. CASE Daemon
    BY <2>3, DaemonOfStage, OwnerStage DEF Daemon
  <2>4. CASE Bus
    BY <2>4, BusStage
  <2>5. CASE UNCHANGED vars
    BY <2>5 DEF vars, RepeatState, RepeatInv
  <2> QED  BY <2>1, <2>2, <2>3, <2>4, <2>5 DEF Next
<1>3. Spec => []ContractInv
  BY ContractInvariant
<1> QED  BY <1>1, <1>2, <1>3, PTL DEF Spec, RepeatState

(* An object that repeats itself reports a failure or a kill, and nothing  *)
(* after it: no Finished is left for an object that has reported and still *)
(* has its proxy, and without the proxy only the failure of a call that    *)
(* was given up can still be reported, once.                               *)
THEOREM RepeatsBounded == Spec => []RepeatsOnlyFailure
<1>1. RepeatState => RepeatsOnlyFailure
  BY DEF RepeatState, RepeatInv, Stage, Repeats, RepeatsOnlyFailure
<1> QED  BY <1>1, RepeatInvariant, PTL

(***************************************************************************)
(* A daemon that stays until it is idle: the invariant                     *)
(***************************************************************************)
(* The reply that brings the tid of t, Destroy for t, the loss of a daemon. *)
Granted(e, t) == e.kind = "createReply" /\ e.t = t /\ e.arg = "ok"
Destroys(e, t) == e.kind = "Destroy" /\ e.t = t
Lost(e) == e.kind = "owner" /\ OwnerLost(e)

HasGrant(q, t) == \E i \in 1..Len(q) : Granted(q[i], t)
HasDestroy(q, t) == \E i \in 1..Len(q) : Destroys(q[i], t)

(* No loss is behind the tid of t, and no failure behind its Destroy.      *)
LossesFirst(q, t) == \A i, j \in 1..Len(q) : Granted(q[i], t) /\ Lost(q[j]) => j < i
ErrorsFirst(q, t) ==
  \A i, j \in 1..Len(q) : Destroys(q[i], t) /\ i < j => Mark(q[j], t) # "error"

(* In front of each loss is Destroy for t; or else there is no Finished.   *)
Ended(q, t) ==
  \A i \in 1..Len(q) : Lost(q[i]) => \E j \in 1..Len(q) : j < i /\ Destroys(q[j], t)
Unheard(q, t) ==
  \A i \in 1..Len(q) : Lost(q[i]) =>
     \/ \E j \in 1..Len(q) : j < i /\ Destroys(q[j], t)
     \/ \A j \in 1..Len(q) : j < i => Mark(q[j], t) # "finish"

(* Whom a loss may still kill: an object attached to the tid of another    *)
(* client, which has not reported.                                         *)
Fresh(t, s) == t \in Foreign /\ s.exits = <<>>

Once(t, s, c, q) ==
  /\ Len(s.exits) <= 1
  /\ s.exits # <<>> => c # "run" /\ None(q, t, "error")

(* What the call and the events say of the transaction in the daemon.      *)
Steady(t, s, c, v, q) ==
  /\ c = "run" => v = "idle"
  /\ c = "create" => v = "absent"
  /\ v = "absent" => ~s.p
  /\ HasGrant(q, t) => v = "idle"
  /\ HasDestroy(q, t) => v \in {"gone", "lost"}
  /\ t \in Foreign => None(q, t, "error")
  /\ LossesFirst(q, t)
  /\ ErrorsFirst(q, t)

(* Who has a proxy learns of the end before it learns of the loss.         *)
Warned(t, s, v, q) ==
  /\ s.p /\ v \in {"gone", "lost"} => HasDestroy(q, t) \/ (Fresh(t, s) /\ None(q, t, "finish"))
  /\ s.p /\ Fresh(t, s) => Unheard(q, t)
  /\ s.p /\ ~Fresh(t, s) => Ended(q, t)

Calm(t, s, c, v, q) == Once(t, s, c, q) /\ Steady(t, s, c, v, q) /\ Warned(t, s, v, q)

CalmInv == \A t \in Txn : Calm(t, tx[t], call[t], srv[t], queue)
QuitInv == \A t \in quitting : t \in Txn /\ (tx[t].p => Fresh(t, tx[t]))

(***************************************************************************)
(* The order of the events                                                 *)
(***************************************************************************)
(* An event is posted behind all others.                                   *)
LEMMA OrderPosted ==
  ASSUME NEW q \in Seq(AnyEvent), NEW e \in AnyEvent, NEW t
  PROVE  /\ Append(q, e) \in Seq(AnyEvent)
         /\ \A m : None(Append(q, e), t, m) <=> None(q, t, m) /\ Mark(e, t) # m
         /\ HasGrant(Append(q, e), t) <=> HasGrant(q, t) \/ Granted(e, t)
         /\ HasDestroy(Append(q, e), t) <=> HasDestroy(q, t) \/ Destroys(e, t)
         /\ LossesFirst(q, t) /\ (Lost(e) => ~HasGrant(q, t)) => LossesFirst(Append(q, e), t)
         /\ ErrorsFirst(q, t) /\ (Mark(e, t) = "error" => ~HasDestroy(q, t))
              => ErrorsFirst(Append(q, e), t)
         /\ Ended(q, t) /\ (Lost(e) => HasDestroy(q, t)) => Ended(Append(q, e), t)
         /\ Unheard(q, t) /\ (Lost(e) => HasDestroy(q, t) \/ None(q, t, "finish"))
              => Unheard(Append(q, e), t)
<1> DEFINE r == Append(q, e)
           n == Len(q)
<1>1. /\ r \in Seq(AnyEvent) /\ Len(r) = n + 1 /\ n \in Nat
      /\ \A i \in 1..n : i \in 1..(n + 1) /\ r[i] = q[i] /\ i < n + 1
      /\ n + 1 \in 1..(n + 1) /\ r[n + 1] = e
      /\ \A i \in 1..(n + 1) : i # n + 1 => i \in 1..n
      /\ \A i \in 1..(n + 1) : ~(n + 1 < i)
  OBVIOUS
<1> HIDE DEF r, n
<1>2. DOMAIN r = 1..(n + 1) /\ Len(r) = n + 1 /\ Len(q) = n
  BY <1>1 DEF n
<1>3. \A m : None(r, t, m) <=> None(q, t, m) /\ Mark(e, t) # m
  <2> SUFFICES ASSUME NEW m  PROVE None(r, t, m) <=> None(q, t, m) /\ Mark(e, t) # m
    OBVIOUS
  <2> QED  BY <1>1, <1>2 DEF None
<1>4. HasGrant(r, t) <=> HasGrant(q, t) \/ Granted(e, t)
  <2> HIDE DEF Granted
  <2> QED  BY <1>1, <1>2 DEF HasGrant
<1>5. HasDestroy(r, t) <=> HasDestroy(q, t) \/ Destroys(e, t)
  <2> HIDE DEF Destroys
  <2> QED  BY <1>1, <1>2 DEF HasDestroy
<1>6. ASSUME LossesFirst(q, t), Lost(e) => ~HasGrant(q, t)
      PROVE  LossesFirst(r, t)
  <2> SUFFICES ASSUME NEW i \in 1..(n + 1), NEW j \in 1..(n + 1), Granted(r[i], t), Lost(r[j])
               PROVE  j < i
    BY <1>2 DEF LossesFirst
  <2>1. CASE i # n + 1 /\ j # n + 1
    BY <1>1, <1>2, <1>6, <2>1 DEF LossesFirst
  <2>2. CASE i # n + 1 /\ j = n + 1
    BY <1>1, <1>2, <1>6, <2>2 DEF HasGrant
  <2>3. CASE i = n + 1 /\ j # n + 1
    BY <1>1, <2>3
  <2>4. CASE i = n + 1 /\ j = n + 1
    BY <1>1, <2>4 DEF Granted, Lost
  <2> QED  BY <2>1, <2>2, <2>3, <2>4
<1>7. ASSUME ErrorsFirst(q, t), Mark(e, t) = "error" => ~HasDestroy(q, t)
      PROVE  ErrorsFirst(r, t)
  <2> SUFFICES ASSUME NEW i \in 1..(n + 1), NEW j \in 1..(n + 1), Destroys(r[i], t), i < j
               PROVE  Mark(r[j], t) # "error"
    BY <1>2 DEF ErrorsFirst
  <2>1. i # n + 1
    BY <1>1
  <2>2. i \in 1..n /\ Destroys(q[i], t)
    BY <1>1, <2>1
  <2>3. CASE j # n + 1
    BY <1>1, <1>2, <1>7, <2>2, <2>3 DEF ErrorsFirst
  <2>4. CASE j = n + 1
    BY <1>1, <1>2, <1>7, <2>2, <2>4 DEF HasDestroy
  <2> QED  BY <2>3, <2>4
<1>8. ASSUME Ended(q, t), Lost(e) => HasDestroy(q, t)
      PROVE  Ended(r, t)
  <2> SUFFICES ASSUME NEW i \in 1..(n + 1), Lost(r[i])
               PROVE  \E j \in 1..(n + 1) : j < i /\ Destroys(r[j], t)
    BY <1>2 DEF Ended
  <2>1. \E j \in 1..n : j < i /\ Destroys(q[j], t)
    <3>1. CASE i # n + 1
      BY <1>1, <1>2, <1>8, <3>1 DEF Ended
    <3>2. CASE i = n + 1
      BY <1>1, <1>2, <1>8, <3>2 DEF HasDestroy
    <3> QED  BY <3>1, <3>2
  <2> QED  BY <1>1, <2>1
<1>9. ASSUME Unheard(q, t), Lost(e) => HasDestroy(q, t) \/ None(q, t, "finish")
      PROVE  Unheard(r, t)
  <2> SUFFICES ASSUME NEW i \in 1..(n + 1), Lost(r[i])
               PROVE  \/ \E j \in 1..(n + 1) : j < i /\ Destroys(r[j], t)
                      \/ \A j \in 1..(n + 1) : j < i => Mark(r[j], t) # "finish"
    BY <1>2 DEF Unheard
  <2>1. \/ \E j \in 1..n : j < i /\ Destroys(q[j], t)
        \/ \A j \in 1..n : j < i => Mark(q[j], t) # "finish"
    <3>1. CASE i # n + 1
      BY <1>1, <1>2, <1>9, <3>1 DEF Unheard
    <3>2. CASE i = n + 1
      BY <1>1, <1>2, <1>9, <3>2 DEF HasDestroy, None
    <3> QED  BY <3>1, <3>2
  <2>2. \A j \in 1..(n + 1) : j < i => j \in 1..n
    BY <1>1
  <2> QED  BY <1>1, <2>1, <2>2
<1> QED  BY <1>1, <1>3, <1>4, <1>5, <1>6, <1>7, <1>8, <1>9 DEF r

(* The first event is taken.                                               *)
LEMMA OrderTaken ==
  ASSUME NEW q \in Seq(AnyEvent), q # <<>>, NEW t
  PROVE  /\ Tail(q) \in Seq(AnyEvent) /\ Head(q) \in AnyEvent
         /\ \A m : None(q, t, m) => None(Tail(q), t, m)
         /\ HasGrant(Tail(q), t) \/ Granted(Head(q), t) => HasGrant(q, t)
         /\ HasDestroy(q, t) <=> HasDestroy(Tail(q), t) \/ Destroys(Head(q), t)
         /\ LossesFirst(q, t) => LossesFirst(Tail(q), t)
         /\ LossesFirst(q, t) /\ Granted(Head(q), t) => Ended(Tail(q), t) /\ Unheard(Tail(q), t)
         /\ ErrorsFirst(q, t) => ErrorsFirst(Tail(q), t)
         /\ ErrorsFirst(q, t) /\ Destroys(Head(q), t) => None(Tail(q), t, "error")
         /\ Ended(q, t) /\ ~Destroys(Head(q), t) => Ended(Tail(q), t)
         /\ Unheard(q, t) /\ ~Destroys(Head(q), t) => Unheard(Tail(q), t)
         /\ Unheard(q, t) /\ Mark(Head(q), t) = "finish" => Ended(Tail(q), t)
         /\ Lost(Head(q)) => ~Ended(q, t)
<1> DEFINE r == Tail(q)
           e == Head(q)
           n == Len(q)
<1>1. /\ r \in Seq(AnyEvent) /\ Len(r) = n - 1 /\ n \in Nat /\ e \in AnyEvent
      /\ e = q[1] /\ 1 \in 1..n /\ \A i \in 1..n : ~(i < 1)
      /\ \A i \in 1..(n - 1) : i + 1 \in 1..n /\ i + 1 > 1 /\ r[i] = q[i + 1]
      /\ \A i \in 1..n : i # 1 => i - 1 \in 1..(n - 1) /\ r[i - 1] = q[i] /\ 1 < i
      /\ \A i, j \in 1..(n - 1) : i < j <=> i + 1 < j + 1
      /\ \A i \in 1..(n - 1), j \in 1..n : j < i + 1 /\ j # 1 => j - 1 < i
  OBVIOUS
<1> HIDE DEF r, e, n
<1>2. Len(r) = n - 1 /\ Len(q) = n
  BY <1>1 DEF n
<1>3. \A m : None(q, t, m) => None(r, t, m)
  BY <1>1, <1>2 DEF None
<1>4. HasGrant(r, t) \/ Granted(e, t) => HasGrant(q, t)
  <2> HIDE DEF Granted
  <2> QED  BY <1>1, <1>2 DEF HasGrant
<1>5. HasDestroy(q, t) <=> HasDestroy(r, t) \/ Destroys(e, t)
  <2> HIDE DEF Destroys
  <2> QED  BY <1>1, <1>2 DEF HasDestroy
<1>6. ASSUME LossesFirst(q, t)
      PROVE  LossesFirst(r, t)
  <2> SUFFICES ASSUME NEW i \in 1..(n - 1), NEW j \in 1..(n - 1), Granted(r[i], t), Lost(r[j])
               PROVE  j < i
    BY <1>2 DEF LossesFirst
  <2>1. j + 1 < i + 1
    BY <1>1, <1>2, <1>6 DEF LossesFirst
  <2> QED  BY <1>1, <2>1
<1>7. ASSUME LossesFirst(q, t), Granted(e, t), NEW i \in 1..(n - 1)
      PROVE  ~Lost(r[i])
  <2>1. Lost(q[i + 1]) => i + 1 < 1
    BY <1>1, <1>2, <1>7 DEF LossesFirst
  <2> QED  BY <1>1, <2>1
<1>8. ASSUME ErrorsFirst(q, t)
      PROVE  ErrorsFirst(r, t)
  <2> SUFFICES ASSUME NEW i \in 1..(n - 1), NEW j \in 1..(n - 1), Destroys(r[i], t), i < j
               PROVE  Mark(r[j], t) # "error"
    BY <1>2 DEF ErrorsFirst
  <2>1. i + 1 < j + 1
    BY <1>1
  <2> QED  BY <1>1, <1>2, <1>8, <2>1 DEF ErrorsFirst
<1>9. ASSUME ErrorsFirst(q, t), Destroys(e, t)
      PROVE  None(r, t, "error")
  <2> SUFFICES ASSUME NEW i \in 1..(n - 1)
               PROVE  Mark(r[i], t) # "error"
    BY <1>2 DEF None
  <2>1. 1 < i + 1 /\ i + 1 \in 1..n /\ Destroys(q[1], t)
    BY <1>1, <1>9
  <2> QED  BY <1>1, <1>2, <1>9, <2>1 DEF ErrorsFirst
<1>10. ASSUME NEW i \in 1..(n - 1), NEW j \in 1..n, j < i + 1, Destroys(q[j], t), ~Destroys(e, t)
       PROVE  \E k \in 1..(n - 1) : k < i /\ Destroys(r[k], t)
  <2>1. j # 1
    BY <1>1, <1>10
  <2>2. j - 1 \in 1..(n - 1) /\ r[j - 1] = q[j] /\ j - 1 < i
    BY <1>1, <1>10, <2>1
  <2> QED  BY <1>10, <2>2
<1>11. ASSUME Ended(q, t), ~Destroys(e, t)
       PROVE  Ended(r, t)
  <2> SUFFICES ASSUME NEW i \in 1..(n - 1), Lost(r[i])
               PROVE  \E k \in 1..(n - 1) : k < i /\ Destroys(r[k], t)
    BY <1>2 DEF Ended
  <2>1. PICK j \in 1..n : j < i + 1 /\ Destroys(q[j], t)
    BY <1>1, <1>2, <1>11 DEF Ended
  <2> QED  BY <1>10, <1>11, <2>1
<1>12. ASSUME Unheard(q, t), ~Destroys(e, t), NEW i \in 1..(n - 1), Lost(r[i])
       PROVE  \/ \E k \in 1..(n - 1) : k < i /\ Destroys(r[k], t)
              \/ \A k \in 1..n : k < i + 1 => Mark(q[k], t) # "finish"
  <2>1. \/ \E j \in 1..n : j < i + 1 /\ Destroys(q[j], t)
        \/ \A k \in 1..n : k < i + 1 => Mark(q[k], t) # "finish"
    BY <1>1, <1>2, <1>12 DEF Unheard
  <2> QED  BY <1>10, <1>12, <2>1
<1>13. ASSUME Unheard(q, t), ~Destroys(e, t)
       PROVE  Unheard(r, t)
  <2> SUFFICES ASSUME NEW i \in 1..(n - 1), Lost(r[i])
               PROVE  \/ \E k \in 1..(n - 1) : k < i /\ Destroys(r[k], t)
                      \/ \A k \in 1..(n - 1) : k < i => Mark(r[k], t) # "finish"
    BY <1>2 DEF Unheard
  <2>1. CASE \A k \in 1..n : k < i + 1 => Mark(q[k], t) # "finish"
    <3>1. \A k \in 1..(n - 1) : k < i => k + 1 \in 1..n /\ k + 1 < i + 1 /\ r[k] = q[k + 1]
      BY <1>1
    <3> QED  BY <2>1, <3>1
  <2> QED  BY <1>12, <1>13, <2>1
<1>14. ASSUME Unheard(q, t), Mark(e, t) = "finish"
       PROVE  Ended(r, t)
  <2>1. ~Destroys(e, t)
    BY <1>14 DEF Mark, About, Destroys, NoMark
  <2> SUFFICES ASSUME NEW i \in 1..(n - 1), Lost(r[i])
               PROVE  \E k \in 1..(n - 1) : k < i /\ Destroys(r[k], t)
    BY <1>2 DEF Ended
  <2>2. 1 \in 1..n /\ 1 < i + 1 /\ Mark(q[1], t) = "finish"
    BY <1>1, <1>14
  <2> QED  BY <1>12, <1>14, <2>1, <2>2
<1>15. Lost(e) => ~Ended(q, t)
  BY <1>1, <1>2 DEF Ended
<1>16. ASSUME LossesFirst(q, t), Granted(e, t)
       PROVE  Ended(r, t) /\ Unheard(r, t)
  BY <1>2, <1>7, <1>16 DEF Ended, Unheard
<1> QED
  BY <1>1, <1>3, <1>4, <1>5, <1>6, <1>8, <1>9, <1>11, <1>13, <1>14, <1>15, <1>16 DEF r, e

(* The tid, Destroy and a loss have their kinds, and marks of their own.   *)
LEMMA KindsApart ==
  ASSUME NEW e \in AnyEvent, NEW t
  PROVE  /\ Granted(e, t) => Mark(e, t) = "create" /\ ~Destroys(e, t) /\ ~Lost(e)
         /\ Destroys(e, t) => Mark(e, t) = NoMark /\ ~Lost(e) /\ ~Granted(e, t)
         /\ Lost(e) => Mark(e, t) = NoMark
         /\ Mark(e, t) \in {"error", "finish"} =>
              ~Granted(e, t) /\ ~Destroys(e, t) /\ ~Lost(e)
  BY DEF Granted, Destroys, Lost, Mark, About, NoMark

(* The tid of t is on its way only as the answer to CreateTransaction.     *)
LEMMA GrantMarked ==
  ASSUME NEW q \in Seq(AnyEvent), NEW t, HasGrant(q, t)
  PROVE  ~None(q, t, "create")
<1>1. PICK i \in 1..Len(q) : Granted(q[i], t)
  BY DEF HasGrant
<1>2. q[i] \in AnyEvent
  OBVIOUS
<1> QED  BY <1>1, <1>2, KindsApart DEF None

(***************************************************************************)
(* Events come and go                                                      *)
(***************************************************************************)
(* An event that neither brings a tid, nor ends, fails or kills anything.  *)
LEMMA CalmPosted ==
  ASSUME NEW t, NEW s, NEW c, NEW v, NEW q \in Seq(AnyEvent), NEW e \in AnyEvent,
         Calm(t, s, c, v, q), ~Granted(e, t), ~Destroys(e, t), ~Lost(e),
         Mark(e, t) # "error", Mark(e, t) = "finish" => v \notin {"gone", "lost"}
  PROVE  Calm(t, s, c, v, Append(q, e))
<1> DEFINE r == Append(q, e)
<1>1. /\ \A m : None(r, t, m) <=> None(q, t, m) /\ Mark(e, t) # m
      /\ HasGrant(r, t) <=> HasGrant(q, t)
      /\ HasDestroy(r, t) <=> HasDestroy(q, t)
      /\ LossesFirst(q, t) => LossesFirst(r, t)
      /\ ErrorsFirst(q, t) => ErrorsFirst(r, t)
      /\ Ended(q, t) => Ended(r, t)
      /\ Unheard(q, t) => Unheard(r, t)
  BY OrderPosted
<1> HIDE DEF r
<1>2. Once(t, s, c, r)
  BY <1>1 DEF Calm, Once
<1>3. Steady(t, s, c, v, r)
  BY <1>1 DEF Calm, Steady
<1>4. Warned(t, s, v, r)
  BY <1>1 DEF Calm, Warned
<1> QED  BY <1>2, <1>3, <1>4 DEF Calm, r

(* What the first event leaves behind.                                     *)
LEMMA SteadyTaken ==
  ASSUME NEW t, NEW s, NEW c, NEW v, NEW q \in Seq(AnyEvent), q # <<>>, Calm(t, s, c, v, q)
  PROVE  Once(t, s, c, Tail(q)) /\ Steady(t, s, c, v, Tail(q))
<1>1. /\ \A m : None(q, t, m) => None(Tail(q), t, m)
      /\ HasGrant(Tail(q), t) => HasGrant(q, t)
      /\ HasDestroy(Tail(q), t) => HasDestroy(q, t)
      /\ LossesFirst(q, t) => LossesFirst(Tail(q), t)
      /\ ErrorsFirst(q, t) => ErrorsFirst(Tail(q), t)
  BY OrderTaken
<1>2. Once(t, s, c, Tail(q))
  BY <1>1 DEF Calm, Once
<1>3. Steady(t, s, c, v, Tail(q))
  BY <1>1 DEF Calm, Steady
<1> QED  BY <1>2, <1>3

(* An event that is not Destroy, or that finds no proxy.                   *)
LEMMA CalmTaken ==
  ASSUME NEW t, NEW s, NEW c, NEW v, NEW q \in Seq(AnyEvent), q # <<>>,
         Calm(t, s, c, v, q), s.p => ~Destroys(Head(q), t)
  PROVE  Calm(t, s, c, v, Tail(q))
<1>1. /\ \A m : None(q, t, m) => None(Tail(q), t, m)
      /\ HasDestroy(q, t) <=> HasDestroy(Tail(q), t) \/ Destroys(Head(q), t)
      /\ Ended(q, t) /\ ~Destroys(Head(q), t) => Ended(Tail(q), t)
      /\ Unheard(q, t) /\ ~Destroys(Head(q), t) => Unheard(Tail(q), t)
  BY OrderTaken
<1>2. Warned(t, s, v, Tail(q))
  BY <1>1 DEF Calm, Warned
<1> QED  BY <1>2, SteadyTaken DEF Calm

(***************************************************************************)
(* What the slots do                                                       *)
(***************************************************************************)
(* The object reports nothing, and it may lose its proxy.                  *)
LEMMA AlikeCalm ==
  ASSUME NEW t, NEW s, NEW r, NEW c, NEW v, NEW q, Calm(t, s, c, v, q),
         r.p => s.p, r.exits = s.exits
  PROVE  Calm(t, r, c, v, q)
<1>1. Once(t, r, c, q)
  BY DEF Calm, Once
<1>2. Steady(t, r, c, v, q)
  BY DEF Calm, Steady
<1>3. Warned(t, r, v, q)
  BY DEF Calm, Warned, Fresh
<1> QED  BY <1>1, <1>2, <1>3 DEF Calm

(* The object reports for the first time.  If it keeps its proxy, it will  *)
(* lose it to Destroy before any loss.                                     *)
LEMMA ReportedCalm ==
  ASSUME NEW t, NEW s, NEW r, NEW c, NEW v, NEW q, Steady(t, s, c, v, q),
         OneReport(r.exits), c # "run", None(q, t, "error"),
         r.p => v # "absent" /\ Ended(q, t) /\ (v \in {"gone", "lost"} => HasDestroy(q, t))
  PROVE  Calm(t, r, c, v, q)
<1>1. Once(t, r, c, q)
  <2>1. Len(r.exits) <= 1
    <3>1. Len(r.exits) = 1
      BY DEF OneReport
    <3> QED  BY <3>1
  <2> QED  BY <2>1 DEF Once
<1>2. Steady(t, r, c, v, q)
  BY DEF Steady
<1>3. ~Fresh(t, r)
  BY DEF Fresh, OneReport
<1>4. Warned(t, r, v, q)
  BY <1>3 DEF Warned
<1> QED  BY <1>1, <1>2, <1>4 DEF Calm

(* The tid arrives: the daemon keeps the transaction idle, and every loss  *)
(* that has been posted is over.                                           *)
LEMMA GrantTaken ==
  ASSUME NEW t, NEW s, NEW c, NEW v, NEW q \in Seq(AnyEvent), q # <<>>,
         Stage(t, s, c, v, q), Calm(t, s, c, v, q), Granted(Head(q), t)
  PROVE  /\ s.exits = <<>> /\ v = "idle" /\ c = "none"
         /\ None(Tail(q), t, "error") /\ Ended(Tail(q), t) /\ Unheard(Tail(q), t)
         /\ Steady(t, s, c, v, Tail(q)) /\ ~HasDestroy(Tail(q), t)
<1>1. HasGrant(q, t) /\ v = "idle"
  BY OrderTaken DEF Calm, Steady
<1>2. ~None(q, t, "create")
  BY <1>1, GrantMarked
<1>3. s.exits = <<>> /\ c = "none" /\ None(q, t, "error")
  BY <1>2 DEF Stage, Answers
<1>4. None(Tail(q), t, "error") /\ Ended(Tail(q), t) /\ Unheard(Tail(q), t)
  BY <1>3, OrderTaken DEF Calm, Steady
<1>5. Steady(t, s, c, v, Tail(q))
  BY SteadyTaken
<1>6. ~HasDestroy(Tail(q), t)
  BY <1>1, <1>5 DEF Steady
<1> QED  BY <1>1, <1>3, <1>4, <1>5, <1>6

(* setup(), and the method is dispatched.                                  *)
LEMMA SetupCalm ==
  ASSUME NEW t, NEW s \in Object, NEW c, NEW v, NEW q \in Seq(AnyEvent), q # <<>>,
         Stage(t, s, c, v, q), Calm(t, s, c, v, q), Granted(Head(q), t)
  PROVE  Calm(t, setup(s), "run", v, Tail(q))
<1> DEFINE r == setup(s)
<1>1. r.p /\ r.exits = s.exits
  BY DEF setup, Object
<1> HIDE DEF r
<1>2. /\ s.exits = <<>> /\ v = "idle" /\ Ended(Tail(q), t) /\ Unheard(Tail(q), t)
      /\ Steady(t, s, c, v, Tail(q))
  BY GrantTaken
<1>3. Once(t, r, "run", Tail(q))
  <2>1. Len(r.exits) = 0
    BY <1>1, <1>2
  <2>2. Len(r.exits) <= 1
    BY <2>1
  <2> QED  BY <1>1, <1>2, <2>2 DEF Once
<1>4. Steady(t, r, "run", v, Tail(q))
  BY <1>2 DEF Steady
<1>5. Warned(t, r, v, Tail(q))
  BY <1>2 DEF Warned
<1> QED  BY <1>3, <1>4, <1>5 DEF Calm, r

(* The dispatch fails: reported at once, and the proxy is kept.            *)
LEMMA DispatchCalm ==
  ASSUME NEW t, NEW s \in Object, NEW c, NEW v, NEW q \in Seq(AnyEvent), q # <<>>,
         Stage(t, s, c, v, q), Calm(t, s, c, v, q), Granted(Head(q), t)
  PROVE  Calm(t, finished(errorCode(setup(s), "InternalError"), "failed"), c, v, Tail(q))
<1> DEFINE r == finished(errorCode(setup(s), "InternalError"), "failed")
<1>1. r.exits = Append(s.exits, "failed")
  BY DEF setup, errorCode, finished, Object
<1> HIDE DEF r
<1>2. /\ s.exits = <<>> /\ v = "idle" /\ c = "none" /\ None(Tail(q), t, "error")
      /\ Ended(Tail(q), t) /\ Steady(t, s, c, v, Tail(q))
  BY GrantTaken
<1>3. OneReport(r.exits)
  BY <1>1, <1>2, FirstReport DEF Exit
<1>4. Calm(t, r, c, v, Tail(q))
  BY <1>2, <1>3, ReportedCalm
<1> QED  BY <1>4 DEF r

(* CreateTransaction or the method call has failed: only an object that    *)
(* has not reported can hear of it.                                        *)
LEMMA FailureCalm ==
  ASSUME NEW t, NEW s \in Object, NEW c, NEW v, NEW q \in Seq(AnyEvent), q # <<>>,
         Stage(t, s, c, v, q), Calm(t, s, c, v, q),
         Mark(Head(q), t) \in {"create", "error"}, NEW a
  PROVE  Calm(t, callFailed(s, a), c, v, Tail(q))
<1> DEFINE r == callFailed(s, a)
<1>1. ~r.p /\ r.exits = Append(s.exits, "failed")
  BY CallFailedFields
<1> HIDE DEF r
<1>2. s.exits = <<>> /\ c # "run" /\ None(Tail(q), t, "error")
  <2>1. CASE Mark(Head(q), t) = "create"
    <3>1. ~None(q, t, "create")
      BY <2>1, MarkGone
    <3>2. s.exits = <<>> /\ c = "none" /\ None(q, t, "error")
      BY <3>1 DEF Stage, Answers
    <3> QED  BY <3>2, MarkGone
  <2>2. CASE Mark(Head(q), t) = "error"
    <3>1. ~None(q, t, "error") /\ None(Tail(q), t, "error")
      BY <2>2, MarkGone
    <3>2. c \in {"none", "late"}
      BY <3>1 DEF Stage, Answers
    <3>3. s.exits = <<>>
      BY <3>1 DEF Calm, Once
    <3> QED  BY <3>1, <3>2, <3>3
  <2> QED  BY <2>1, <2>2
<1>3. OneReport(r.exits)
  BY <1>1, <1>2, FirstReport DEF Exit
<1>4. Steady(t, s, c, v, Tail(q))
  BY SteadyTaken
<1>5. Calm(t, r, c, v, Tail(q))
  BY <1>1, <1>2, <1>3, <1>4, ReportedCalm
<1> QED  BY <1>5 DEF r

(* Finished is relayed: Destroy is on its way, or still to come.           *)
LEMMA FinishedCalm ==
  ASSUME NEW t, NEW s \in Object, NEW c, NEW v, NEW q \in Seq(AnyEvent), q # <<>>,
         s.p, Stage(t, s, c, v, q), Calm(t, s, c, v, q), Mark(Head(q), t) = "finish",
         NEW e \in Exit
  PROVE  Calm(t, finished(s, e), c, v, Tail(q))
<1> DEFINE r == finished(s, e)
<1>1. r.exits = Append(s.exits, e)
  BY DEF finished, Object
<1> HIDE DEF r
<1>2. ~None(q, t, "finish") /\ None(Tail(q), t, "error")
  BY MarkGone
<1>3. s.exits = <<>> /\ c \in {"none", "late"} /\ v \in {"done", "gone", "lost"}
  BY <1>2 DEF Stage, Answers, Repeats
<1>4. Head(q) \in AnyEvent
  OBVIOUS
<1>5. ~Destroys(Head(q), t)
  BY <1>4, KindsApart
<1>6. Ended(Tail(q), t)
  BY <1>5, OrderTaken DEF Calm, Warned
<1>7. v \in {"gone", "lost"} => HasDestroy(Tail(q), t)
  BY <1>2, <1>5, OrderTaken DEF Calm, Warned
<1>8. OneReport(r.exits)
  BY <1>1, <1>3, FirstReport
<1>9. Steady(t, s, c, v, Tail(q))
  BY SteadyTaken
<1>10. Calm(t, r, c, v, Tail(q))
  BY <1>2, <1>3, <1>6, <1>7, <1>8, <1>9, ReportedCalm
<1> QED  BY <1>10 DEF r

(* Destroy: nothing can fail any more.                                     *)
LEMMA DestroyCalm ==
  ASSUME NEW t, NEW s \in Object, NEW c, NEW v, NEW q \in Seq(AnyEvent), q # <<>>,
         s.p, ObjectInv(s), Stage(t, s, c, v, q), Calm(t, s, c, v, q), Destroys(Head(q), t)
  PROVE  Calm(t, destroy(s), c, v, Tail(q))
<1> DEFINE r == destroy(s)
<1>1. /\ ~r.p
      /\ r.exits = IF s.sentFinished THEN s.exits ELSE Append(s.exits, "unknown")
  BY DEF destroy, Object
<1> HIDE DEF r
<1>2. v \in {"gone", "lost"} /\ c # "run" /\ None(Tail(q), t, "error")
  BY OrderTaken DEF Calm, Steady
<1>3. Once(t, s, c, Tail(q)) /\ Steady(t, s, c, v, Tail(q))
  BY SteadyTaken
<1>4. CASE s.exits = <<>>
  <2>1. ~s.sentFinished
    BY <1>4 DEF ObjectInv, Reported
  <2>2. OneReport(r.exits)
    BY <1>1, <1>4, <2>1, FirstReport DEF Exit
  <2>3. Calm(t, r, c, v, Tail(q))
    BY <1>1, <1>2, <1>3, <2>2, ReportedCalm
  <2> QED  BY <2>3 DEF r
<1>5. CASE s.exits # <<>>
  <2>1. r.exits = s.exits
    BY <1>1, <1>5 DEF Stage, Repeats
  <2>2. Once(t, r, c, Tail(q)) /\ Steady(t, r, c, v, Tail(q)) /\ Warned(t, r, v, Tail(q))
    BY <1>1, <1>3, <2>1 DEF Once, Steady, Warned
  <2> QED  BY <2>2 DEF Calm, r
<1> QED  BY <1>4, <1>5

(* daemonQuit(): only an object that has not reported can be killed.       *)
LEMMA QuitCalm ==
  ASSUME NEW t, NEW s \in Object, NEW c, NEW v, NEW q,
         s.p => Fresh(t, s), Stage(t, s, c, v, q), Calm(t, s, c, v, q)
  PROVE  Calm(t, daemonQuit(s), c, v, q)
<1>1. CASE ~s.p
  BY <1>1 DEF daemonQuit
<1>2. CASE s.p
  <2> DEFINE r == daemonQuit(s)
  <2>1. ~r.p /\ r.exits = Append(s.exits, "killed")
    BY <1>2 DEF daemonQuit, destroy, finished, errorCode, Object
  <2> HIDE DEF r
  <2>2. t \in Foreign /\ s.exits = <<>>
    BY <1>2 DEF Fresh
  <2>3. c = "none" /\ None(q, t, "error") /\ Steady(t, s, c, v, q)
    BY <2>2 DEF Stage, Answers, Calm, Steady
  <2>4. OneReport(r.exits)
    BY <2>1, <2>2, FirstReport DEF Exit
  <2>5. Calm(t, r, c, v, q)
    BY <2>1, <2>3, <2>4, ReportedCalm
  <2> QED  BY <2>5 DEF r
<1> QED  BY <1>1, <1>2

(***************************************************************************)
(* What the application does                                               *)
(***************************************************************************)
(* A factory method makes the object.                                      *)
LEMMA CreatedCalm ==
  ASSUME NEW t \in Own, NEW s \in Object, NEW c, NEW v, NEW q, s.obj = "none", ObjectInv(s),
         Stage(t, s, c, v, q), Calm(t, s, c, v, q)
  PROVE  Calm(t, [s EXCEPT !.obj = "live"], "create", v, q)
<1> DEFINE r == [s EXCEPT !.obj = "live"]
<1>1. ~r.p /\ r.exits = <<>>
  BY DEF Object, ObjectInv, Reported
<1> HIDE DEF r
<1>2. v = "absent"
  BY DEF Stage, Answers
<1>3. Len(r.exits) <= 1
  <2>1. Len(r.exits) = 0
    BY <1>1
  <2> QED  BY <2>1
<1>4. Once(t, r, "create", q)
  BY <1>1, <1>3 DEF Once
<1>5. Steady(t, r, "create", v, q)
  BY <1>1, <1>2 DEF Calm, Steady
<1>6. Warned(t, r, v, q)
  BY <1>1 DEF Warned
<1> QED  BY <1>4, <1>5, <1>6 DEF Calm, r

(* An object is attached to the tid of another client: it has nothing to   *)
(* hear that was posted before.                                            *)
LEMMA AttachedCalm ==
  ASSUME NEW t \in Foreign, NEW s \in Object, NEW c, NEW v, NEW q, s.obj = "none",
         ObjectInv(s), v # "absent", Stage(t, s, c, v, q), Calm(t, s, c, v, q)
  PROVE  Calm(t, setup([s EXCEPT !.obj = "live"]), c, v, q)
<1> DEFINE r == setup([s EXCEPT !.obj = "live"])
<1>1. r.exits = <<>>
  BY DEF Object, ObjectInv, Reported, setup
<1> HIDE DEF r
<1>2. None(q, t, "finish")
  BY DEF Stage, Answers, Marks
<1>3. Len(r.exits) <= 1
  <2>1. Len(r.exits) = 0
    BY <1>1
  <2> QED  BY <2>1
<1>4. Once(t, r, c, q)
  BY <1>1, <1>3 DEF Once
<1>5. Steady(t, r, c, v, q)
  BY DEF Calm, Steady
<1>6. Fresh(t, r) /\ Unheard(q, t)
  <2>1. \A i \in 1..Len(q), j \in 1..Len(q) : j < i => Mark(q[j], t) # "finish"
    BY <1>2 DEF None
  <2> QED  BY <1>1, <2>1 DEF Fresh, Unheard
<1>7. Warned(t, r, v, q)
  BY <1>2, <1>6 DEF Warned
<1> QED  BY <1>4, <1>5, <1>7 DEF Calm, r

(***************************************************************************)
(* What the daemon does                                                    *)
(***************************************************************************)
(* The transaction moves while its tid is not on its way; it is not        *)
(* forgotten.                                                              *)
LEMMA MovedCalm ==
  ASSUME NEW t, NEW s, NEW c, NEW v, NEW q, Calm(t, s, c, v, q), ~HasGrant(q, t),
         v \notin {"gone", "lost"},
         NEW d \in {"none", "late"}, NEW w \in {"idle", "running", "done"}
  PROVE  Calm(t, s, d, w, q)
<1>1. Once(t, s, d, q)
  BY DEF Calm, Once
<1>2. Steady(t, s, d, w, q)
  BY DEF Calm, Steady
<1>3. Warned(t, s, w, q)
  BY DEF Calm, Warned
<1> QED  BY <1>1, <1>2, <1>3 DEF Calm

(* The call is over.                                                       *)
LEMMA CallOver ==
  ASSUME NEW t, NEW s, NEW c, NEW v, NEW q, Calm(t, s, c, v, q)
  PROVE  Calm(t, s, "none", v, q)
<1>1. Once(t, s, "none", q)
  BY DEF Calm, Once
<1>2. Steady(t, s, "none", v, q)
  BY DEF Calm, Steady
<1> QED  BY <1>1, <1>2 DEF Calm

(* CreateTransaction is answered with a tid, for which the daemon keeps an *)
(* idle transaction: no daemon of which a loss tells had it.               *)
LEMMA GrantedCalm ==
  ASSUME NEW t, NEW s, NEW v, NEW q \in Seq(AnyEvent), NEW e \in AnyEvent,
         Stage(t, s, "create", v, q), Calm(t, s, "create", v, q), Granted(e, t)
  PROVE  Calm(t, s, "none", "idle", Append(q, e))
<1> DEFINE r == Append(q, e)
<1>1. v = "absent" /\ ~s.p /\ s.exits = <<>>
  BY DEF Calm, Steady, Stage, Answers
<1>2. ~HasGrant(q, t) /\ ~HasDestroy(q, t)
  BY <1>1 DEF Calm, Steady
<1>3. Mark(e, t) = "create" /\ ~Destroys(e, t) /\ ~Lost(e)
  BY KindsApart
<1>4. /\ None(r, t, "error") <=> None(q, t, "error")
      /\ ~HasDestroy(r, t)
      /\ LossesFirst(q, t) => LossesFirst(r, t)
      /\ ErrorsFirst(q, t) => ErrorsFirst(r, t)
  BY <1>2, <1>3, OrderPosted
<1> HIDE DEF r
<1>5. Once(t, s, "none", r)
  BY <1>1 DEF Calm, Once
<1>6. Steady(t, s, "none", "idle", r)
  BY <1>4 DEF Calm, Steady
<1>7. Warned(t, s, "idle", r)
  BY <1>1 DEF Warned
<1> QED  BY <1>5, <1>6, <1>7 DEF Calm, r

(* The failure of a method call is posted, before Destroy.                 *)
LEMMA ErrorPosted ==
  ASSUME NEW t, NEW s, NEW c, NEW v, NEW q \in Seq(AnyEvent), NEW e \in AnyEvent,
         Calm(t, s, c, v, q), Mark(e, t) = "error", s.exits = <<>>, t \notin Foreign,
         v \notin {"gone", "lost"}
  PROVE  Calm(t, s, c, v, Append(q, e))
<1> DEFINE r == Append(q, e)
<1>1. ~HasDestroy(q, t)
  BY DEF Calm, Steady
<1>2. ~Granted(e, t) /\ ~Destroys(e, t) /\ ~Lost(e)
  BY KindsApart
<1>3. /\ HasGrant(r, t) <=> HasGrant(q, t)
      /\ HasDestroy(r, t) <=> HasDestroy(q, t)
      /\ LossesFirst(q, t) => LossesFirst(r, t)
      /\ ErrorsFirst(q, t) => ErrorsFirst(r, t)
      /\ Ended(q, t) => Ended(r, t)
      /\ Unheard(q, t) => Unheard(r, t)
  BY <1>1, <1>2, OrderPosted
<1> HIDE DEF r
<1>4. Once(t, s, c, r)
  BY DEF Calm, Once
<1>5. Steady(t, s, c, v, r)
  BY <1>3 DEF Calm, Steady
<1>6. Warned(t, s, v, r)
  BY <1>3 DEF Calm, Warned
<1> QED  BY <1>4, <1>5, <1>6 DEF Calm, r

(* A transaction that is over is destroyed; who has a proxy is told, or it *)
(* has heard nothing and will hear nothing.                                *)
LEMMA DestroyedCalm ==
  ASSUME NEW t, NEW s, NEW c, NEW q \in Seq(AnyEvent), NEW e \in AnyEvent,
         Calm(t, s, c, "done", q), Destroys(e, t)
  PROVE  /\ ~s.p \/ (Fresh(t, s) /\ None(q, t, "finish")) => Calm(t, s, c, "gone", q)
         /\ s.p => Calm(t, s, c, "gone", Append(q, e))
<1> DEFINE r == Append(q, e)
<1>1. ~HasGrant(q, t) /\ c \notin {"run", "create"}
  BY DEF Calm, Steady
<1>2. Mark(e, t) = NoMark /\ ~Lost(e) /\ ~Granted(e, t)
  BY KindsApart
<1>3. /\ \A m : None(r, t, m) <=> None(q, t, m) /\ Mark(e, t) # m
      /\ HasGrant(r, t) <=> HasGrant(q, t)
      /\ HasDestroy(r, t)
      /\ LossesFirst(q, t) => LossesFirst(r, t)
      /\ ErrorsFirst(q, t) => ErrorsFirst(r, t)
      /\ Ended(q, t) => Ended(r, t)
      /\ Unheard(q, t) => Unheard(r, t)
  BY <1>2, OrderPosted DEF NoMark
<1> HIDE DEF r
<1>4. Mark(e, t) # "error"
  BY <1>2 DEF NoMark
<1>5. ASSUME ~s.p \/ (Fresh(t, s) /\ None(q, t, "finish"))
      PROVE  Calm(t, s, c, "gone", q)
  <2>1. Steady(t, s, c, "gone", q)
    BY <1>1 DEF Calm, Steady
  <2>2. Warned(t, s, "gone", q)
    BY <1>5 DEF Calm, Warned
  <2> QED  BY <2>1, <2>2 DEF Calm
<1>6. ASSUME s.p
      PROVE  Calm(t, s, c, "gone", r)
  <2>1. Once(t, s, c, r)
    BY <1>3, <1>4 DEF Calm, Once
  <2>2. Steady(t, s, c, "gone", r)
    BY <1>1, <1>3, <1>4 DEF Calm, Steady
  <2>3. Warned(t, s, "gone", r)
    BY <1>3 DEF Calm, Warned
  <2> QED  BY <2>1, <2>2, <2>3 DEF Calm
<1> QED  BY <1>5, <1>6 DEF r

(* The daemon is lost when it has nothing to do: Destroy is on its way to  *)
(* every object that still has a proxy, or the object has nothing to hear. *)
LEMMA LossPosted ==
  ASSUME NEW t, NEW s, NEW c, NEW v \in {"absent", "gone", "lost"}, NEW q \in Seq(AnyEvent),
         NEW e \in AnyEvent, Calm(t, s, c, v, q), Lost(e)
  PROVE  Calm(t, s, c, v, Append(q, e))
<1> DEFINE r == Append(q, e)
<1>1. ~HasGrant(q, t)
  BY DEF Calm, Steady
<1>2. Mark(e, t) = NoMark /\ ~Granted(e, t) /\ ~Destroys(e, t)
  BY KindsApart
<1>3. s.p => HasDestroy(q, t) \/ (Fresh(t, s) /\ None(q, t, "finish"))
  BY DEF Calm, Steady, Warned
<1>4. /\ \A m : None(r, t, m) <=> None(q, t, m) /\ Mark(e, t) # m
      /\ HasGrant(r, t) <=> HasGrant(q, t)
      /\ HasDestroy(r, t) <=> HasDestroy(q, t)
      /\ LossesFirst(q, t) => LossesFirst(r, t)
      /\ ErrorsFirst(q, t) => ErrorsFirst(r, t)
      /\ Ended(q, t) /\ HasDestroy(q, t) => Ended(r, t)
      /\ Unheard(q, t) /\ (HasDestroy(q, t) \/ None(q, t, "finish")) => Unheard(r, t)
  BY <1>1, <1>2, OrderPosted DEF NoMark
<1>5. Mark(e, t) \notin Marks
  BY <1>2 DEF NoMark, Marks
<1>6. /\ None(r, t, "error") <=> None(q, t, "error")
      /\ None(r, t, "finish") <=> None(q, t, "finish")
  BY <1>4, <1>5 DEF Marks
<1> HIDE DEF r
<1>7. Once(t, s, c, r)
  BY <1>6 DEF Calm, Once
<1>8. Steady(t, s, c, v, r)
  BY <1>4, <1>6 DEF Calm, Steady
<1>9. Warned(t, s, v, r)
  BY <1>3, <1>4, <1>6 DEF Calm, Warned
<1> QED  BY <1>7, <1>8, <1>9 DEF Calm, r

(* What the daemon has forgotten is lost with it.                          *)
LEMMA LostCalm ==
  ASSUME NEW t, NEW s, NEW c, NEW q, Calm(t, s, c, "gone", q)
  PROVE  Calm(t, s, c, "lost", q)
<1>1. Steady(t, s, c, "lost", q)
  BY DEF Calm, Steady
<1>2. Warned(t, s, "lost", q)
  BY DEF Calm, Warned
<1> QED  BY <1>1, <1>2 DEF Calm

(***************************************************************************)
(* The rules that the bus has taken                                        *)
(***************************************************************************)
(* The rule for Destroy is the first that an object sends, so the bus has  *)
(* it when the daemon gets the method call, and when the object of another *)
(* client's transaction hears Finished.                                    *)
Rules(t, s, v, q) ==
  /\ s.p \/ s.wire # <<>> =>
       "Destroy" \in s.wired \/ (s.wire # <<>> /\ "Destroy" \in Head(s.wire))
  /\ "Finished" \in s.wired => "Destroy" \in s.wired
  /\ t \in Own /\ v \in {"running", "done"} => "Destroy" \in s.wired
  /\ t \in Foreign /\ s.p =>
       "Destroy" \in s.wired \/ (s.exits = <<>> /\ None(q, t, "finish"))

RulesInv == \A t \in Txn : Rules(t, tx[t], srv[t], queue)

(* An event that is not Finished for t is posted, or one is taken.         *)
LEMMA RulesMoved ==
  ASSUME NEW t, NEW s, NEW v, NEW q \in Seq(AnyEvent), Rules(t, s, v, q)
  PROVE  /\ \A e \in AnyEvent : Mark(e, t) # "finish" => Rules(t, s, v, Append(q, e))
         /\ q # <<>> => Rules(t, s, v, Tail(q))
<1>1. ASSUME NEW e \in AnyEvent, Mark(e, t) # "finish"
      PROVE  Rules(t, s, v, Append(q, e))
  <2>1. None(q, t, "finish") => None(Append(q, e), t, "finish")
    BY <1>1, OrderPosted
  <2> QED  BY <2>1 DEF Rules
<1>2. ASSUME q # <<>>
      PROVE  Rules(t, s, v, Tail(q))
  <2>1. None(q, t, "finish") => None(Tail(q), t, "finish")
    BY <1>2, OrderTaken
  <2> QED  BY <2>1 DEF Rules
<1> QED  BY <1>1, <1>2

(* The slots leave the rules alone, and report with the proxy kept only    *)
(* what has come through it.                                               *)
LEMMA RulesKept ==
  ASSUME NEW t, NEW s, NEW r, NEW v, NEW q, Rules(t, s, v, q),
         r.p => s.p, r.wire = s.wire, r.wired = s.wired,
         r.p => r.exits = s.exits \/ t \notin Foreign \/ "Destroy" \in s.wired
  PROVE  Rules(t, r, v, q)
  BY DEF Rules

(* setup() sends the rule for Destroy.                                     *)
LEMMA RulesSent ==
  ASSUME NEW t, NEW s \in Object, NEW v, NEW q, Rules(t, s, v, q),
         t \in Foreign => s.exits = <<>> /\ None(q, t, "finish")
  PROVE  Rules(t, setup(s), v, q)
<1> DEFINE r == setup(s)
<1>1. /\ r.wire = <<IF s.connected THEN Rule ELSE {"Destroy"}>>
      /\ r.wired = s.wired /\ r.exits = s.exits
  BY DEF setup, Object
<1>2. r.wire # <<>> /\ "Destroy" \in Head(r.wire)
  BY <1>1 DEF Rule
<1> HIDE DEF r
<1>3. Rules(t, r, v, q)
  BY <1>1, <1>2 DEF Rules
<1> QED  BY <1>3 DEF r

(* A connection sends its rule behind the one for Destroy.                 *)
LEMMA RulesAdded ==
  ASSUME NEW t, NEW s \in Object, NEW v, NEW q, Rules(t, s, v, q)
  PROVE  Rules(t, connectNotify(s), v, q)
<1> DEFINE r == connectNotify(s)
<1>1. /\ r.wire = IF s.p THEN Append(s.wire, {"Finished"}) ELSE s.wire
      /\ r.wired = s.wired /\ r.exits = s.exits /\ r.p = s.p
      /\ s.wire \in Seq(SUBSET Rule)
  BY DEF connectNotify, Object
<1>2. s.wire # <<>> => Head(Append(s.wire, {"Finished"})) = Head(s.wire)
                       /\ Append(s.wire, {"Finished"}) # <<>>
  BY <1>1
<1> HIDE DEF r
<1>3. Rules(t, r, v, q)
  BY <1>1, <1>2 DEF Rules
<1> QED  BY <1>3 DEF r

(* The bus takes a burst.                                                  *)
LEMMA RulesTaken ==
  ASSUME NEW t, NEW s \in Object, NEW v, NEW q, Rules(t, s, v, q), s.wire # <<>>
  PROVE  Rules(t, taken(s), v, q)
<1> DEFINE r == taken(s)
<1>1. r.wired = s.wired \cup Head(s.wire) /\ r.exits = s.exits /\ r.p = s.p
  BY DEF taken, Object
<1> HIDE DEF r
<1>2. "Destroy" \in r.wired
  BY <1>1 DEF Rules
<1>3. Rules(t, r, v, q)
  BY <1>2 DEF Rules
<1> QED  BY <1>3 DEF r

(* A handler, an application's call or the bus leaves t with its rules.    *)
LEMMA RulesBecome ==
  ASSUME RepeatState, RulesInv, NEW t \in Txn, NEW s, NEW evs,
         evs = queue \/ (queue # <<>> /\ evs = Tail(queue)),
         Becomes(t, s, evs), UNCHANGED srv, Rules(t, s, srv[t], queue)
  PROVE  RulesInv'
<1>1. SUFFICES ASSUME NEW u \in Txn
               PROVE  Rules(u, tx'[u], srv[u], queue')
  BY DEF RulesInv
<1>2. tx \in [Txn -> Object] /\ queue \in Seq(AnyEvent)
  BY StateFacts DEF TypeOK
<1>3. Rules(u, tx'[u], srv[u], queue)
  BY <1>2 DEF Becomes, RulesInv
<1>4. Rules(u, tx'[u], srv[u], evs) /\ evs \in Seq(AnyEvent)
  <2>1. CASE evs = queue
    BY <1>2, <1>3, <2>1
  <2>2. CASE queue # <<>> /\ evs = Tail(queue)
    <3>1. Rules(u, tx'[u], srv[u], Tail(queue))
      BY <1>2, <1>3, <2>2, RulesMoved
    <3>2. Tail(queue) \in Seq(AnyEvent)
      BY <1>2, <2>2
    <3> QED  BY <2>2, <3>1, <3>2
  <2> QED  BY <2>1, <2>2
<1>5. Event("delete", t) \in AnyEvent /\ Mark(Event("delete", t), u) # "finish"
  BY DEF Event, AnyEvent, ObjectEvent, Mark, NoMark
<1>6. Rules(u, tx'[u], srv[u], Append(evs, Event("delete", t)))
  BY <1>4, <1>5, RulesMoved
<1> QED  BY <1>4, <1>6 DEF Becomes

(* The application's calls.                                                *)
LEMMA ApplicationRules ==
  ASSUME RepeatState, RulesInv, Application
  PROVE  RulesInv'
<1>1. PICK t \in Txn : Create(t) \/ Attach(t) \/ Connect(t) \/ Cancel(t)
  BY DEF Application
<1>2. /\ tx[t] \in Object /\ ObjectInv(tx[t]) /\ Rules(t, tx[t], srv[t], queue)
      /\ Stage(t, tx[t], call[t], srv[t], queue)
  BY StateFacts DEF RulesInv
<1> DEFINE born == [tx[t] EXCEPT !.obj = "live"]
<1>3. /\ born \in Object /\ born.p = tx[t].p /\ born.exits = tx[t].exits
      /\ born.wire = tx[t].wire /\ born.wired = tx[t].wired
  BY <1>2 DEF Object
<1>4. Rules(t, born, srv[t], queue)
  BY <1>2, <1>3, RulesKept
<1>5. CASE Create(t)
  <2>1. Becomes(t, born, queue) /\ UNCHANGED srv
    BY <1>5 DEF Create, External
  <2> HIDE DEF born
  <2> QED  BY <1>4, <2>1, RulesBecome
<1>6. CASE Attach(t)
  <2>1. Becomes(t, setup(born), queue) /\ UNCHANGED srv /\ tx[t].obj = "none"
    BY <1>6 DEF Attach, External
  <2> HIDE DEF born
  <2>2. born.exits = <<>>
    BY <1>2, <1>3, <2>1 DEF ObjectInv, Reported
  <2>3. None(queue, t, "finish")
    BY <1>2, <2>1 DEF Stage, Answers, Marks
  <2>4. Rules(t, setup(born), srv[t], queue)
    BY <1>3, <1>4, <2>2, <2>3, RulesSent
  <2> QED  BY <2>1, <2>4, RulesBecome
<1>7. CASE Connect(t)
  <2>1. Becomes(t, connectNotify(tx[t]), queue) /\ UNCHANGED srv
    BY <1>7 DEF Connect, External
  <2>2. Rules(t, connectNotify(tx[t]), srv[t], queue)
    BY <1>2, RulesAdded
  <2> QED  BY <2>1, <2>2, RulesBecome
<1>8. CASE Cancel(t)
  <2> DEFINE r == [tx[t] EXCEPT !.cancel = IF tx[t].p THEN "sent" ELSE "lost"]
  <2>1. /\ r.p = tx[t].p /\ r.exits = tx[t].exits
        /\ r.wire = tx[t].wire /\ r.wired = tx[t].wired
    BY <1>2 DEF Object
  <2>2. Becomes(t, r, queue) /\ UNCHANGED srv
    BY <1>8 DEF Cancel, External
  <2> HIDE DEF r
  <2>3. Rules(t, r, srv[t], queue)
    BY <1>2, <2>1, RulesKept
  <2> QED  BY <2>2, <2>3, RulesBecome
<1> QED  BY <1>1, <1>5, <1>6, <1>7, <1>8

(* What the slots do to the proxy and the rules.                           *)
LEMMA SlotsKeepRules ==
  ASSUME NEW s \in Object, NEW e, NEW a
  PROVE  /\ finished(s, e).wire = s.wire /\ finished(s, e).wired = s.wired
         /\ finished(s, e).p = s.p
         /\ finished(errorCode(s, a), e).wire = s.wire
         /\ finished(errorCode(s, a), e).wired = s.wired
         /\ destroy(s).wire = s.wire /\ destroy(s).wired = s.wired /\ ~destroy(s).p
         /\ callFailed(s, a).wire = s.wire /\ callFailed(s, a).wired = s.wired
         /\ ~callFailed(s, a).p
         /\ daemonQuit(s).wire = s.wire /\ daemonQuit(s).wired = s.wired /\ ~daemonQuit(s).p
  BY DEF Object, finished, errorCode, destroy, callFailed, daemonQuit

(* The handlers of the event loop.                                         *)
LEMMA HandlerRules ==
  ASSUME RepeatState, RulesInv, EventLoop
  PROVE  RulesInv'
<1>1. ASSUME NEW t \in Txn, CreateSucceeded(t) \/ DispatchFailed(t)
      PROVE  RulesInv'
  <2>1. Handling("createReply", t)
    BY <1>1 DEF CreateSucceeded, DispatchFailed
  <2>2. Mark(Head(queue), t) = "create" /\ queue # <<>>
    BY <2>1, HandledMark, HandledStage
  <2>3. t \notin Foreign
    BY <2>1, <2>2, HandledStage, MarkGone DEF Stage, Answers
  <2>4. Rules(t, setup(tx[t]), srv[t], queue) /\ setup(tx[t]) \in Object
    BY <2>1, <2>3, HandledStage, RulesSent, SetupTyped DEF RulesInv
  <2>5. CASE CreateSucceeded(t)
    <3>1. Becomes(t, setup(tx[t]), Tail(queue)) /\ UNCHANGED srv
      BY <2>5 DEF CreateSucceeded, External
    <3> QED  BY <2>2, <2>4, <3>1, RulesBecome
  <2>6. CASE DispatchFailed(t)
    <3> DEFINE r == finished(errorCode(setup(tx[t]), "InternalError"), "failed")
    <3>1. Becomes(t, r, Tail(queue)) /\ UNCHANGED srv
      BY <2>6 DEF DispatchFailed, External
    <3>2. r.wire = setup(tx[t]).wire /\ r.wired = setup(tx[t]).wired
      BY <2>4, SlotsKeepRules
    <3>3. setup(tx[t]).p
      BY <2>1, HandledStage DEF setup, Object
    <3> HIDE DEF r
    <3>4. Rules(t, r, srv[t], queue)
      BY <2>3, <2>4, <3>2, <3>3, RulesKept
    <3> QED  BY <2>2, <3>1, <3>4, RulesBecome
  <2> QED  BY <1>1, <2>5, <2>6
<1>2. ASSUME NEW t \in Txn, NEW r, Becomes(t, r, Tail(queue)) \/ Becomes(t, r, queue),
             queue # <<>> \/ Becomes(t, r, queue), UNCHANGED srv,
             ~r.p \/ r = tx[t], r.wire = tx[t].wire, r.wired = tx[t].wired
      PROVE  RulesInv'
  <2>1. Rules(t, r, srv[t], queue)
    BY <1>2, RulesKept DEF RulesInv
  <2> QED  BY <1>2, <2>1, RulesBecome
<1>3. ASSUME NEW t \in Txn, CreateFailed(t) \/ RunFailed(t)
      PROVE  RulesInv'
  <2> DEFINE r == callFailed(tx[t], Head(queue).arg)
  <2>1. Becomes(t, r, Tail(queue)) /\ UNCHANGED srv /\ queue # <<>>
    BY <1>3 DEF CreateFailed, RunFailed, External, Handling, Ready
  <2>2. ~r.p /\ r.wire = tx[t].wire /\ r.wired = tx[t].wired
    BY StateFacts, SlotsKeepRules
  <2> HIDE DEF r
  <2> QED  BY <1>2, <2>1, <2>2
<1>4. ASSUME NEW t \in Txn, RunSucceeded(t)
      PROVE  RulesInv'
  <2>1. Becomes(t, tx[t], Tail(queue)) /\ UNCHANGED srv /\ queue # <<>>
    BY <1>4 DEF RunSucceeded, External, Handling, Ready
  <2> QED  BY <1>2, <2>1
<1>5. ASSUME NEW t \in Txn, HandleFinished(t)
      PROVE  RulesInv'
  <2> DEFINE r == finished(tx[t], Head(queue).arg)
  <2>1. Becomes(t, r, Tail(queue)) /\ UNCHANGED srv /\ queue # <<>> /\ Handling("Finished", t)
        /\ tx[t].p
    BY <1>5 DEF HandleFinished, External, Handling, Ready, Deliverable
  <2>2. ~None(queue, t, "finish")
    BY <2>1, HandledMark, HandledStage, MarkGone
  <2>3. t \notin Foreign \/ "Destroy" \in tx[t].wired
    BY <2>1, <2>2 DEF RulesInv, Rules
  <2>4. r.p = tx[t].p /\ r.wire = tx[t].wire /\ r.wired = tx[t].wired
    BY StateFacts, SlotsKeepRules
  <2> HIDE DEF r
  <2>5. Rules(t, r, srv[t], queue)
    BY <2>3, <2>4, RulesKept DEF RulesInv
  <2> QED  BY <2>1, <2>5, RulesBecome
<1>6. ASSUME NEW t \in Txn, HandleDestroy(t)
      PROVE  RulesInv'
  <2>1. Becomes(t, destroy(tx[t]), Tail(queue)) /\ UNCHANGED srv /\ queue # <<>>
    BY <1>6 DEF HandleDestroy, External, Handling, Ready
  <2> QED  BY <1>2, <2>1, StateFacts, SlotsKeepRules
<1>7. ASSUME NEW t \in Txn, HandleDelete(t)
      PROVE  RulesInv'
  <2> DEFINE r == [tx[t] EXCEPT !.obj = "deleted", !.p = FALSE]
  <2>1. Becomes(t, r, Tail(queue)) /\ UNCHANGED srv /\ queue # <<>>
    BY <1>7 DEF HandleDelete, External, Handling, Ready
  <2>2. ~r.p /\ r.wire = tx[t].wire /\ r.wired = tx[t].wired
    BY StateFacts DEF Object
  <2> HIDE DEF r
  <2> QED  BY <1>2, <2>1, <2>2
<1>8. ASSUME NEW t \in Txn, DaemonQuit(t)
      PROVE  RulesInv'
  <2>1. Becomes(t, daemonQuit(tx[t]), queue) /\ UNCHANGED srv
    BY <1>8 DEF DaemonQuit, External
  <2> QED  BY <1>2, <2>1, StateFacts, SlotsKeepRules
<1>9. ASSUME OwnerChanged \/ Discard
      PROVE  RulesInv'
  <2>1. queue # <<>> /\ queue' = Tail(queue) /\ UNCHANGED <<tx, srv>>
    BY <1>9 DEF OwnerChanged, Discard, Ready, External
  <2>2. ASSUME NEW u \in Txn  PROVE Rules(u, tx[u], srv[u], Tail(queue))
    BY <2>1, StateFacts, RulesMoved DEF RulesInv
  <2> QED  BY <2>1, <2>2 DEF RulesInv
<1> QED
  BY <1>1, <1>3, <1>4, <1>5, <1>6, <1>7, <1>8, <1>9 DEF EventLoop

(* The daemon moves t and may post an event about it: it runs an own       *)
(* transaction only if the bus has the rule for Destroy, and a client      *)
(* hears Finished only then.                                               *)
LEMMA DaemonRules ==
  ASSUME RepeatState, RulesInv, NEW t \in Txn, NEW v, NEW e \in AnyEvent, UNCHANGED tx,
         e.kind # "owner", e.t = t, srv' = [srv EXCEPT ![t] = v],
         queue' = queue \/ queue' = Append(queue, e),
         t \in Own /\ v \in {"running", "done"} => "Destroy" \in tx[t].wired,
         queue' = queue \/ Mark(e, t) # "finish" \/ "Destroy" \in tx[t].wired
  PROVE  RulesInv'
<1>1. SUFFICES ASSUME NEW u \in Txn
               PROVE  Rules(u, tx[u], srv'[u], queue')
  BY DEF RulesInv
<1>2. /\ srv \in [Txn -> {"absent", "idle", "running", "done", "gone", "lost"}]
      /\ queue \in Seq(AnyEvent) /\ Rules(u, tx[u], srv[u], queue)
  BY StateFacts DEF TypeOK, RulesInv
<1>3. Rules(u, tx[u], srv'[u], queue)
  BY <1>2 DEF Rules
<1>4. CASE Mark(e, u) # "finish"
  BY <1>2, <1>3, <1>4, RulesMoved
<1>5. CASE queue' = queue
  BY <1>3, <1>5
<1>6. CASE Mark(e, u) = "finish" /\ "Destroy" \in tx[t].wired
  <2>1. u = t
    BY <1>6 DEF Mark, About, NoMark
  <2> QED  BY <1>3, <1>6, <2>1 DEF Rules
<1>7. Mark(e, u) = "finish" => u = t
  BY DEF Mark, About, NoMark
<1> QED  BY <1>4, <1>5, <1>6, <1>7

(* The daemon and the bus about one transaction.                           *)
LEMMA DaemonOfRules ==
  ASSUME RepeatState, RulesInv, NEW t \in Txn, DaemonOf(t) \/ ForeignBegin(t)
  PROVE  RulesInv'
<1>1. /\ srv = [srv EXCEPT ![t] = srv[t]] /\ Rules(t, tx[t], srv[t], queue)
      /\ t \in Foreign => t \notin Own
  BY StateFacts, OwnershipAssumption DEF TypeOK, RulesInv
<1>2. CASE AnswerCreate(t)
  <2>1. /\ UNCHANGED tx /\ srv' = [srv EXCEPT ![t] = "idle"]
        /\ queue' = Append(queue, EventWith("createReply", t, "ok"))
    BY <1>2 DEF AnswerCreate, Reply
  <2> QED  BY <2>1, PostedEvents, DaemonRules
<1>3. CASE FailCreate(t) \/ FailRun(t)
  <2>1. PICK k \in {"createReply", "runReply"}, a \in {"denied", "error"} :
             queue' = Append(queue, EventWith(k, t, a))
    BY <1>3 DEF FailCreate, FailRun, Reply
  <2>2. UNCHANGED <<tx, srv>>
    BY <1>3 DEF FailCreate, FailRun, External
  <2> DEFINE e == EventWith(k, t, a)
  <2>3. e \in AnyEvent /\ e.kind # "owner" /\ e.t = t /\ Mark(e, t) # "finish"
    BY PostedEvents
  <2> HIDE DEF e
  <2>4. t \in Own /\ srv[t] \in {"running", "done"} => "Destroy" \in tx[t].wired
    BY <1>1 DEF Rules
  <2> QED  BY <1>1, <2>1, <2>2, <2>3, <2>4, DaemonRules DEF e
<1>4. CASE AcceptRun(t)
  <2> DEFINE e == EventWith("runReply", t, "ok")
  <2>1. /\ UNCHANGED tx /\ srv' = [srv EXCEPT ![t] = "running"]
        /\ queue' = queue \/ queue' = Append(queue, e)
        /\ "Destroy" \in tx[t].wired
    BY <1>4 DEF AcceptRun, Reply, Called
  <2>2. e \in AnyEvent /\ e.kind # "owner" /\ e.t = t
    BY PostedEvents
  <2> HIDE DEF e
  <2> QED  BY <2>1, <2>2, DaemonRules
<1>5. CASE RejectRun(t)
  <2>1. PICK a \in {"denied", "error"} : queue' = Append(queue, EventWith("runReply", t, a))
    BY <1>5 DEF RejectRun, Reply
  <2> DEFINE e == EventWith("runReply", t, a)
  <2>2. UNCHANGED tx /\ srv' = [srv EXCEPT ![t] = "done"] /\ "Destroy" \in tx[t].wired
    BY <1>5 DEF RejectRun, Called
  <2>3. e \in AnyEvent /\ e.kind # "owner" /\ e.t = t
    BY PostedEvents
  <2> HIDE DEF e
  <2> QED  BY <2>1, <2>2, <2>3, DaemonRules DEF e
<1>6. ASSUME NEW x \in Verdict, FinishRun(t, x)
      PROVE  RulesInv'
  <2> DEFINE e == EventWith("Finished", t, x)
  <2>1. /\ UNCHANGED tx /\ srv[t] = "running" /\ srv' = [srv EXCEPT ![t] = "done"]
        /\ queue' = IF tx[t].p /\ "Finished" \in tx[t].wired THEN Append(queue, e) ELSE queue
    BY <1>6 DEF FinishRun
  <2>2. e \in AnyEvent /\ e.kind # "owner" /\ e.t = t
    BY PostedEvents
  <2> HIDE DEF e
  <2>3. /\ t \in Own => "Destroy" \in tx[t].wired
        /\ queue' = queue \/ "Destroy" \in tx[t].wired
    BY <1>1, <2>1 DEF Rules
  <2> QED  BY <2>1, <2>2, <2>3, DaemonRules
<1>7. CASE DestroyTid(t)
  <2> DEFINE e == Event("Destroy", t)
  <2>1. /\ UNCHANGED tx /\ srv' = [srv EXCEPT ![t] = "gone"]
        /\ queue' = queue \/ queue' = Append(queue, e)
    BY <1>7 DEF DestroyTid
  <2>2. e \in AnyEvent /\ e.kind # "owner" /\ e.t = t /\ Mark(e, t) # "finish"
    BY PostedEvents DEF NoMark
  <2> HIDE DEF e
  <2> QED  BY <2>1, <2>2, DaemonRules
<1>8. CASE ForeignBegin(t)
  <2> DEFINE e == Event("Destroy", t)
  <2>1. /\ UNCHANGED <<tx, queue>> /\ srv' = [srv EXCEPT ![t] = "running"] /\ t \in Foreign
    BY <1>8 DEF ForeignBegin
  <2>2. e \in AnyEvent /\ e.kind # "owner" /\ e.t = t
    BY PostedEvents
  <2> HIDE DEF e
  <2> QED  BY <1>1, <2>1, <2>2, DaemonRules
<1> QED  BY <1>2, <1>3, <1>4, <1>5, <1>6, <1>7, <1>8 DEF DaemonOf

(* The rules are in place in every behaviour.                              *)
LEMMA RulesInvariant == Spec => [](RepeatState /\ RulesInv)
<1>1. Init => RulesInv
  BY DEF Init, RulesInv, Rules, NoObject, None
<1>2. RepeatState /\ RulesInv /\ [Next]_vars => RulesInv'
  <2> SUFFICES ASSUME RepeatState, RulesInv, [Next]_vars  PROVE RulesInv'
    OBVIOUS
  <2>1. CASE Application
    BY <2>1, ApplicationRules
  <2>2. CASE EventLoop
    BY <2>2, HandlerRules
  <2>3. CASE Bus
    <3>1. PICK t \in Txn : TakeRules(t)
      BY <2>3 DEF Bus
    <3>2. Becomes(t, taken(tx[t]), queue) /\ UNCHANGED srv /\ tx[t].wire # <<>>
      BY <3>1 DEF TakeRules, External
    <3>3. Rules(t, taken(tx[t]), srv[t], queue)
      BY <3>2, StateFacts, RulesTaken DEF RulesInv
    <3> QED  BY <3>2, <3>3, RulesBecome
  <2>4. CASE Daemon
    <3>1. ASSUME LoseOwner \/ StartOwner
          PROVE  RulesInv'
      <4>1. PICK old \in BOOLEAN, new \in BOOLEAN : OwnerChange(old, new)
        BY <3>1 DEF LoseOwner, StartOwner
      <4> DEFINE e == [kind |-> "owner", old |-> old, new |-> new]
      <4>2. e \in AnyEvent /\ (\A u : Mark(e, u) # "finish")
        BY DEF OwnerEvent, AnyEvent, Mark, About, NoMark
      <4>3. UNCHANGED tx /\ queue' = Append(queue, e)
        BY <4>1 DEF OwnerChange
      <4> HIDE DEF e
      <4>4. ASSUME NEW u \in Txn
            PROVE  Rules(u, tx[u], srv'[u], Append(queue, e))
        <5>1. srv'[u] = srv[u] \/ srv'[u] = "lost"
          <6>1. CASE LoseOwner
            <7>1. srv' = [t \in Txn |-> IF srv[t] = "absent" THEN "absent" ELSE "lost"]
              BY <6>1 DEF LoseOwner
            <7> QED  BY <7>1
          <6>2. CASE StartOwner
            BY <6>2 DEF StartOwner
          <6> QED  BY <3>1, <6>1, <6>2
        <5>2. Rules(u, tx[u], srv'[u], queue)
          BY <5>1 DEF RulesInv, Rules
        <5> QED  BY <4>2, <5>2, StateFacts, RulesMoved
      <4> QED  BY <4>3, <4>4 DEF RulesInv
    <3> QED  BY <2>4, <3>1, DaemonOfRules DEF Daemon
  <2>5. CASE UNCHANGED vars
    BY <2>5 DEF vars, RulesInv
  <2> QED  BY <2>1, <2>2, <2>3, <2>4, <2>5 DEF Next
<1> QED  BY <1>1, <1>2, RepeatInvariant, PTL DEF Spec

(***************************************************************************)
(* Every step of a patient daemon keeps it                                 *)
(***************************************************************************)
CalmState == RepeatState /\ RulesInv /\ CalmInv /\ QuitInv

(* What the invariant says of one object.                                  *)
LEMMA CalmFacts ==
  ASSUME CalmState, NEW t \in Txn
  PROVE  /\ RepeatState /\ TypeOK /\ queue \in Seq(AnyEvent)
         /\ tx[t] \in Object /\ ObjectInv(tx[t])
         /\ Stage(t, tx[t], call[t], srv[t], queue)
         /\ Calm(t, tx[t], call[t], srv[t], queue)
         /\ Rules(t, tx[t], srv[t], queue)
  BY StateFacts DEF CalmState, CalmInv, RulesInv

(* A handler leaves t calm; a deletion is nothing to anybody.              *)
LEMMA BecomesCalm ==
  ASSUME CalmState, NEW t \in Txn, NEW s, NEW c, NEW evs \in Seq(AnyEvent),
         Becomes(t, s, evs), call' = [call EXCEPT ![t] = c], UNCHANGED srv,
         Calm(t, s, c, srv[t], evs),
         \A u \in Txn : u # t => Calm(u, tx[u], call[u], srv[u], evs)
  PROVE  CalmInv'
<1>1. SUFFICES ASSUME NEW u \in Txn
               PROVE  Calm(u, tx'[u], call'[u], srv[u], queue')
  BY DEF CalmInv
<1>2. tx \in [Txn -> Object] /\ call \in [Txn -> {"none", "create", "run", "late"}]
  BY CalmFacts DEF TypeOK
<1>3. Calm(u, tx'[u], call'[u], srv[u], evs)
  BY <1>2 DEF Becomes
<1> DEFINE e == Event("delete", t)
<1>4. /\ e \in AnyEvent /\ ~Granted(e, u) /\ ~Destroys(e, u) /\ ~Lost(e)
      /\ Mark(e, u) # "error" /\ Mark(e, u) # "finish"
  BY DEF Event, AnyEvent, ObjectEvent, Granted, Destroys, Lost, Mark, NoMark
<1> HIDE DEF e
<1>5. Calm(u, tx'[u], call'[u], srv[u], Append(evs, e))
  BY <1>3, <1>4, CalmPosted
<1> QED  BY <1>3, <1>5 DEF Becomes, e

(* What the handler of an event for t starts from, and what it has to show. *)
LEMMA HandledCalm ==
  ASSUME CalmState, NEW t \in Txn, NEW k, k # "owner", Handling(k, t)
  PROVE  /\ queue \in Seq(AnyEvent) /\ queue # <<>>
         /\ tx[t] \in Object /\ ObjectInv(tx[t])
         /\ Stage(t, tx[t], call[t], srv[t], queue)
         /\ Calm(t, tx[t], call[t], srv[t], queue)
         /\ \A s, c : /\ Becomes(t, s, Tail(queue)) /\ UNCHANGED srv
                      /\ call' = [call EXCEPT ![t] = c]
                      /\ Calm(t, s, c, srv[t], Tail(queue))
                      => CalmInv'
         /\ \A s : /\ Becomes(t, s, Tail(queue)) /\ UNCHANGED <<call, srv>>
                   /\ Calm(t, s, call[t], srv[t], Tail(queue))
                   => CalmInv'
<1>1. queue # <<>> /\ Head(queue).t = t
  BY DEF Handling, Ready
<1>2. Tail(queue) \in Seq(AnyEvent)
  BY <1>1, CalmFacts
<1>3. ASSUME NEW u \in Txn, u # t
      PROVE  Calm(u, tx[u], call[u], srv[u], Tail(queue))
  <2>1. ~Destroys(Head(queue), u)
    BY <1>1, <1>3 DEF Destroys
  <2> QED  BY <1>1, <2>1, CalmFacts, CalmTaken
<1>4. ASSUME NEW s, NEW c, Becomes(t, s, Tail(queue)), UNCHANGED srv,
             call' = [call EXCEPT ![t] = c], Calm(t, s, c, srv[t], Tail(queue))
      PROVE  CalmInv'
  BY <1>2, <1>3, <1>4, BecomesCalm
<1>5. call = [call EXCEPT ![t] = call[t]]
  BY CalmFacts DEF TypeOK
<1>6. ASSUME NEW s, Becomes(t, s, Tail(queue)), UNCHANGED <<call, srv>>,
             Calm(t, s, call[t], srv[t], Tail(queue))
      PROVE  CalmInv'
  BY <1>4, <1>5, <1>6
<1> QED  BY <1>1, <1>4, <1>6, CalmFacts

(* The daemon moves t and may post an event about it.                      *)
LEMMA DaemonCalm ==
  ASSUME CalmState, NEW t \in Txn, NEW c, NEW v, NEW e \in AnyEvent, UNCHANGED tx,
         e.kind # "owner", e.t = t,
         call' = [call EXCEPT ![t] = c], srv' = [srv EXCEPT ![t] = v],
         queue' = queue \/ queue' = Append(queue, e),
         Calm(t, tx[t], c, v, queue')
  PROVE  CalmInv'
<1>1. SUFFICES ASSUME NEW u \in Txn
               PROVE  Calm(u, tx[u], call'[u], srv'[u], queue')
  BY DEF CalmInv
<1>2. /\ call \in [Txn -> {"none", "create", "run", "late"}]
      /\ srv \in [Txn -> {"absent", "idle", "running", "done", "gone", "lost"}]
  BY CalmFacts DEF TypeOK
<1>3. CASE u = t
  BY <1>2, <1>3
<1>4. CASE u # t
  <2>1. /\ ~Granted(e, u) /\ ~Destroys(e, u) /\ ~Lost(e)
        /\ Mark(e, u) # "error" /\ Mark(e, u) # "finish"
    BY <1>4 DEF Granted, Destroys, Lost, Mark, About, NoMark
  <2>2. Calm(u, tx[u], call[u], srv[u], Append(queue, e))
    BY <2>1, CalmFacts, CalmPosted
  <2> QED  BY <1>2, <1>4, <2>2, CalmFacts
<1> QED  BY <1>3, <1>4

(* The application's calls.                                                *)
LEMMA ApplicationCalm ==
  ASSUME CalmState, Application
  PROVE  CalmInv'
<1>1. PICK t \in Txn : Create(t) \/ Attach(t) \/ Connect(t) \/ Cancel(t)
  BY DEF Application
<1>2. /\ queue \in Seq(AnyEvent) /\ tx[t] \in Object /\ ObjectInv(tx[t])
      /\ Stage(t, tx[t], call[t], srv[t], queue)
      /\ \A u \in Txn : Calm(u, tx[u], call[u], srv[u], queue)
      /\ [call EXCEPT ![t] = call[t]] = call
  BY CalmFacts DEF TypeOK
<1>3. CASE Create(t)
  <2>1. Calm(t, [tx[t] EXCEPT !.obj = "live"], "create", srv[t], queue)
    BY <1>2, <1>3, CreatedCalm DEF Create
  <2> QED  BY <1>2, <1>3, <2>1, BecomesCalm DEF Create, External
<1>4. CASE Attach(t)
  <2>1. Calm(t, setup([tx[t] EXCEPT !.obj = "live"]), call[t], srv[t], queue)
    BY <1>2, <1>4, AttachedCalm DEF Attach
  <2> QED  BY <1>2, <1>4, <2>1, BecomesCalm DEF Attach, External
<1>5. CASE Connect(t)
  <2> DEFINE r == connectNotify(tx[t])
  <2>1. r.p = tx[t].p /\ r.exits = tx[t].exits
    BY <1>2 DEF connectNotify, Object
  <2>2. Becomes(t, r, queue) /\ call' = call /\ UNCHANGED srv
    BY <1>5 DEF Connect, External
  <2> HIDE DEF r
  <2>3. Calm(t, r, call[t], srv[t], queue)
    BY <1>2, <2>1, AlikeCalm
  <2> QED  BY <1>2, <2>2, <2>3, BecomesCalm
<1>6. CASE Cancel(t)
  <2> DEFINE r == [tx[t] EXCEPT !.cancel = IF tx[t].p THEN "sent" ELSE "lost"]
  <2>1. r.p = tx[t].p /\ r.exits = tx[t].exits
    BY <1>2 DEF Object
  <2>2. Becomes(t, r, queue) /\ call' = call /\ UNCHANGED srv
    BY <1>6 DEF Cancel, External
  <2> HIDE DEF r
  <2>3. Calm(t, r, call[t], srv[t], queue)
    BY <1>2, <2>1, AlikeCalm
  <2> QED  BY <1>2, <2>2, <2>3, BecomesCalm
<1> QED  BY <1>1, <1>3, <1>4, <1>5, <1>6

(* The bus takes match rules.                                              *)
LEMMA BusCalm ==
  ASSUME CalmState, Bus
  PROVE  CalmInv'
<1>1. PICK t \in Txn : TakeRules(t)
  BY DEF Bus
<1>2. /\ queue \in Seq(AnyEvent) /\ tx[t] \in Object
      /\ \A u \in Txn : Calm(u, tx[u], call[u], srv[u], queue)
      /\ [call EXCEPT ![t] = call[t]] = call
  BY CalmFacts DEF TypeOK
<1> DEFINE r == taken(tx[t])
<1>3. r.p = tx[t].p /\ r.exits = tx[t].exits
  BY <1>2 DEF taken, Object
<1>4. Becomes(t, r, queue) /\ UNCHANGED <<call, srv>>
  BY <1>1 DEF TakeRules, External
<1> HIDE DEF r
<1>5. Calm(t, r, call[t], srv[t], queue)
  BY <1>2, <1>3, AlikeCalm
<1> QED  BY <1>2, <1>4, <1>5, BecomesCalm

(* The handlers of the event loop.                                         *)
LEMMA HandlerCalm ==
  ASSUME CalmState, EventLoop
  PROVE  CalmInv'
<1>1. ASSUME NEW t \in Txn, CreateSucceeded(t)
      PROVE  CalmInv'
  <2>1. Handling("createReply", t) /\ Granted(Head(queue), t)
    BY <1>1 DEF CreateSucceeded, Handling, Granted
  <2>2. Calm(t, setup(tx[t]), "run", srv[t], Tail(queue))
    BY <2>1, HandledCalm, SetupCalm
  <2>3. /\ Becomes(t, setup(tx[t]), Tail(queue)) /\ UNCHANGED srv
        /\ call' = [call EXCEPT ![t] = "run"]
    BY <1>1 DEF CreateSucceeded, External
  <2> QED  BY <2>1, <2>2, <2>3, HandledCalm
<1>2. ASSUME NEW t \in Txn, DispatchFailed(t)
      PROVE  CalmInv'
  <2> DEFINE r == finished(errorCode(setup(tx[t]), "InternalError"), "failed")
  <2>1. Handling("createReply", t) /\ Granted(Head(queue), t)
    BY <1>2 DEF DispatchFailed, Handling, Granted
  <2>2. Calm(t, r, call[t], srv[t], Tail(queue))
    BY <2>1, HandledCalm, DispatchCalm
  <2>3. Becomes(t, r, Tail(queue)) /\ UNCHANGED <<call, srv>>
    BY <1>2 DEF DispatchFailed, External
  <2> QED  BY <2>1, <2>2, <2>3, HandledCalm
<1>3. ASSUME NEW t \in Txn, CreateFailed(t) \/ RunFailed(t)
      PROVE  CalmInv'
  <2> DEFINE r == callFailed(tx[t], Head(queue).arg)
  <2>1. PICK k \in {"createReply", "runReply"} : Handling(k, t)
    BY <1>3 DEF CreateFailed, RunFailed
  <2>2. Mark(Head(queue), t) \in {"create", "error"}
    BY <1>3, <2>1, HandledMark DEF CreateFailed, RunFailed
  <2>3. Calm(t, r, call[t], srv[t], Tail(queue))
    BY <2>1, <2>2, HandledCalm, FailureCalm
  <2>4. Becomes(t, r, Tail(queue)) /\ UNCHANGED <<call, srv>>
    BY <1>3 DEF CreateFailed, RunFailed, External
  <2> QED  BY <2>1, <2>3, <2>4, HandledCalm
<1>4. ASSUME NEW t \in Txn, RunSucceeded(t)
      PROVE  CalmInv'
  <2>1. Handling("runReply", t) /\ ~Destroys(Head(queue), t)
    BY <1>4 DEF RunSucceeded, Handling, Destroys
  <2>2. Calm(t, tx[t], call[t], srv[t], Tail(queue))
    BY <2>1, HandledCalm, CalmTaken
  <2>3. Becomes(t, tx[t], Tail(queue)) /\ UNCHANGED <<call, srv>>
    BY <1>4 DEF RunSucceeded, External
  <2> QED  BY <2>1, <2>2, <2>3, HandledCalm
<1>5. ASSUME NEW t \in Txn, HandleFinished(t)
      PROVE  CalmInv'
  <2> DEFINE r == finished(tx[t], Head(queue).arg)
  <2>1. Handling("Finished", t)
    BY <1>5 DEF HandleFinished
  <2>2. Mark(Head(queue), t) = "finish" /\ tx[t].p /\ Head(queue).arg \in Exit
    BY <2>1, CalmFacts, HandledMark, VerdictTyped DEF Handling, Deliverable
  <2>3. Calm(t, r, call[t], srv[t], Tail(queue))
    BY <2>1, <2>2, HandledCalm, FinishedCalm
  <2>4. Becomes(t, r, Tail(queue)) /\ UNCHANGED <<call, srv>>
    BY <1>5 DEF HandleFinished, External
  <2> QED  BY <2>1, <2>3, <2>4, HandledCalm
<1>6. ASSUME NEW t \in Txn, HandleDestroy(t)
      PROVE  CalmInv'
  <2>1. Handling("Destroy", t) /\ Destroys(Head(queue), t) /\ tx[t].p
    BY <1>6 DEF HandleDestroy, Handling, Deliverable, Destroys
  <2>2. Calm(t, destroy(tx[t]), call[t], srv[t], Tail(queue))
    BY <2>1, HandledCalm, DestroyCalm
  <2>3. Becomes(t, destroy(tx[t]), Tail(queue)) /\ UNCHANGED <<call, srv>>
    BY <1>6 DEF HandleDestroy, External
  <2> QED  BY <2>1, <2>2, <2>3, HandledCalm
<1>7. ASSUME NEW t \in Txn, HandleDelete(t)
      PROVE  CalmInv'
  <2> DEFINE r == [tx[t] EXCEPT !.obj = "deleted", !.p = FALSE]
  <2>1. Handling("delete", t) /\ ~Destroys(Head(queue), t)
    BY <1>7 DEF HandleDelete, Handling, Destroys
  <2>2. Calm(t, tx[t], call[t], srv[t], Tail(queue))
    BY <2>1, HandledCalm, CalmTaken
  <2>3. ~r.p /\ r.exits = tx[t].exits
    BY <2>1, HandledCalm DEF Object
  <2>4. Becomes(t, r, Tail(queue)) /\ UNCHANGED <<call, srv>>
    BY <1>7 DEF HandleDelete, External
  <2> HIDE DEF r
  <2>5. Calm(t, r, call[t], srv[t], Tail(queue))
    BY <2>2, <2>3, AlikeCalm
  <2> QED  BY <2>1, <2>4, <2>5, HandledCalm
<1>8. ASSUME NEW t \in Txn, DaemonQuit(t)
      PROVE  CalmInv'
  <2>1. tx[t].p => Fresh(t, tx[t])
    BY <1>8 DEF DaemonQuit, CalmState, QuitInv
  <2>2. Calm(t, daemonQuit(tx[t]), call[t], srv[t], queue)
    BY <2>1, CalmFacts, QuitCalm
  <2>3. Becomes(t, daemonQuit(tx[t]), queue) /\ UNCHANGED <<call, srv>>
    BY <1>8 DEF DaemonQuit, External
  <2>4. call = [call EXCEPT ![t] = call[t]]
    BY CalmFacts DEF TypeOK
  <2> QED  BY <2>2, <2>3, <2>4, CalmFacts, BecomesCalm
<1>9. ASSUME OwnerChanged \/ Discard
      PROVE  CalmInv'
  <2>1. queue # <<>> /\ queue' = Tail(queue) /\ UNCHANGED <<tx, call, srv>>
    BY <1>9 DEF OwnerChanged, Discard, Ready, External
  <2>2. ASSUME NEW u \in Txn  PROVE Calm(u, tx[u], call[u], srv[u], Tail(queue))
    <3>1. tx[u].p => ~Destroys(Head(queue), u)
      BY <1>9 DEF OwnerChanged, Discard, Deliverable, Destroys
    <3> QED  BY <2>1, <3>1, CalmFacts, CalmTaken
  <2> QED  BY <2>1, <2>2 DEF CalmInv
<1> QED
  BY <1>1, <1>2, <1>3, <1>4, <1>5, <1>6, <1>7, <1>8, <1>9 DEF EventLoop

(* The daemon stays, and keeps every transaction until it is over.         *)
Patient == Faults \subseteq {"timeout", "unsent"}

(* What the daemon and the bus do about one transaction.                   *)
LEMMA DaemonOfCalm ==
  ASSUME Patient, CalmState, NEW t \in Txn, DaemonOf(t) \/ ForeignBegin(t)
  PROVE  CalmInv'
<1>1. /\ queue \in Seq(AnyEvent)
      /\ Stage(t, tx[t], call[t], srv[t], queue)
      /\ Calm(t, tx[t], call[t], srv[t], queue)
      /\ call = [call EXCEPT ![t] = call[t]] /\ srv = [srv EXCEPT ![t] = srv[t]]
      /\ call[t] \in {"none", "create", "run", "late"}
  BY CalmFacts DEF TypeOK
<1>2. HasGrant(queue, t) => call[t] = "none" /\ srv[t] = "idle"
  <2>1. HasGrant(queue, t) => ~None(queue, t, "create")
    BY <1>1, GrantMarked
  <2> QED  BY <1>1, <2>1 DEF Stage, Answers, Calm, Steady
<1>3. CASE AnswerCreate(t)
  <2> DEFINE e == EventWith("createReply", t, "ok")
  <2>1. e \in AnyEvent /\ e.kind # "owner" /\ e.t = t /\ Granted(e, t)
    BY PostedEvents DEF EventWith, Granted
  <2>2. /\ call[t] = "create" /\ call' = [call EXCEPT ![t] = "none"]
        /\ queue' = Append(queue, e) /\ srv' = [srv EXCEPT ![t] = "idle"] /\ UNCHANGED tx
    BY <1>3 DEF AnswerCreate, Reply
  <2> HIDE DEF e
  <2>3. Calm(t, tx[t], "none", "idle", Append(queue, e))
    BY <1>1, <2>1, <2>2, GrantedCalm
  <2> QED  BY <2>1, <2>2, <2>3, DaemonCalm
<1>4. CASE FailCreate(t)
  <2>1. PICK a \in {"denied", "error"} : Reply(t, "createReply", a, "none")
    BY <1>4 DEF FailCreate
  <2> DEFINE e == EventWith("createReply", t, a)
  <2>2. e \in AnyEvent /\ e.kind # "owner" /\ e.t = t /\ Mark(e, t) = "create"
    BY PostedEvents
  <2>3. ~Granted(e, t) /\ ~Destroys(e, t) /\ ~Lost(e)
    BY DEF EventWith, Granted, Destroys, Lost
  <2>4. /\ call' = [call EXCEPT ![t] = "none"]
        /\ queue' = Append(queue, e) /\ UNCHANGED <<tx, srv>>
    BY <1>4, <2>1 DEF FailCreate, Reply, External
  <2> HIDE DEF e
  <2>5. Calm(t, tx[t], "none", srv[t], Append(queue, e))
    BY <1>1, <2>2, <2>3, CallOver, CalmPosted
  <2> QED  BY <1>1, <2>2, <2>4, <2>5, DaemonCalm
<1>5. CASE AcceptRun(t)
  <2> DEFINE e == EventWith("runReply", t, "ok")
  <2>1. /\ e \in AnyEvent /\ e.kind # "owner" /\ e.t = t /\ Mark(e, t) = NoMark
        /\ ~Granted(e, t) /\ ~Destroys(e, t) /\ ~Lost(e)
    BY PostedEvents DEF EventWith, Granted, Destroys, Lost
  <2>2. srv[t] = "idle" /\ srv' = [srv EXCEPT ![t] = "running"] /\ UNCHANGED tx
    BY <1>5 DEF AcceptRun
  <2>3. CASE call[t] = "run" /\ Reply(t, "runReply", "ok", "none")
    <3>1. call' = [call EXCEPT ![t] = "none"] /\ queue' = Append(queue, e)
      BY <2>3 DEF Reply
    <3> HIDE DEF e
    <3>2. Calm(t, tx[t], "none", "running", queue)
      BY <1>1, <1>2, <2>2, <2>3, MovedCalm
    <3>3. Mark(e, t) # "error" /\ Mark(e, t) # "finish"
      BY <2>1 DEF NoMark
    <3>4. Calm(t, tx[t], "none", "running", Append(queue, e))
      BY <1>1, <2>1, <3>2, <3>3, CalmPosted
    <3> QED  BY <2>1, <2>2, <3>1, <3>4, DaemonCalm
  <2>4. CASE call[t] = "late" /\ UNCHANGED <<call, queue>>
    <3> HIDE DEF e
    <3>1. Calm(t, tx[t], "late", "running", queue)
      BY <1>1, <1>2, <2>2, <2>4, MovedCalm
    <3>2. call' = [call EXCEPT ![t] = "late"] /\ queue' = queue
      BY <1>1, <2>4
    <3> QED  BY <2>1, <2>2, <3>1, <3>2, DaemonCalm
  <2> QED  BY <1>5, <2>3, <2>4 DEF AcceptRun
<1>6. ASSUME call[t] = "run"
      PROVE  tx[t].exits = <<>> /\ t \notin Foreign /\ srv[t] = "idle" /\ ~HasGrant(queue, t)
  BY <1>1, <1>2, <1>6 DEF Stage, Answers, Calm, Once, Steady
<1>7. CASE RejectRun(t)
  <2>1. PICK a \in {"denied", "error"} : Reply(t, "runReply", a, "none")
    BY <1>7 DEF RejectRun
  <2> DEFINE e == EventWith("runReply", t, a)
  <2>2. e \in AnyEvent /\ e.kind # "owner" /\ e.t = t /\ Mark(e, t) = "error"
    BY PostedEvents
  <2>3. /\ call[t] = "run" /\ call' = [call EXCEPT ![t] = "none"]
        /\ queue' = Append(queue, e) /\ srv' = [srv EXCEPT ![t] = "done"] /\ UNCHANGED tx
    BY <1>7, <2>1 DEF RejectRun, Reply
  <2> HIDE DEF e
  <2>4. Calm(t, tx[t], "none", "done", queue)
    BY <1>1, <1>6, <2>3, MovedCalm
  <2>5. Calm(t, tx[t], "none", "done", Append(queue, e))
    BY <1>1, <1>6, <2>2, <2>3, <2>4, ErrorPosted
  <2> QED  BY <2>2, <2>3, <2>5, DaemonCalm
<1>8. CASE FailRun(t)
  <2> DEFINE e == EventWith("runReply", t, "error")
  <2>1. e \in AnyEvent /\ e.kind # "owner" /\ e.t = t /\ Mark(e, t) = "error"
    BY PostedEvents
  <2>2. call[t] = "run" /\ srv[t] = "idle" /\ UNCHANGED <<tx, srv>>
    BY <1>6, <1>8 DEF FailRun, External
  <2>3. call' = [call EXCEPT ![t] = "late"] /\ queue' = Append(queue, e)
    BY <1>8, <2>2 DEF FailRun, Reply
  <2> HIDE DEF e
  <2>4. Calm(t, tx[t], "late", "idle", queue)
    BY <1>1, <1>6, <2>2, MovedCalm
  <2>5. Calm(t, tx[t], "late", "idle", Append(queue, e))
    BY <1>1, <1>6, <2>1, <2>2, <2>4, ErrorPosted
  <2>6. srv' = [srv EXCEPT ![t] = "idle"]
    BY <1>1, <2>2
  <2> QED  BY <2>1, <2>2, <2>3, <2>5, <2>6, DaemonCalm
<1>9. ASSUME NEW x \in Verdict, FinishRun(t, x)
      PROVE  CalmInv'
  <2> DEFINE e == EventWith("Finished", t, x)
  <2>1. /\ e \in AnyEvent /\ e.kind # "owner" /\ e.t = t /\ Mark(e, t) = "finish"
        /\ ~Granted(e, t) /\ ~Destroys(e, t) /\ ~Lost(e)
    BY PostedEvents DEF EventWith, Granted, Destroys, Lost
  <2>2. /\ srv[t] = "running" /\ srv' = [srv EXCEPT ![t] = "done"] /\ UNCHANGED <<tx, call>>
        /\ queue' = IF tx[t].p /\ "Finished" \in tx[t].wired THEN Append(queue, e) ELSE queue
    BY <1>9 DEF FinishRun
  <2> HIDE DEF e
  <2>3. call[t] \in {"none", "late"}
    BY <1>1, <2>2 DEF Stage, Answers
  <2>4. Calm(t, tx[t], call[t], "done", queue)
    BY <1>1, <1>2, <2>2, <2>3, MovedCalm
  <2>5. Calm(t, tx[t], call[t], "done", Append(queue, e))
    BY <1>1, <2>1, <2>4, CalmPosted
  <2>6. Calm(t, tx[t], call[t], "done", queue')
    BY <2>2, <2>4, <2>5
  <2> QED  BY <1>1, <2>1, <2>2, <2>6, DaemonCalm
<1>10. CASE DestroyTid(t)
  <2> DEFINE e == Event("Destroy", t)
  <2>1. e \in AnyEvent /\ e.kind # "owner" /\ e.t = t /\ Destroys(e, t)
    BY PostedEvents DEF Event, Destroys
  <2>2. /\ srv[t] = "done" /\ srv' = [srv EXCEPT ![t] = "gone"] /\ UNCHANGED <<tx, call>>
        /\ queue' = IF tx[t].p /\ "Destroy" \in tx[t].wired THEN Append(queue, e) ELSE queue
    BY <1>10 DEF DestroyTid, Patient
  <2> HIDE DEF e
  <2>3. Calm(t, tx[t], call[t], "done", queue)
    BY <1>1, <2>2
  <2>4. tx[t].p /\ "Destroy" \notin tx[t].wired => Fresh(t, tx[t]) /\ None(queue, t, "finish")
    BY <2>2, CalmFacts DEF Rules, Fresh, Txn
  <2>5. /\ ~tx[t].p \/ (Fresh(t, tx[t]) /\ None(queue, t, "finish"))
             => Calm(t, tx[t], call[t], "gone", queue)
        /\ tx[t].p => Calm(t, tx[t], call[t], "gone", Append(queue, e))
    BY <1>1, <2>1, <2>3, DestroyedCalm
  <2>6. Calm(t, tx[t], call[t], "gone", queue')
    BY <2>2, <2>4, <2>5
  <2> QED  BY <1>1, <2>1, <2>2, <2>6, DaemonCalm
<1>11. CASE ForeignBegin(t)
  <2> DEFINE e == Event("Destroy", t)
  <2>1. e \in AnyEvent /\ e.kind # "owner" /\ e.t = t
    BY PostedEvents
  <2>2. /\ t \in Foreign /\ srv[t] = "absent" /\ srv' = [srv EXCEPT ![t] = "running"]
        /\ UNCHANGED <<tx, call, queue>>
    BY <1>11 DEF ForeignBegin
  <2> HIDE DEF e
  <2>3. call[t] = "none"
    BY <1>1, <2>2 DEF Stage, Answers
  <2>4. Calm(t, tx[t], call[t], "running", queue)
    BY <1>1, <1>2, <2>2, <2>3, MovedCalm
  <2> QED  BY <1>1, <2>1, <2>2, <2>4, DaemonCalm
<1> QED
  BY <1>3, <1>4, <1>5, <1>7, <1>8, <1>9, <1>10, <1>11 DEF DaemonOf

(* A daemon with nothing to do exits; another one starts.                  *)
LEMMA OwnerCalm ==
  ASSUME Patient, CalmState, LoseOwner \/ StartOwner
  PROVE  CalmInv'
<1>1. SUFFICES ASSUME NEW u \in Txn
               PROVE  Calm(u, tx'[u], call'[u], srv'[u], queue')
  BY DEF CalmInv
<1>2. CASE LoseOwner
  <2>1. PICK new \in BOOLEAN : OwnerChange(TRUE, new)
    BY <1>2 DEF LoseOwner
  <2> DEFINE e == [kind |-> "owner", old |-> TRUE, new |-> new]
  <2>2. e \in AnyEvent /\ Lost(e)
    BY DEF OwnerEvent, AnyEvent, Lost, OwnerLost
  <2>3. UNCHANGED <<tx, call>> /\ queue' = Append(queue, e)
    BY <2>1 DEF OwnerChange
  <2> HIDE DEF e
  <2>4. /\ srv[u] \in {"absent", "gone", "lost"}
        /\ srv'[u] = IF srv[u] = "absent" THEN "absent" ELSE "lost"
    BY <1>2 DEF LoseOwner, Patient, Idle
  <2>5. Calm(u, tx[u], call[u], srv'[u], queue)
    BY <2>4, CalmFacts, LostCalm
  <2>6. Calm(u, tx[u], call[u], srv'[u], Append(queue, e))
    BY <2>2, <2>4, <2>5, CalmFacts, LossPosted
  <2> QED  BY <2>3, <2>6
<1>3. CASE StartOwner
  <2> DEFINE e == [kind |-> "owner", old |-> FALSE, new |-> TRUE]
  <2>1. /\ e \in AnyEvent /\ ~Lost(e) /\ ~Granted(e, u) /\ ~Destroys(e, u)
        /\ Mark(e, u) # "error" /\ Mark(e, u) # "finish"
    BY DEF OwnerEvent, AnyEvent, Lost, OwnerLost, Granted, Destroys, Mark, About, NoMark
  <2>2. UNCHANGED <<tx, call, srv>> /\ queue' = Append(queue, e)
    BY <1>3 DEF StartOwner, OwnerChange
  <2> HIDE DEF e
  <2>3. Calm(u, tx[u], call[u], srv[u], Append(queue, e))
    BY <2>1, CalmFacts, CalmPosted
  <2> QED  BY <2>2, <2>3
<1> QED  BY <1>2, <1>3

(* Whom the emission of daemonQuit() has yet to reach.                     *)
LEMMA QuitNext ==
  ASSUME CalmState, Next
  PROVE  QuitInv'
<1>1. \A t \in quitting : t \in Txn /\ (tx[t].p => Fresh(t, tx[t]))
  BY DEF CalmState, QuitInv
<1>2. tx \in [Txn -> Object]
  BY DEF CalmState, RepeatState, ContractInv, TypeOK
<1>3. CASE Application
  <2>1. PICK t \in Txn : Create(t) \/ Attach(t) \/ Connect(t) \/ Cancel(t)
    BY <1>3 DEF Application
  <2>2. PICK s : /\ tx' = [tx EXCEPT ![t] = s]
                 /\ (tx[t].p => Fresh(t, tx[t])) => (s.p => Fresh(t, s))
    <3>1. tx[t] \in Object /\ ObjectInv(tx[t])
      BY CalmFacts
    <3>2. CASE Create(t)
      <4> DEFINE r == [tx[t] EXCEPT !.obj = "live"]
      <4>1. ~r.p
        BY <3>1, <3>2 DEF Create, ObjectInv, Object
      <4>2. tx' = [tx EXCEPT ![t] = r]
        BY <3>2 DEF Create, Becomes
      <4> QED  BY <4>1, <4>2
    <3>3. CASE Attach(t)
      <4> DEFINE r == setup([tx[t] EXCEPT !.obj = "live"])
      <4>1. r.exits = <<>> /\ t \in Foreign
        BY <3>1, <3>3 DEF Attach, ObjectInv, Reported, setup, Object
      <4>2. tx' = [tx EXCEPT ![t] = r]
        BY <3>3 DEF Attach, Becomes
      <4> QED  BY <4>1, <4>2 DEF Fresh
    <3>4. CASE Connect(t)
      <4> DEFINE r == connectNotify(tx[t])
      <4>1. r.exits = tx[t].exits /\ r.p = tx[t].p
        BY <3>1 DEF connectNotify, Object
      <4>2. tx' = [tx EXCEPT ![t] = r]
        BY <3>4 DEF Connect, Becomes
      <4> QED  BY <4>1, <4>2 DEF Fresh
    <3>5. CASE Cancel(t)
      <4> DEFINE r == [tx[t] EXCEPT !.cancel = IF tx[t].p THEN "sent" ELSE "lost"]
      <4>1. r.exits = tx[t].exits /\ r.p = tx[t].p
        BY <3>1 DEF Object
      <4>2. tx' = [tx EXCEPT ![t] = r]
        BY <3>5 DEF Cancel, Becomes
      <4> QED  BY <4>1, <4>2 DEF Fresh
    <3> QED  BY <2>1, <3>2, <3>3, <3>4, <3>5
  <2>3. quitting' = quitting
    BY <2>1 DEF Create, Attach, Connect, Cancel
  <2> QED  BY <1>1, <1>2, <2>2, <2>3 DEF QuitInv
<1>4. ASSUME NEW t \in Txn, DaemonQuit(t)
      PROVE  QuitInv'
  <2>1. quitting' = quitting \ {t} /\ tx' = [tx EXCEPT ![t] = daemonQuit(tx[t])]
    BY <1>4 DEF DaemonQuit, Becomes
  <2> QED  BY <1>1, <1>2, <2>1 DEF QuitInv
<1>5. CASE OwnerChanged
  <2>1. /\ queue # <<>> /\ Head(queue).kind = "owner" /\ UNCHANGED tx
        /\ quitting' = IF OwnerLost(Head(queue)) THEN {t \in Txn : tx[t].obj = "live"} ELSE {}
    BY <1>5 DEF OwnerChanged, Ready
  <2>2. ASSUME NEW t \in quitting'
        PROVE  t \in Txn /\ (tx[t].p => Fresh(t, tx[t]))
    <3>1. t \in Txn /\ Lost(Head(queue))
      BY <2>1, <2>2 DEF Lost
    <3>2. ~Ended(queue, t)
      BY <2>1, <3>1, CalmFacts, OrderTaken
    <3> QED  BY <3>1, <3>2, CalmFacts DEF Calm, Warned
  <2> QED  BY <2>1, <2>2 DEF QuitInv
<1>6. CASE \/ Discard
           \/ \E t \in Txn : \/ CreateSucceeded(t) \/ DispatchFailed(t) \/ CreateFailed(t)
                             \/ RunSucceeded(t) \/ RunFailed(t)
                             \/ HandleFinished(t) \/ HandleDestroy(t) \/ HandleDelete(t)
  <2>1. quitting' = {}
    BY <1>6 DEF Discard, CreateSucceeded, DispatchFailed, CreateFailed, RunSucceeded,
                RunFailed, HandleFinished, HandleDestroy, HandleDelete, Handling, Ready
  <2> QED  BY <2>1 DEF QuitInv
<1>8. CASE Bus
  <2>1. PICK t \in Txn : TakeRules(t)
    BY <1>8 DEF Bus
  <2>2. tx' = [tx EXCEPT ![t] = taken(tx[t])] /\ quitting' = quitting
    BY <2>1 DEF TakeRules, Becomes
  <2>3. taken(tx[t]).p = tx[t].p /\ taken(tx[t]).exits = tx[t].exits
    BY <1>2 DEF taken, Object
  <2> QED  BY <1>1, <1>2, <2>2, <2>3 DEF QuitInv, Fresh
<1>7. CASE Daemon
  <2>1. UNCHANGED <<tx, quitting>>
    <3>1. ASSUME NEW t \in Txn, DaemonOf(t) \/ ForeignBegin(t)
          PROVE  UNCHANGED <<tx, quitting>>
      BY <3>1 DEF DaemonOf, AnswerCreate, FailCreate, AcceptRun, RejectRun, FailRun, FinishRun,
                  DestroyTid, ForeignBegin
    <3>2. ASSUME LoseOwner \/ StartOwner
          PROVE  UNCHANGED <<tx, quitting>>
      BY <3>2 DEF LoseOwner, StartOwner, OwnerChange
    <3> QED  BY <1>7, <3>1, <3>2 DEF Daemon
  <2> QED  BY <1>1, <2>1 DEF QuitInv
<1> QED  BY <1>3, <1>4, <1>5, <1>6, <1>7, <1>8 DEF Next, EventLoop

(* If the daemon leaves only when it is idle, and keeps what it is asked   *)
(* to run until that is over, then each object emits finished() at most    *)
(* once, even if calls time out or cannot be sent: whoever has reported    *)
(* and still has its proxy loses it to the Destroy that comes before the   *)
(* loss of the daemon, so that daemonQuit() finds nothing to kill.         *)
THEOREM OnceOnly ==
  ASSUME Faults \subseteq {"timeout", "unsent"}
  PROVE  Spec => []FinishedOnce
<1>1. Patient
  BY DEF Patient
<1>2. Init => CalmInv /\ QuitInv
  <2> SUFFICES ASSUME Init, NEW t \in Txn
               PROVE  Calm(t, tx[t], call[t], srv[t], queue) /\ quitting = {}
    BY DEF CalmInv, QuitInv, Init
  <2>1. /\ tx[t] = NoObject /\ call[t] = "none" /\ srv[t] = "absent" /\ queue = <<>>
        /\ quitting = {}
    BY DEF Init
  <2>2. NoObject.exits = <<>> /\ ~NoObject.p
    BY DEF NoObject
  <2>3. /\ ~HasGrant(<<>>, t) /\ ~HasDestroy(<<>>, t) /\ LossesFirst(<<>>, t)
        /\ ErrorsFirst(<<>>, t) /\ None(<<>>, t, "error")
    BY DEF HasGrant, HasDestroy, LossesFirst, ErrorsFirst, None
  <2>4. Len(NoObject.exits) <= 1
    <3>1. Len(NoObject.exits) = 0
      BY <2>2
    <3> QED  BY <3>1
  <2>5. Once(t, NoObject, "none", <<>>)
    BY <2>2, <2>4 DEF Once
  <2>6. Steady(t, NoObject, "none", "absent", <<>>)
    BY <2>2, <2>3 DEF Steady
  <2>7. Warned(t, NoObject, "absent", <<>>)
    BY <2>2 DEF Warned
  <2> QED  BY <2>1, <2>5, <2>6, <2>7 DEF Calm
<1>3. CalmState /\ [Next]_vars => (CalmInv /\ QuitInv)'
  <2> SUFFICES ASSUME CalmState, [Next]_vars
               PROVE  CalmInv' /\ QuitInv'
    OBVIOUS
  <2>1. CASE Next
    <3>1. QuitInv'
      BY <2>1, QuitNext
    <3>2. CASE Application
      BY <3>1, <3>2, ApplicationCalm
    <3>3. CASE EventLoop
      BY <3>1, <3>3, HandlerCalm
    <3>4. CASE Daemon
      BY <1>1, <3>1, <3>4, DaemonOfCalm, OwnerCalm DEF Daemon
    <3>5. CASE Bus
      BY <3>1, <3>5, BusCalm
    <3> QED  BY <2>1, <3>2, <3>3, <3>4, <3>5 DEF Next
  <2>2. CASE UNCHANGED vars
    BY <2>2 DEF vars, CalmState, CalmInv, QuitInv
  <2> QED  BY <2>1, <2>2
<1>4. CalmInv => FinishedOnce
  BY DEF CalmInv, Calm, Once, FinishedOnce
<1>5. Spec => [](RepeatState /\ RulesInv)
  BY RulesInvariant
<1> QED  BY <1>2, <1>3, <1>4, <1>5, PTL DEF Spec, CalmState
=============================================================================
