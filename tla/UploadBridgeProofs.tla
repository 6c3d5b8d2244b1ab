------------------------- MODULE UploadBridgeProofs -------------------------
(***************************************************************************)
(* What holds of every upload, whatever the queue size, the length of the  *)
(* body and the manifest.                                                  *)
(***************************************************************************)
EXTENDS UploadBridge, FiniteSetTheorems, TLAPS

\* A step of Next is a step of one of the actions.
LEMMA NextCases ==
    ASSUME Next
    PROVE  \/ Receive \/ BodyEnds(TRUE) \/ BodyEnds(FALSE)
           \/ FeedUnblocks \/ PumpCancelled \/ CloseUnblocks
           \/ Get \/ GetEof \/ NeedMore \/ Violation \/ EndOfArchive \/ WriteFile
           \/ \E f \in Files : MemberRead(f)
           \/ Open \/ Refused \/ ThreadReturned \/ ThreadRaised \/ Cancelled
           \/ JoinRaised \/ Commit \/ CommitFails
BY DEF Next, Client, Pump, Worker, Handler

\* The queue never holds more than QueueSize items, _written never an undeclared
\* name, and no state outside the handler's and the reader's own is reached.
\* The member in flight is tied to the worker's wait.
Types == TypeOK /\ (worker = "call" => member \in Files)

\* Every step of handler, pump and parser keeps the shape of the state.
LEMMA TypesKept == ASSUME Types, [Next]_vars PROVE Types'
<1> USE SizeAssumption, FilesAssumption DEF Types, TypeOK
<1>1. CASE UNCHANGED vars
  BY <1>1 DEF vars
<1>2. CASE Receive
  BY <1>2 DEF Receive, Room
<1>3. CASE BodyEnds(TRUE) \/ BodyEnds(FALSE)
  BY <1>3 DEF BodyEnds, Close
<1>4. CASE FeedUnblocks \/ CloseUnblocks
  BY <1>4 DEF FeedUnblocks, CloseUnblocks, Room
<1>5. CASE PumpCancelled
  BY <1>5 DEF PumpCancelled, Close
<1>6. CASE Get \/ GetEof \/ NeedMore \/ Violation \/ EndOfArchive
  BY <1>6 DEF Get, GetEof, NeedMore, Violation, EndOfArchive, WorkerTo
<1>7. CASE WriteFile
  BY <1>7 DEF WriteFile
<1>8. CASE \E f \in Files : MemberRead(f)
  BY <1>8 DEF MemberRead, WorkerTo
<1>9. CASE ThreadReturned \/ ThreadRaised \/ Cancelled \/ JoinRaised
  BY <1>9 DEF ThreadReturned, ThreadRaised, Cancelled, JoinRaised, HandlerTo, Abort
<1>10. CASE Commit \/ CommitFails
  BY <1>10 DEF Commit, CommitFails, HandlerTo, Abort
<1>11. CASE Open \/ Refused
  BY <1>11 DEF Open, Refused, HandlerTo
<1> QED
  BY <1>1, <1>2, <1>3, <1>4, <1>5, <1>6, <1>7, <1>8, <1>9, <1>10, <1>11, NextCases

\* The same along every behaviour.
LEMMA TypesAlways == Spec => []Types
<1>1. Init => Types
  <2> SUFFICES ASSUME Init PROVE Types
    OBVIOUS
  <2>1. broken \in BOOLEAN
    BY Zenon DEF Init
  <2>2. sent \in 0..MaxChunks /\ queued \in 0..QueueSize
    BY SizeAssumption DEF Init
  <2> QED
    BY <2>1, <2>2, Zenon DEF Init, Types, TypeOK
<1>2. Types /\ [Next]_vars => Types'
  BY TypesKept
<1> QED
  BY <1>1, <1>2, PTL DEF Spec

\* The shape of the state, for every body, queue and manifest.
THEOREM TypeCorrect == Spec => []TypeOK
<1>1. Types => TypeOK
  BY DEF Types
<1> QED
  BY <1>1, TypesAlways, PTL

-----------------------------------------------------------------------------
(* How far the handler is says how far the other two are: it leaves          *)
(* to_thread.run_sync only when the thread is over, and it ends the request  *)
(* only when the pump is over too; a refused request started neither.        *)

Unstarted == /\ pump = "idle" /\ queued = 0 /\ eof = "none"
             /\ worker = "read" /\ written = {}

HandlerInv ==
    /\ handler = "open" => Unstarted /\ dir = "absent"
    /\ pump = "idle" => handler \in {"open", "failed"}
    /\ handler \in {"join", "cancel"} => worker \in {"ok", "raised"}
    /\ handler \in {"join", "created"} => worker = "ok"
    /\ handler \in {"thread", "join", "cancel"} => dir = "partial"
    /\ handler = "failed" => dir = "absent" /\ (Unstarted \/ worker \in {"ok", "raised"})
    /\ handler = "created" => /\ dir = "committed" /\ written = Files
                              /\ pump = "done" /\ ~broken

\* Every step keeps what the handler knows of thread, pump and directory.
LEMMA HandlerInvKept == ASSUME TypeOK, HandlerInv, [Next]_vars PROVE HandlerInv'
<1> USE DEF HandlerInv, Unstarted
<1>1. CASE UNCHANGED vars
  BY <1>1 DEF vars
<1>2. CASE Receive
  BY <1>2 DEF Receive
<1>3. CASE BodyEnds(TRUE) \/ BodyEnds(FALSE)
  BY <1>3 DEF BodyEnds, Close
<1>4. CASE FeedUnblocks \/ CloseUnblocks
  BY <1>4 DEF FeedUnblocks, CloseUnblocks
<1>5. CASE PumpCancelled
  BY <1>5 DEF PumpCancelled, Close
<1>6. CASE Get \/ GetEof \/ NeedMore \/ Violation \/ EndOfArchive
  BY <1>6 DEF Get, GetEof, NeedMore, Violation, EndOfArchive, WorkerTo
<1>7. CASE WriteFile
  BY <1>7 DEF WriteFile
<1>8. CASE \E f \in Files : MemberRead(f)
  BY <1>8 DEF MemberRead, WorkerTo
<1>9. CASE ThreadReturned \/ ThreadRaised \/ Cancelled \/ JoinRaised
  BY <1>9 DEF TypeOK, ThreadReturned, ThreadRaised, Cancelled, JoinRaised, HandlerTo, Abort
<1>10. CASE Commit \/ CommitFails
  BY <1>10 DEF TypeOK, Commit, CommitFails, HandlerTo, Abort
<1>11. CASE Open \/ Refused
  BY <1>11 DEF Open, Refused, HandlerTo
<1> QED
  BY <1>1, <1>2, <1>3, <1>4, <1>5, <1>6, <1>7, <1>8, <1>9, <1>10, <1>11, NextCases

\* The invariant itself, along every behaviour.
LEMMA HandlerAlways == Spec => []HandlerInv
<1>1. Init => HandlerInv
  BY DEF Init, HandlerInv, Unstarted
<1>2. TypeOK /\ HandlerInv /\ [Next]_vars => HandlerInv'
  BY HandlerInvKept
<1> QED
  BY <1>1, <1>2, TypeCorrect, PTL DEF Spec

\* An upload answered with an error leaves nothing behind, and nothing of it
\* comes back: the worker is over before abort() runs.
THEOREM FailureRollsBack == Spec => []RolledBack
<1>1. HandlerInv => RolledBack
  BY DEF HandlerInv, Unstarted, RolledBack
<1> QED
  BY <1>1, HandlerAlways, PTL

\* What is committed is complete: whole body, whole archive, every file.
THEOREM CommitsComplete == Spec => []CommitComplete
<1>1. TypeOK /\ HandlerInv => CommitComplete
  BY DEF TypeOK, HandlerInv, CommitComplete
<1> QED
  BY <1>1, HandlerAlways, TypeCorrect, PTL

-----------------------------------------------------------------------------
(* Every item in the queue was sent, the one a blocked feed() holds too, and *)
(* the sentinel is put once, last: a full queue means a long body.           *)

QueueInv ==
    /\ queued + (IF pump = "feed" THEN 1 ELSE 0) <= sent
    /\ pump # "done" <=> eof = "none"
    /\ worker = "read" => eof # "seen"
    /\ pump \in {"feed", "close"} => sent >= QueueSize

\* Every step keeps the count of chunks behind a blocked put.
LEMMA QueueInvKept == ASSUME TypeOK, HandlerInv, QueueInv, [Next]_vars PROVE QueueInv'
<1> USE SizeAssumption DEF QueueInv, TypeOK
<1>1. CASE UNCHANGED vars
  BY <1>1 DEF vars
<1>2. CASE Receive
  BY <1>2 DEF Receive, Room
<1>3. CASE BodyEnds(TRUE) \/ BodyEnds(FALSE)
  BY <1>3 DEF BodyEnds, Close, Room
<1>4. CASE FeedUnblocks \/ CloseUnblocks
  BY <1>4 DEF FeedUnblocks, CloseUnblocks
<1>5. CASE PumpCancelled
  BY <1>5 DEF PumpCancelled, Close, Room
<1>6. CASE Get \/ GetEof \/ NeedMore \/ Violation \/ EndOfArchive
  BY <1>6 DEF Get, GetEof, NeedMore, Violation, EndOfArchive, WorkerTo
<1>7. CASE WriteFile
  BY <1>7 DEF WriteFile
<1>8. CASE \E f \in Files : MemberRead(f)
  BY <1>8 DEF MemberRead, WorkerTo
<1>9. CASE ThreadReturned \/ ThreadRaised \/ Cancelled \/ JoinRaised
  BY <1>9 DEF ThreadReturned, ThreadRaised, Cancelled, JoinRaised, HandlerTo
<1>10. CASE Commit \/ CommitFails
  BY <1>10 DEF Commit, CommitFails, HandlerTo
<1>11. CASE Open \/ Refused
  BY <1>11 DEF Open, Refused, HandlerTo, HandlerInv, Unstarted
<1> QED
  BY <1>1, <1>2, <1>3, <1>4, <1>5, <1>6, <1>7, <1>8, <1>9, <1>10, <1>11, NextCases

\* The count of chunks, along every behaviour.
LEMMA QueueAlways == Spec => []QueueInv
<1>1. Init => QueueInv
  BY SizeAssumption DEF Init, QueueInv
<1>2. TypeOK /\ HandlerInv /\ QueueInv /\ [Next]_vars => QueueInv'
  BY QueueInvKept
<1> QED
  BY <1>1, <1>2, TypeCorrect, HandlerAlways, PTL DEF Spec

\* Blocking the event loop takes a body of at least QueueSize chunks.
THEOREM SmallBodiesNeverBlock == Spec => []SmallBodyNeverBlocks
<1>1. TypeOK /\ QueueInv => SmallBodyNeverBlocks
  BY SizeAssumption DEF TypeOK, QueueInv, SmallBodyNeverBlocks, LoopFree
<1> QED
  BY <1>1, TypeCorrect, QueueAlways, PTL

-----------------------------------------------------------------------------
(* Every step of pump, parser, writer and handler leaves less to do.         *)

\* A file that is written is one file less to write.
LEMMA OneFileLess ==
    ASSUME NEW W \in SUBSET Files, NEW f \in Files \ W
    PROVE  /\ Cardinality(Files \ W) \in Nat
           /\ Cardinality(Files \ (W \cup {f})) = Cardinality(Files \ W) - 1
<1>1. IsFiniteSet(Files \ W)
  BY FilesAssumption, FS_Difference
<1>2. Files \ (W \cup {f}) = (Files \ W) \ {f}
  OBVIOUS
<1>3. Cardinality((Files \ W) \ {f}) = Cardinality(Files \ W) - 1
  BY <1>1, FS_RemoveElement
<1> QED
  BY <1>1, <1>2, <1>3, FS_CardinalityType

\* Every part of the variant is a number, and changes only with its own variable.
LEMMA LeftParts ==
    ASSUME TypeOK, TypeOK'
    PROVE  /\ MaxChunks \in Int /\ sent \in Int /\ sent' \in Int
           /\ queued \in Int /\ queued' \in Int
           /\ FilesLeft \in Nat /\ FilesLeft' \in Nat /\ (written' = written => FilesLeft' = FilesLeft)
           /\ PumpLeft \in Int /\ PumpLeft' \in Int /\ (pump' = pump => PumpLeft' = PumpLeft)
           /\ EofLeft \in Int /\ EofLeft' \in Int /\ (eof' = eof => EofLeft' = EofLeft)
           /\ WorkerLeft \in Int /\ WorkerLeft' \in Int /\ (worker' = worker => WorkerLeft' = WorkerLeft)
           /\ HandlerLeft \in Int /\ HandlerLeft' \in Int
           /\ (handler' = handler => HandlerLeft' = HandlerLeft)
<1>1. /\ MaxChunks \in Int /\ sent \in Int /\ sent' \in Int
      /\ queued \in Int /\ queued' \in Int
  BY SizeAssumption DEF TypeOK
<1>2. /\ FilesLeft \in Nat /\ FilesLeft' \in Nat
  <2>1. IsFiniteSet(Files \ written) /\ IsFiniteSet(Files \ written')
    BY FilesAssumption, FS_Difference
  <2> QED
    BY <2>1, FS_CardinalityType DEF FilesLeft
<1>3. written' = written => FilesLeft' = FilesLeft
  BY DEF FilesLeft
<1>4. PumpLeft \in Int /\ PumpLeft' \in Int /\ (pump' = pump => PumpLeft' = PumpLeft)
  BY DEF PumpLeft
<1>5. EofLeft \in Int /\ EofLeft' \in Int /\ (eof' = eof => EofLeft' = EofLeft)
  BY DEF EofLeft
<1>6. WorkerLeft \in Int /\ WorkerLeft' \in Int /\ (worker' = worker => WorkerLeft' = WorkerLeft)
  BY DEF WorkerLeft
<1>7. /\ HandlerLeft \in Int /\ HandlerLeft' \in Int
      /\ (handler' = handler => HandlerLeft' = HandlerLeft)
  BY DEF HandlerLeft
<1> QED
  BY <1>1, <1>2, <1>3, <1>4, <1>5, <1>6, <1>7

\* The variant falls with every step.
LEMMA LeftFalls == ASSUME Types, Types', HandlerInv, QueueInv, Next PROVE Left' < Left
<1> USE LeftParts DEF Left
<1>0. TypeOK /\ TypeOK'
  BY DEF Types
<1>1. CASE Receive
  <2>1. /\ sent' = sent + 1 /\ WorkerLeft' = WorkerLeft /\ HandlerLeft' = HandlerLeft
        /\ FilesLeft' = FilesLeft /\ EofLeft' = EofLeft
    BY <1>0, <1>1 DEF Receive
  <2>2. \/ queued' = queued + 1 /\ PumpLeft' = PumpLeft
        \/ queued' = queued /\ PumpLeft = 2 /\ PumpLeft' = 5
    BY <1>0, <1>1 DEF Receive, PumpLeft
  <2> QED
    BY <1>0, <2>1, <2>2
<1>2. CASE BodyEnds(TRUE) \/ BodyEnds(FALSE) \/ PumpCancelled
  <2>1. /\ sent' = sent /\ queued' = queued /\ WorkerLeft' = WorkerLeft
        /\ HandlerLeft' = HandlerLeft /\ FilesLeft' = FilesLeft
    BY <1>0, <1>2 DEF BodyEnds, PumpCancelled, Close
  <2>2. EofLeft' = EofLeft
    BY <1>0, <1>2 DEF BodyEnds, PumpCancelled, Close, QueueInv, EofLeft
  <2>3. PumpLeft = 2 /\ PumpLeft' \in {0, 1}
    BY <1>2 DEF BodyEnds, PumpCancelled, Close, PumpLeft
  <2> QED
    BY <1>0, <2>1, <2>2, <2>3
<1>3. CASE FeedUnblocks \/ CloseUnblocks
  <2>1. /\ sent' = sent /\ WorkerLeft' = WorkerLeft
        /\ HandlerLeft' = HandlerLeft /\ FilesLeft' = FilesLeft
    BY <1>0, <1>3 DEF FeedUnblocks, CloseUnblocks
  <2>2. EofLeft' = EofLeft
    BY <1>0, <1>3 DEF FeedUnblocks, CloseUnblocks, QueueInv, EofLeft
  <2>3. \/ queued' = queued + 1 /\ PumpLeft = 5 /\ PumpLeft' = 2
        \/ queued' = queued /\ PumpLeft = 1 /\ PumpLeft' = 0
    BY <1>3 DEF FeedUnblocks, CloseUnblocks, PumpLeft
  <2> QED
    BY <1>0, <2>1, <2>2, <2>3
<1>4. CASE \/ Get \/ GetEof \/ NeedMore \/ Violation \/ EndOfArchive
           \/ \E f \in Files : MemberRead(f)
  <2> USE DEF Get, GetEof, NeedMore, Violation, EndOfArchive, MemberRead, WorkerTo
  <2>1. /\ sent' = sent /\ PumpLeft' = PumpLeft
        /\ HandlerLeft' = HandlerLeft /\ FilesLeft' = FilesLeft
    BY <1>0, <1>4
  <2>2. \/ queued' = queued - 1 /\ EofLeft' = EofLeft /\ WorkerLeft = 1 /\ WorkerLeft' = 2
        \/ queued' = queued /\ EofLeft' = EofLeft - 2 /\ WorkerLeft = 1 /\ WorkerLeft' = 2
        \/ queued' = queued /\ EofLeft' = EofLeft /\ WorkerLeft = 2 /\ WorkerLeft' \in {0, 1}
    BY <1>4 DEF EofLeft, WorkerLeft
  <2> QED
    BY <1>0, <2>1, <2>2
<1>5. CASE WriteFile
  <2>1. /\ sent' = sent /\ queued' = queued /\ PumpLeft' = PumpLeft
        /\ HandlerLeft' = HandlerLeft /\ EofLeft' = EofLeft
    BY <1>0, <1>5 DEF WriteFile
  <2>2. \/ WorkerLeft = 1 /\ WorkerLeft' = 0 /\ written' = written
        \/ /\ WorkerLeft = 1 /\ WorkerLeft' = 2
           /\ member \in Files \ written /\ written' = written \cup {member}
    BY <1>5 DEF WriteFile, WorkerLeft, Types
  <2>3. member \in Files \ written /\ written' = written \cup {member}
          => FilesLeft' = FilesLeft - 1
    BY <1>0, OneFileLess DEF FilesLeft, TypeOK
  <2> QED
    BY <1>0, <2>1, <2>2, <2>3
<1>6. CASE \/ Open \/ Refused \/ ThreadReturned \/ ThreadRaised \/ Cancelled
           \/ JoinRaised \/ Commit \/ CommitFails
  <2> USE DEF Open, Refused, ThreadReturned, ThreadRaised, Cancelled, JoinRaised,
              Commit, CommitFails, HandlerTo
  <2>1. /\ sent' = sent /\ queued' = queued /\ WorkerLeft' = WorkerLeft
        /\ FilesLeft' = FilesLeft /\ EofLeft' = EofLeft
    BY <1>0, <1>6
  <2>2. PumpLeft' = PumpLeft
    BY <1>0, <1>6 DEF PumpLeft, HandlerInv, Unstarted
  <2>3. HandlerLeft' < HandlerLeft
    BY <1>6 DEF HandlerLeft
  <2> QED
    BY <1>0, <2>1, <2>2, <2>3
<1> QED
  BY <1>1, <1>2, <1>3, <1>4, <1>5, <1>6, NextCases

\* Every upload runs out of steps: with the next theorem, one whose queue is never
\* clogged ends in an answer, whatever the archive and the schedule.
THEOREM EveryStepRunsOut == Spec => RunsOut
<1>1. Types /\ Types' /\ HandlerInv /\ QueueInv /\ [Next]_vars => [Left' < Left]_vars
  BY LeftFalls
<1> QED
  BY <1>1, TypesAlways, HandlerAlways, QueueAlways, PTL DEF Spec, RunsOut

\* Until the answer somebody can go on, or a long body has clogged the queue: the
\* guards of the four actors leave no other state in which all of them wait.
THEOREM OnlyClogStops == Spec => []StuckOnlyClogged
<1>1. TypeOK /\ HandlerInv /\ QueueInv => StuckOnlyClogged
  <2> SUFFICES ASSUME TypeOK, HandlerInv, QueueInv PROVE StuckOnlyClogged
    OBVIOUS
  <2> USE DEF StuckOnlyClogged, ClientCan, PumpCan, WorkerCan, HandlerCan, Ended
  <2>1. CASE pump \in {"feed", "close"} /\ ~Room
    <3>1. queued > 0 /\ sent >= QueueSize
      BY <2>1, SizeAssumption DEF Room, TypeOK, QueueInv
    <3> QED
      BY <2>1, <3>1 DEF TypeOK, Clogged, LoopFree
  <2>2. CASE pump \in {"feed", "close"} /\ Room
    BY <2>2 DEF LoopFree
  <2>3. CASE pump = "receive"
    BY <2>3
  <2>4. CASE pump = "idle"
    BY <2>4 DEF HandlerInv
  <2>5. CASE pump = "done"
    BY <2>5 DEF TypeOK, HandlerInv, QueueInv, LoopFree
  <2> QED
    BY <2>1, <2>2, <2>3, <2>4, <2>5 DEF TypeOK
<1> QED
  BY <1>1, TypeCorrect, HandlerAlways, QueueAlways, PTL

-----------------------------------------------------------------------------
(* On disk the three actors are one FilesystemBundleWriter of BundleDirs.    *)

\* With one path and one upload there is nothing above, below or beside it.
LEMMA Alone ==
    /\ B!Above("path") = {} /\ B!Trees({"path"}) = {"path"}
    /\ B!HurtBy({"path"}, {"upload"}) = {}
    /\ ~B!Crosses("path")
<1>1. B!Above("path") = {}
  BY DEF B!Above
<1>2. B!Trees({"path"}) = {"path"}
  BY DEF B!Trees, B!Tree
<1>3. B!HurtBy({"path"}, {"upload"}) = {}
  BY DEF B!HurtBy, B!Running
<1> QED
  BY <1>1, <1>2, <1>3 DEF B!Crosses

\* The effect of the calls on a tree of that one directory.
LEMMA OneDir ==
    ASSUME NEW r, NEW s
    PROVE  LET f == [d \in {"path"} |-> r]
           IN /\ ~r.there => B!MakeDir(f, "path") = [d \in {"path"} |-> B!Empty]
              /\ r.there => B!MakeDir(f, "path") = f
              /\ B!Remove(f, {"path"}) = [d \in {"path"} |-> B!Absent]
              /\ B!Conflict(f, "path") <=> r.there
<1> DEFINE f == [d \in {"path"} |-> r]
<1>1. \A e : ~B!IsParent(e, "path")
  BY Alone DEF B!IsParent
<1>2. f["path"] = r
  OBVIOUS
<1>3. ~r.there => B!MakeDir(f, "path") = [d \in {"path"} |-> B!Empty]
  BY <1>1, <1>2, Alone DEF B!MakeDir
<1>4. r.there => B!MakeDir(f, "path") = f
  BY <1>1, <1>2, Alone DEF B!MakeDir
<1>5. B!Remove(f, {"path"}) = [d \in {"path"} |-> B!Absent]
  BY Alone DEF B!Remove
<1>6. B!Conflict(f, "path") <=> r.there
  BY <1>2, Alone DEF B!Conflict
<1> QED
  BY <1>3, <1>4, <1>5, <1>6

\* Every step of handler, pump and worker is a step of the writer, or none.
LEMMA WriterStep ==
    ASSUME Types, HandlerInv, HandlerInv', Next
    PROVE  B!UploadStep("upload") \/ UNCHANGED B!vars
<1> DEFINE Part(W) == [there |-> TRUE, files |-> W, meta |-> {}, age |-> 0]
           Busy(W) == [dir |-> "path", manifest |-> Files, written |-> W]
<1>1. ASSUME UNCHANGED <<dir, written>>, UNCHANGED (handler \in {"thread", "join", "cancel"})
      PROVE  UNCHANGED B!vars
  <2>1. Tree' = Tree
    BY <1>1 DEF Tree
  <2>2. WriterOf' = WriterOf
    BY <1>1 DEF WriterOf
  <2> QED
    BY <2>1, <2>2 DEF B!vars
<1>2. CASE \/ Receive \/ BodyEnds(TRUE) \/ BodyEnds(FALSE)
           \/ FeedUnblocks \/ PumpCancelled \/ CloseUnblocks
  BY <1>1, <1>2 DEF Receive, BodyEnds, FeedUnblocks, PumpCancelled, CloseUnblocks, Close
<1>3. CASE \/ Get \/ GetEof \/ NeedMore \/ Violation \/ EndOfArchive
           \/ \E f \in Files : MemberRead(f)
  BY <1>1, <1>3 DEF Get, GetEof, NeedMore, Violation, EndOfArchive, MemberRead, WorkerTo
<1>4. CASE Refused \/ ThreadReturned \/ ThreadRaised
  BY <1>1, <1>4 DEF Refused, ThreadReturned, ThreadRaised, HandlerTo
<1>5. CASE Open
  <2>1. /\ Tree = [d \in {"path"} |-> B!Absent] /\ Tree' = [d \in {"path"} |-> B!Empty]
        /\ WriterOf = [u \in {"upload"} |-> B!Idle]
        /\ WriterOf' = [u \in {"upload"} |-> Busy({})]
    BY <1>5 DEF Open, HandlerInv, Unstarted, Tree, WriterOf, B!Absent, B!Empty, B!Idle
  <2>2. ~B!Conflict(Tree, "path") /\ Tree' = B!MakeDir(Tree, "path")
    BY <2>1, OneDir DEF B!Absent
  <2>3. Files \in B!Manifest
    BY FilesAssumption DEF B!Manifest
  <2>4. B!Open("upload", "path", Files)
    BY <2>1, <2>2, Alone DEF B!Open
  <2> QED
    BY <2>3, <2>4 DEF B!UploadStep
<1>6. CASE WriteFile
  <2>1. handler = "thread" /\ dir = "partial" /\ member \in Files
    BY <1>6 DEF WriteFile, HandlerInv, Unstarted, Types, TypeOK
  <2>2. CASE written' = written
    BY <1>1, <1>6, <2>1, <2>2 DEF WriteFile
  <2>3. CASE member \notin written /\ written' = written \cup {member}
    <3>1. /\ Tree = [d \in {"path"} |-> Part(written)]
          /\ Tree' = [d \in {"path"} |-> Part(written \cup {member})]
          /\ WriterOf = [u \in {"upload"} |-> Busy(written)]
          /\ WriterOf' = [u \in {"upload"} |-> Busy(written \cup {member})]
      BY <1>6, <2>1, <2>3 DEF WriteFile, Tree, WriterOf
    <3>2. B!MakeDir([d \in {"path"} |-> Part(written)], "path") = [d \in {"path"} |-> Part(written)]
      <4>1. Part(written).there
        BY Zenon
      <4> HIDE DEF Part
      <4> QED
        BY <4>1, OneDir
    <3>3. Tree' = B!AddFile(Tree, "path", member)
      <4>1. B!AddFile(Tree, "path", member)
              = [Tree EXCEPT !["path"].files = @ \cup {member},
                             !["path"].age = IF member \in Tree["path"].files THEN @ ELSE 0]
        BY <3>1, <3>2 DEF B!AddFile
      <4> QED
        BY <3>1, <4>1
    <3>4. WriterOf["upload"] # B!Idle
      BY <3>1, FilesAssumption DEF B!Idle
    <3>5. B!Write("upload", member)
      BY <2>1, <2>3, <3>1, <3>3, <3>4 DEF B!Write
    <3> QED
      BY <2>1, <3>5 DEF B!UploadStep
  <2> QED
    BY <1>6, <2>2, <2>3 DEF WriteFile
<1>7. CASE Commit
  <2>1. /\ Tree = [d \in {"path"} |-> Part(Files)]
        /\ Tree' = [d \in {"path"} |-> [there |-> TRUE, files |-> Files, meta |-> Files, age |-> 0]]
        /\ WriterOf = [u \in {"upload"} |-> Busy(Files)]
        /\ WriterOf' = [u \in {"upload"} |-> B!Idle]
    BY <1>7 DEF Commit, HandlerTo, HandlerInv, Tree, WriterOf, B!Idle
  <2>2. Tree' = B!AddMeta(Tree, "path", Files)
    BY <2>1 DEF B!AddMeta
  <2>3. WriterOf["upload"] # B!Idle
    BY <2>1, FilesAssumption DEF B!Idle
  <2>4. B!Commit("upload")
    BY <2>1, <2>2, <2>3 DEF B!Commit, B!Done
  <2> QED
    BY <2>4 DEF B!UploadStep
<1>8. CASE Cancelled \/ JoinRaised \/ CommitFails
  <2>1. /\ Tree = [d \in {"path"} |-> Part(written)]
        /\ Tree' = [d \in {"path"} |-> B!Absent]
        /\ WriterOf = [u \in {"upload"} |-> Busy(written)]
        /\ WriterOf' = [u \in {"upload"} |-> B!Idle]
    BY <1>8 DEF Cancelled, JoinRaised, CommitFails, Abort, HandlerTo, HandlerInv, Tree, WriterOf, B!Idle, B!Absent
  <2>2. Tree' = B!Remove(Tree, {"path"})
    BY <2>1, OneDir
  <2>3. WriterOf["upload"] # B!Idle
    BY <2>1, FilesAssumption DEF B!Idle
  <2>4. B!Abort("upload")
    BY <2>1, <2>2, <2>3, Alone DEF B!Abort, B!Done, B!Removed, B!Hurts
  <2> QED
    BY <2>4 DEF B!UploadStep
<1> QED
  BY <1>2, <1>3, <1>4, <1>5, <1>6, <1>7, <1>8, NextCases

\* The refinement: what BundleDirs takes for granted of a streamed upload, one
\* writer that opens, writes each file once, and commits or aborts, holds of the
\* handler, the pump and the thread together, in every schedule.
THEOREM WriterImplemented == Spec => ImplementsWriter
<1>1. Init => B!Init
  BY DEF Init, B!Init, Tree, WriterOf, B!Absent, B!Idle
<1>2. Types /\ HandlerInv /\ HandlerInv' /\ [Next]_vars => [B!UploadStep("upload")]_(B!vars)
  <2>1. UNCHANGED vars => UNCHANGED B!vars
    BY DEF vars, B!vars, Tree, WriterOf
  <2> QED
    BY <2>1, WriterStep
<1> QED
  BY <1>1, <1>2, TypesAlways, HandlerAlways, PTL DEF Spec, ImplementsWriter

=============================================================================
