---------------------------- MODULE UploadBridge ----------------------------
(***************************************************************************)
(* One POST /upload: the request handler, the pump task that copies the    *)
(* request body into SyncStreamReader's bounded queue, and the worker      *)
(* thread that parses the tar stream out of it.                            *)
(*                                                                         *)
(* Handler and pump are coroutines of the server's only event loop; the    *)
(* worker is a real thread.  Two calls tie them together and are the point *)
(* of this module: feed() and close() are a blocking queue.Queue.put made  *)
(* ON the event loop, and every write_file of the worker is submitted TO   *)
(* the event loop and waited for.  While a put blocks, nothing else runs   *)
(* on the loop: no write_file, no handler step, no other request.          *)
(*                                                                         *)
(* The archive is the client's: what the parser finds in it is a free      *)
(* choice.                                                                 *)
(***************************************************************************)
EXTENDS Naturals, FiniteSets

CONSTANTS
    Files,       \* names the token's manifest declares
    None,        \* no file
    QueueSize,   \* _DEFAULT_QUEUE_SIZE
    MaxChunks    \* bound on the number of non-empty chunks in the body

ASSUME FilesAssumption == Files # {} /\ IsFiniteSet(Files) /\ None \notin Files
ASSUME SizeAssumption  == QueueSize \in Nat \ {0} /\ MaxChunks \in Nat

VARIABLES
    sent,     \* chunks taken from request.stream() so far
    queued,   \* chunks in the queue
    eof,      \* the sentinel: "none", "queued" or "seen" (always the last item)
    pump,     \* "idle", "receive", "feed" (blocked in put), "close" (blocked), "done"
    broken,   \* the body ended with ClientDisconnect
    worker,   \* "read" (in queue.get), "parse", "call", "ok", "raised"
    member,   \* the file whose write_file the worker waits for, or None
    written,  \* FilesystemBundleWriter._written
    handler,  \* "open", "thread", "join", "cancel", then "created" or "failed"
    dir       \* the bundle directory: "absent", "partial" or "committed"

vars == <<sent, queued, eof, pump, broken, worker, member, written, handler, dir>>

\* The token is accepted; pump and thread are not started yet.
Init == /\ sent = 0 /\ queued = 0 /\ eof = "none"
        /\ pump = "idle" /\ broken = FALSE
        /\ worker = "read" /\ member = None /\ written = {}
        /\ handler = "open" /\ dir = "absent"

\* Faulty variants of Room: one slot too many, one too few.
RoomLong == queued + (IF eof = "queued" THEN 1 ELSE 0) <= QueueSize
RoomShort == queued + (IF eof = "queued" THEN 1 ELSE 0) + 1 < QueueSize

Room == queued + (IF eof = "queued" THEN 1 ELSE 0) < QueueSize

LoopFree == pump \notin {"feed", "close"}
Ended == handler \in {"created", "failed"}

-----------------------------------------------------------------------------
(* The pump task *)

\* A chunk arrived; feed() puts it or blocks the loop trying to.
Receive == /\ pump = "receive" /\ handler # "cancel"
           /\ sent < MaxChunks
           /\ sent' = sent + 1
           /\ IF Room THEN queued' = queued + 1 /\ UNCHANGED pump
                      ELSE pump' = "feed" /\ UNCHANGED queued
           /\ UNCHANGED <<eof, broken, worker, member, written, handler, dir>>

FeedUnblocks == /\ pump = "feed" /\ Room
                /\ queued' = queued + 1
                /\ pump' = "receive"
                /\ UNCHANGED <<sent, eof, broken, worker, member, written, handler, dir>>

\* The `finally` of _pump_stream: put the sentinel, or block.
Close == /\ IF Room THEN eof' = "queued" /\ pump' = "done"
                    ELSE pump' = "close" /\ UNCHANGED eof
         /\ UNCHANGED <<sent, queued, worker, member, written, handler, dir>>

\* The body is complete, or the client is gone.
BodyEnds(b) == /\ pump = "receive" /\ handler # "cancel"
               /\ broken' = b
               /\ Close

\* CancelledError reaches the pump at its await.
PumpCancelled == /\ pump = "receive" /\ handler = "cancel"
                 /\ UNCHANGED broken
                 /\ Close

CloseUnblocks == /\ pump = "close" /\ Room
                 /\ eof' = "queued"
                 /\ pump' = "done"
                 /\ UNCHANGED <<sent, queued, broken, worker, member, written, handler, dir>>

-----------------------------------------------------------------------------
(* The worker thread: SyncStreamReader.read under tarfile *)

WorkerTo(w) == /\ worker' = w
               /\ UNCHANGED <<sent, pump, broken, written, handler, dir>>

Get == /\ worker = "read" /\ queued > 0
       /\ queued' = queued - 1
       /\ UNCHANGED <<eof, member>>
       /\ WorkerTo("parse")

GetEof == /\ worker = "read" /\ queued = 0 /\ eof = "queued"
          /\ eof' = "seen"
          /\ UNCHANGED <<queued, member>>
          /\ WorkerTo("parse")

\* Faulty variant of NeedMore: after the sentinel the reader waits again.
NeedMoreAlways == /\ worker = "parse"
                  /\ UNCHANGED <<queued, eof, member>>
                  /\ WorkerTo("read")

\* read(n) has less than n bytes; after the sentinel it returns what it has.
NeedMore == /\ worker = "parse" /\ eof # "seen"
            /\ UNCHANGED <<queued, eof, member>>
            /\ WorkerTo("read")

\* A declared member of the declared size was read completely: submit its
\* write_file to the loop.  No data, no member.
MemberRead(f) == /\ worker = "parse" /\ queued < sent
                 /\ member' = f
                 /\ UNCHANGED <<queued, eof>>
                 /\ WorkerTo("call")

\* Undeclared or irregular member, wrong size, size limit, TarError.
Violation == /\ worker = "parse"
             /\ UNCHANGED <<queued, eof, member>>
             /\ WorkerTo("raised")

\* End of archive, seen before or after the end of the body.
EndOfArchive == /\ worker = "parse"
                /\ UNCHANGED <<queued, eof, member>>
                /\ WorkerTo(IF Files \subseteq written THEN "ok" ELSE "raised")

\* Faulty variant of WriteFile: a second file of the same name is not refused.
WriteFileAgain == /\ worker = "call" /\ LoopFree
                  /\ \/ /\ written' = written \cup {member}
                        /\ worker' = "parse"
                     \/ /\ worker' = "raised"
                        /\ UNCHANGED written
                  /\ dir' = IF dir = "absent" THEN "partial" ELSE dir
                  /\ member' = None
                  /\ UNCHANGED <<sent, queued, eof, pump, broken, handler>>

\* write_file runs on the loop and wakes the worker.  It refuses a second file
\* of the same name, may fail on I/O, and creates the directory if need be.
WriteFile == /\ worker = "call" /\ LoopFree
             /\ \/ /\ member \notin written
                   /\ written' = written \cup {member}
                   /\ worker' = "parse"
                \/ /\ worker' = "raised"
                   /\ UNCHANGED written
             /\ dir' = IF dir = "absent" THEN "partial" ELSE dir
             /\ member' = None
             /\ UNCHANGED <<sent, queued, eof, pump, broken, handler>>

-----------------------------------------------------------------------------
(* The request handler *)

HandlerTo(h) == /\ handler' = h
                /\ UNCHANGED <<sent, queued, eof, pump, broken, worker, member, written>>

\* writer.abort()
Abort == dir' = IF dir = "committed" THEN dir ELSE "absent"

\* open_bundle_write makes the directory; pump and thread are started.
Open == /\ handler = "open"
        /\ handler' = "thread"
        /\ dir' = "partial"
        /\ pump' = "receive"
        /\ UNCHANGED <<sent, queued, eof, broken, worker, member, written>>

\* The path is taken: 409.
Refused == /\ handler = "open"
           /\ UNCHANGED dir
           /\ HandlerTo("failed")

ThreadReturned == /\ handler = "thread" /\ worker = "ok" /\ LoopFree
                  /\ UNCHANGED dir
                  /\ HandlerTo("join")

\* Faulty variant of ThreadRaised: the thread is not waited for.
ThreadAbandoned == /\ handler = "thread" /\ LoopFree
                   /\ UNCHANGED dir
                   /\ HandlerTo("cancel")

\* Any except branch: pump_task.cancel(), then await it.
ThreadRaised == /\ handler = "thread" /\ worker = "raised" /\ LoopFree
                /\ UNCHANGED dir
                /\ HandlerTo("cancel")

\* Faulty variant of Cancelled: the partial directory is not removed.
CancelledNoAbort == /\ handler = "cancel" /\ pump = "done"
                    /\ UNCHANGED dir
                    /\ HandlerTo("failed")

Cancelled == /\ handler = "cancel" /\ pump = "done"
             /\ Abort
             /\ HandlerTo("failed")

\* await pump_task raised ClientDisconnect.
JoinRaised == /\ handler = "join" /\ pump = "done" /\ broken
              /\ Abort
              /\ HandlerTo("failed")

\* Faulty variant of Commit: the end of the body is not awaited.
CommitEarly == /\ handler = "join" /\ LoopFree
               /\ written = Files
               /\ dir' = "committed"
               /\ HandlerTo("created")

\* The whole body arrived: commit checks _written against the manifest.
Commit == /\ handler = "join" /\ pump = "done" /\ ~broken
          /\ written = Files
          /\ dir' = "committed"
          /\ HandlerTo("created")

CommitFails == /\ handler = "join" /\ pump = "done" /\ ~broken
               /\ Abort
               /\ HandlerTo("failed")

-----------------------------------------------------------------------------
Client == Receive \/ \E b \in BOOLEAN : BodyEnds(b)
Pump == FeedUnblocks \/ PumpCancelled \/ CloseUnblocks
Worker == \/ Get \/ GetEof \/ NeedMore \/ Violation \/ EndOfArchive \/ WriteFile
          \/ \E f \in Files : MemberRead(f)
Handler == \/ Open \/ Refused
           \/ ThreadReturned \/ ThreadRaised \/ Cancelled
           \/ JoinRaised \/ Commit \/ CommitFails

Next == Client \/ Pump \/ Worker \/ Handler

Spec == Init /\ [][Next]_vars

\* Loop and thread run whenever they can; the body ends or the connection does.
FairSpec == /\ Spec
            /\ WF_vars(Client) /\ WF_vars(Pump) /\ WF_vars(Worker) /\ WF_vars(Handler)

-----------------------------------------------------------------------------
(* Properties *)

\* The shape of the reader's, the writer's and the handler's state.
TypeOK == /\ sent \in 0..MaxChunks
          /\ queued \in 0..QueueSize
          /\ eof \in {"none", "queued", "seen"}
          /\ pump \in {"idle", "receive", "feed", "close", "done"}
          /\ broken \in BOOLEAN
          /\ worker \in {"read", "parse", "call", "ok", "raised"}
          /\ member \in Files \cup {None}
          /\ written \subseteq Files
          /\ handler \in {"open", "thread", "join", "cancel", "created", "failed"}
          /\ dir \in {"absent", "partial", "committed"}

\* When upload_bundle has answered an error, nothing of the bundle is left and
\* nothing can bring it back: no write_file is still to come that would create
\* the directory again after abort() removed it.
RolledBack == handler = "failed" => dir = "absent" /\ worker # "call"

\* A bundle is committed only from a body that arrived completely, through a
\* parser that reached the end of the archive, with every declared file written.
CommitComplete == dir = "committed" => /\ handler = "created"
                                       /\ worker = "ok"
                                       /\ pump = "done" /\ ~broken
                                       /\ written = Files

\* A body of fewer chunks than the queue has slots never blocks the event loop:
\* there is room for each of them and for the sentinel (SyncStreamReader.feed,
\* close), whatever the parser does.
SmallBodyNeverBlocks == sent < QueueSize => LoopFree

\* What is left to do, in steps of the pump, the parser, the writer and the handler.
PumpLeft == CASE pump \in {"idle", "receive"} -> 2 [] pump = "feed" -> 5 [] pump = "close" -> 1 [] OTHER -> 0
EofLeft == IF eof = "seen" THEN 0 ELSE 2
WorkerLeft == CASE worker = "parse" -> 2 [] worker \in {"read", "call"} -> 1 [] OTHER -> 0
FilesLeft == Cardinality(Files \ written)
HandlerLeft == CASE handler = "open" -> 3 [] handler = "thread" -> 2
                 [] handler \in {"join", "cancel"} -> 1 [] OTHER -> 0
Left == 4 * (MaxChunks - sent) + 2 * queued + 2 * FilesLeft
        + PumpLeft + EofLeft + WorkerLeft + HandlerLeft

\* No upload goes round in circles: whatever the archive contains and however the
\* three take turns, every step leaves less to do than before.
RunsOut == [][Left' < Left]_vars

\* Who can go on: the client, the pump, the worker, the handler.
ClientCan == pump = "receive" /\ handler # "cancel"
PumpCan == (pump = "receive" /\ handler = "cancel") \/ (~LoopFree /\ Room)
WorkerCan == \/ worker = "read" /\ (queued > 0 \/ eof = "queued")
             \/ worker = "parse"
             \/ worker = "call" /\ LoopFree
HandlerCan == \/ handler = "open"
              \/ handler = "thread" /\ worker \in {"ok", "raised"} /\ LoopFree
              \/ handler \in {"join", "cancel"} /\ pump = "done"

\* The one deadlock there is: a put on the event loop finds the queue full while
\* the thread that empties it waits for the loop, or is over.
Clogged == /\ sent >= QueueSize /\ ~LoopFree /\ ~Room
           /\ worker \in {"call", "ok", "raised"}

\* Nobody waits in vain: until the request is answered somebody can go on, unless
\* a long body has clogged the queue (no read waits behind the sentinel, no
\* handler for a pump that has ended, no worker for an idle loop).
StuckOnlyClogged == \/ Ended \/ Clogged
                    \/ ClientCan \/ PumpCan \/ WorkerCan \/ HandlerCan

\* Such an upload is answered, and so is every request waiting behind it.
SmallBodyAnswered == [](sent < QueueSize) => <>Ended

\* The event loop is never blocked for good.
LoopRecovers == ~LoopFree ~> LoopFree

\* The upload as BundleDirs sees it: one path, one writer.
Tree == [d \in {"path"} |-> [there |-> dir # "absent", files |-> IF dir = "absent" THEN {} ELSE written,
                             meta |-> IF dir = "committed" THEN Files ELSE {}, age |-> 0]]
WriterOf == [u \in {"upload"} |->
               IF handler \in {"thread", "join", "cancel"}
               THEN [dir |-> "path", manifest |-> Files, written |-> written]
               ELSE [dir |-> None, manifest |-> {}, written |-> {}]]

B == INSTANCE BundleDirs WITH
        Dirs <- {"path"}, Under <- [d \in {"path"} |-> {}], Names <- Files, Nested <- {},
        Uploads <- {"upload"}, MinAge <- 1,
        fs <- Tree, upload <- WriterOf, hurt <- {}, torn <- {}, crossed <- FALSE

\* Three actors, one writer: on disk the upload does nothing but open, write each
\* file once, and then commit everything or abort, as BundleDirs takes for granted
\* of every upload; nothing of it happens after the end.
ImplementsWriter == B!Init /\ [][B!UploadStep("upload")]_(B!vars)
=============================================================================
