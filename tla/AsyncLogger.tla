----------------------------- MODULE AsyncLogger -----------------------------
(***************************************************************************)
(* AsyncLogger with the Buffer it fills and the Logger and LogStream that  *)
(* feed it (src/base/AsyncLogger.cpp, include/base/Buffer.hpp,             *)
(* src/base/Logger.cpp, include/base/LogStream.h, src/base/LogStream.cpp;  *)
(* how a number becomes text is the subject of LogFormat).                 *)
(*                                                                         *)
(* A buffer is the sequence of the messages copied into it; a BufferPtr is *)
(* a buffer or Null.  A critical section of mutex_ is one action.          *)
(* wait_for has no predicate and a timeout: it ends by a notification, a   *)
(* timeout or spuriously, and the worker goes on in the same way.          *)
(***************************************************************************)
EXTENDS LogFormat

CONSTANTS SIZE,         \* LOG_BUFFER_SIZE
          BodyLens,     \* lengths of the texts a program logs
          NumberLens,   \* lengths of the numbers a program logs
          MaxLogged,    \* bound: messages logged
          FileOpens,    \* the outcomes of fopen
          Null          \* a BufferPtr that was moved from

ASSUME SIZEAssumption == SIZE \in Nat \ {0}
ASSUME BodyLensAssumption == BodyLens \subseteq Nat
ASSUME NumberLensAssumption == NumberLens \subseteq Nat
ASSUME MaxLoggedAssumption == MaxLogged \in Nat
ASSUME FileOpensAssumption == FileOpens \subseteq BOOLEAN

VARIABLES
    cur_buffer_, next_buffer_, dirty_buffer_,   \* guarded by mutex_
    running_state,
    fp_ptr,               \* the file is open
    to_file_buffers, to_file_buffer, to_file_buffer_next,  \* the worker's locals
    written,              \* how many of to_file_buffers are written
    worker,               \* where append_log_file is
    owner,                \* the thread that creates and destroys the logger
    file,                 \* history: the messages in the file
    logged,               \* history: the messages appended
    aborted               \* an assert has failed

sharedVars == <<cur_buffer_, next_buffer_, dirty_buffer_>>
localVars == <<to_file_buffers, to_file_buffer, to_file_buffer_next, written>>
vars == <<sharedVars, running_state, fp_ptr, localVars, worker, owner,
          file, logged, aborted>>

Bodies == [kind : {"text"}, len : BodyLens] \cup [kind : {"number"}, len : NumberLens]

Message == [id : 1 .. MaxLogged, len : 0 .. SIZE]
BufferPtr == Seq(Message) \cup {Null}

ASSUME NullAssumption == Null \notin Seq(Message)

TypeOK ==
    /\ cur_buffer_ \in BufferPtr /\ next_buffer_ \in BufferPtr
    /\ dirty_buffer_ \in Seq(Seq(Message))
    /\ running_state \in BOOLEAN
    /\ fp_ptr \in BOOLEAN
    /\ to_file_buffers \in Seq(Seq(Message))
    /\ to_file_buffer \in BufferPtr /\ to_file_buffer_next \in BufferPtr
    /\ written \in Nat
    /\ worker \in {"none", "loop", "lock", "waiting", "write", "exited"}
    /\ owner \in {"none", "up", "joining", "joined"}
    /\ file \in Seq(Message) /\ logged \in Seq(Message)
    /\ aborted \in BOOLEAN

Init ==
    /\ cur_buffer_ = <<>> /\ next_buffer_ = <<>> /\ dirty_buffer_ = <<>>
    /\ running_state = FALSE
    /\ fp_ptr \in FileOpens
    /\ to_file_buffers = <<>>
    /\ to_file_buffer = <<>> /\ to_file_buffer_next = <<>>
    /\ written = 0
    /\ worker = "none" /\ owner = "none"
    /\ file = <<>> /\ logged = <<>>
    /\ aborted = FALSE

-----------------------------------------------------------------------------
(* Buffer.                                                                 *)

(* The bytes in a buffer.                                                  *)
size(b) ==
    LET upTo[i \in 0 .. Len(b)] == IF i = 0 THEN 0 ELSE upTo[i - 1] + b[i].len
    IN upTo[Len(b)]

avail(b) == SIZE - size(b)

(* Buffer::append: all of it or nothing.                                   *)
BufAppend(b, m) == IF m.len > avail(b) THEN b ELSE Append(b, m)

(* The LogStream of one Logger: the prefix, the body and the newline, each *)
(* dropped if it does not fit; a number is dropped already when the        *)
(* longest one would not fit.                                              *)
Insert(n, len) == IF len > SIZE - n THEN n ELSE n + len

InsertBody(n, body) ==
    IF body.kind = "number" /\ SIZE - n < K_MAXNUMERIC_SIZE THEN n ELSE Insert(n, body.len)

StreamLen(body) == Insert(InsertBody(Insert(0, 1), body), 1)

-----------------------------------------------------------------------------
(* thread_once: the first Logger creates the AsyncLogger and runs it.      *)
ThreadOnce ==
    /\ owner = "none"
    /\ owner' = "up"
    /\ running_state' = TRUE
    /\ worker' = "loop"
    /\ UNCHANGED <<sharedVars, fp_ptr, localVars, file, logged, aborted>>

(* AsyncLogger::append, called by ~Logger of any thread.                   *)
AppendDropsFull(body) ==
    /\ owner \in {"up", "joining"}
    /\ Len(logged) < MaxLogged
    /\ LET m == [id |-> Len(logged) + 1, len |-> StreamLen(body)]
       IN /\ cur_buffer_' = BufAppend(cur_buffer_, m)
          /\ logged' = Append(logged, m)
    /\ UNCHANGED <<next_buffer_, dirty_buffer_, running_state, fp_ptr, localVars,
                   worker, owner, file, aborted>>

append(body) ==
    /\ owner \in {"up", "joining"}
    /\ Len(logged) < MaxLogged
    /\ LET m == [id |-> Len(logged) + 1, len |-> StreamLen(body)]
       IN /\ IF avail(cur_buffer_) > m.len
             THEN /\ cur_buffer_' = BufAppend(cur_buffer_, m)
                  /\ UNCHANGED <<next_buffer_, dirty_buffer_>>
             ELSE /\ dirty_buffer_' = Append(dirty_buffer_, cur_buffer_)
                  /\ cur_buffer_' = BufAppend(IF next_buffer_ # Null
                                              THEN next_buffer_ ELSE <<>>, m)
                  /\ next_buffer_' = Null
          /\ logged' = Append(logged, m)
    /\ UNCHANGED <<running_state, fp_ptr, localVars, worker, owner, file, aborted>>

-----------------------------------------------------------------------------
(* append_log_file, the worker thread.                                     *)

(* while (running_state), read without the mutex.                          *)
CheckRunning ==
    /\ worker = "loop"
    /\ running_state
    /\ worker' = "lock"
    /\ UNCHANGED <<sharedVars, running_state, fp_ptr, localVars, owner,
                   file, logged, aborted>>

(* Nothing to write: wait_for gives up the mutex.                          *)
Wait ==
    /\ worker = "lock"
    /\ cur_buffer_ = <<>>
    /\ worker' = "waiting"
    /\ UNCHANGED <<sharedVars, running_state, fp_ptr, localVars, owner,
                   file, logged, aborted>>

(* The rest of the critical section, at once or after the wait.            *)
MoveBuffers ==
    /\ to_file_buffers' = Append(dirty_buffer_, cur_buffer_)
    /\ dirty_buffer_' = <<>>
    /\ cur_buffer_' = to_file_buffer
    /\ to_file_buffer' = Null
    /\ written' = 0
    /\ worker' = "write"
    /\ aborted' = (~fp_ptr \/ cur_buffer_ = Null)
    /\ UNCHANGED <<running_state, fp_ptr, owner, file, logged>>

RefillNextAlways ==
    next_buffer_' = to_file_buffer_next /\ to_file_buffer_next' = Null

RefillNext ==
    IF next_buffer_ = Null
    THEN next_buffer_' = to_file_buffer_next /\ to_file_buffer_next' = Null
    ELSE UNCHANGED <<next_buffer_, to_file_buffer_next>>

SwapWhenDirty ==
    /\ \/ worker = "waiting" /\ dirty_buffer_ # <<>>
       \/ worker = "lock" /\ cur_buffer_ # <<>>
    /\ MoveBuffers
    /\ RefillNext

Swap ==
    /\ \/ worker = "waiting"
       \/ worker = "lock" /\ cur_buffer_ # <<>>
    /\ MoveBuffers
    /\ RefillNext

(* One fwrite.                                                             *)
WriteBuffer ==
    /\ worker = "write"
    /\ written < Len(to_file_buffers)
    /\ file' = file \o to_file_buffers[written + 1]
    /\ written' = written + 1
    /\ UNCHANGED <<sharedVars, running_state, fp_ptr, to_file_buffers,
                   to_file_buffer, to_file_buffer_next, worker, owner,
                   logged, aborted>>

(* fflush; two of the written buffers, cleared, replace the ones given     *)
(* away, the others are freed.                                             *)
NeededBuffers == (IF to_file_buffer = Null THEN 1 ELSE 0)
                   + (IF to_file_buffer_next = Null THEN 1 ELSE 0)

RecycledUncleared(b) ==
    IF b = Null THEN to_file_buffers[Len(to_file_buffers)] ELSE b

Recycled(b) == IF b = Null THEN <<>> ELSE b

Recycle ==
    /\ worker = "write"
    /\ written = Len(to_file_buffers)
    /\ aborted' = (Len(to_file_buffers) < NeededBuffers)
    /\ to_file_buffer' = Recycled(to_file_buffer)
    /\ to_file_buffer_next' = Recycled(to_file_buffer_next)
    /\ to_file_buffers' = <<>>
    /\ written' = 0
    /\ worker' = "loop"
    /\ UNCHANGED <<sharedVars, running_state, fp_ptr, owner, file, logged>>

(* while (running_state) ends.                                             *)
Exit ==
    /\ worker = "loop"
    /\ ~running_state
    /\ worker' = "exited"
    /\ UNCHANGED <<sharedVars, running_state, fp_ptr, localVars, owner,
                   file, logged, aborted>>

-----------------------------------------------------------------------------
(* terminate: the flag, the notification, the join.                        *)
Terminate ==
    /\ owner = "up"
    /\ running_state' = FALSE
    /\ owner' = "joining"
    /\ UNCHANGED <<sharedVars, fp_ptr, localVars, worker, file, logged, aborted>>

Join ==
    /\ owner = "joining"
    /\ worker = "exited"
    /\ owner' = "joined"
    /\ UNCHANGED <<sharedVars, running_state, fp_ptr, localVars, worker,
                   file, logged, aborted>>

WorkerStep == CheckRunning \/ Wait \/ Swap \/ WriteBuffer \/ Recycle \/ Exit

(* Nothing happens after an abort or once the logger is gone.              *)
Done == (aborted \/ owner = "joined") /\ UNCHANGED vars

Next ==
    \/ ~aborted /\ ThreadOnce
    \/ ~aborted /\ \E body \in Bodies : append(body)
    \/ ~aborted /\ WorkerStep
    \/ ~aborted /\ Terminate
    \/ ~aborted /\ Join
    \/ Done

Spec == Init /\ [][Next]_vars

(* The worker runs, wait_for times out, and join returns.                  *)
Fairness == WF_vars(~aborted /\ WorkerStep) /\ WF_vars(~aborted /\ Join)

FairSpec == Spec /\ Fairness

-----------------------------------------------------------------------------
(* All messages in a sequence of buffers, in order.                        *)
Flatten(bs) ==
    LET upTo[i \in 0 .. Len(bs)] == IF i = 0 THEN <<>> ELSE upTo[i - 1] \o bs[i]
    IN upTo[Len(bs)]

(* The asserts of append_log_file hold whenever the file could be opened:  *)
(* cur_buffer_ is never null, and there are always enough written buffers  *)
(* to replace the ones handed to the producers.                            *)
AssertsHold == fp_ptr => ~aborted

(* No message is lost, duplicated or reordered on its way through the      *)
(* buffers, and no buffer is reused with something in it.                  *)
NothingLost ==
    ~aborted =>
      logged = file
                 \o Flatten(SubSeq(to_file_buffers, written + 1, Len(to_file_buffers)))
                 \o Flatten(dirty_buffer_) \o cur_buffer_

(* No buffer overflows: the copy in Buffer::append stays inside it.        *)
NoOverflow ==
    /\ size(cur_buffer_) <= SIZE
    /\ \A i \in 1 .. Len(dirty_buffer_) : size(dirty_buffer_[i]) <= SIZE

(* Every message is in the file or in exactly one buffer, in the order of  *)
(* the appends, and inside the buffer.                                     *)
BuffersHoldTheRest == NothingLost /\ NoOverflow

(* The file is a prefix of the log that only grows.                        *)
Sink == INSTANCE LogSink WITH Messages <- Message

ImplementsSink == Sink!Spec

(* While the logger runs, every message reaches the file, however little   *)
(* is logged after it.                                                     *)
LoggedIsWritten ==
    \A n \in 1 .. MaxLogged :
        Len(logged) >= n ~> Len(file) >= n \/ owner \in {"joining", "joined"} \/ aborted

(* terminate() returns although its notification may come when nobody is   *)
(* waiting yet.                                                            *)
TerminateReturns == owner = "joining" ~> owner = "joined" \/ aborted

=============================================================================
