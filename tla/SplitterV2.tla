----------------------------- MODULE SplitterV2 -----------------------------
(***************************************************************************)
(* models/interco/splitter_v2.cpp: one request of up to input_width bytes  *)
(* is carved into chunks, chunk i going to output i.  The parent request   *)
(* carries the aggregation state itself, so any number of parents may be   *)
(* in flight; a chunk its output denies is parked there (stuck), and while *)
(* any chunk is parked new parents are refused.                            *)
(*                                                                         *)
(* output_retry is cut at its resp() and retry() calls (splitter_call),    *)
(* from inside which the master may issue again.                           *)
(***************************************************************************)
EXTENDS IoV2, Integers, FiniteSets, FiniteSetsExt

CONSTANTS Parents,                    \* the requests of the master
          Accesses,                   \* <<address, size>> pairs the master issues
          input_width, output_width,
          Answers,                    \* <<latency, is_invalid>> a chunk may come back with
          None

nb_outputs == input_width \div output_width
OutputIds  == 0 .. nb_outputs - 1

Chunks == [parent : Parents, id : OutputIds, addr : Nat, size : 1 .. output_width]

(* The code takes addr & (output_width - 1) for the offset inside a line:  *)
(* the remainder, for a power of two.                                      *)
ASSUME SplitterAssumption ==
    /\ output_width \in Nat \ {0} /\ input_width \in Nat
    /\ \E bits \in 0 .. output_width : output_width = 2 ^ bits
    /\ nb_outputs * output_width = input_width /\ nb_outputs > 0
    /\ Accesses \subseteq Nat \X Nat
    /\ Answers \subseteq Nat \X BOOLEAN
    /\ None \notin Chunks

VARIABLES
    stuck,               \* per output: the chunk it denied
    splitter_needs_retry,  \* input_needs_retry: a parent was refused, a retry() is owed
    remaining_size, latency, invalid,  \* per parent: the aggregation context
    splitter_call,       \* the call output_retry is inside
    fatal,               \* trace.fatal has ended the simulation
    view, acc,           \* the master: its view, the access of each request
    held,                \* the slaves: chunks they hold
    answered             \* per parent: the chunks answered, with their answers

SplitterVars == <<stuck, splitter_needs_retry, remaining_size, latency, invalid,
                  splitter_call, fatal, view, acc, held, answered>>

SplitterInit ==
    /\ stuck = [i \in OutputIds |-> None]
    /\ splitter_needs_retry = FALSE
    /\ remaining_size = [r \in Parents |-> 0]
    /\ latency = [r \in Parents |-> 0] /\ invalid = [r \in Parents |-> FALSE]
    /\ splitter_call = "idle" /\ fatal = FALSE
    /\ view = [r \in Parents |-> "idle"] /\ acc = [r \in Parents |-> <<0, 0>>]
    /\ held = {}
    /\ answered = [r \in Parents |-> {}]

-----------------------------------------------------------------------------
any_stuck == \E i \in OutputIds : stuck[i] # None

(* Mutant: the offset inside the first line is forgotten. *)
CursorUnaligned(a, s, i) == Min({a + i * output_width, a + s})

(* The loop of Splitter::issue.  Cursor: the address the i-th chunk starts *)
(* at.  Each turn moves it to the next output_width boundary, or to the    *)
(* end of the request, where it stays.                                     *)
Cursor(a, s, i) ==
    IF i = 0 THEN a ELSE Min({(a \div output_width + i) * output_width, a + s})

Chunk(r, a, s, i) ==
    [parent |-> r, id |-> i, addr |-> Cursor(a, s, i),
     size |-> Cursor(a, s, i + 1) - Cursor(a, s, i)]

ChunksOf(r, a, s) == {c \in {Chunk(r, a, s, i) : i \in OutputIds} : c.size > 0}

(* The sum of their sizes: each byte of each chunk counts once. *)
Units(chunks)  == UNION {{c} \X (1 .. c.size) : c \in chunks}
SizeOf(chunks) == Cardinality(Units(chunks))

(* Mutant: a short chunk counts for a whole line. *)
AccountWidth(r, left, lat, inv, pairs) ==
    /\ remaining_size' = [remaining_size EXCEPT ![r] = left - output_width * Cardinality(pairs)]
    /\ latency' = [latency EXCEPT ![r] = Max({lat} \cup {p[2][1] : p \in pairs})]
    /\ invalid' = [invalid EXCEPT ![r] = inv \/ \E p \in pairs : p[2][2]]

(* Splitter::account, for several chunks of r with their answers at once. *)
Account(r, left, lat, inv, pairs) ==
    /\ remaining_size' = [remaining_size EXCEPT ![r] = left - SizeOf({p[1] : p \in pairs})]
    /\ latency' = [latency EXCEPT ![r] = Max({lat} \cup {p[2][1] : p \in pairs})]
    /\ invalid' = [invalid EXCEPT ![r] = inv \/ \E p \in pairs : p[2][2]]

(* Splitter::issue: fan the chunks out; st and ans are the slaves' answers. *)
Issue(r, a, s) ==
    LET chunks == ChunksOf(r, a, s)
    IN  \E st \in [chunks -> IoReqStatus] :
        LET With(status) == {c \in chunks : st[c] = status}
        IN  \E ans \in [With(IO_REQ_DONE) -> Answers] :
              LET pairs == {<<c, ans[c]>> : c \in With(IO_REQ_DONE)}
              IN  /\ Account(r, s, 0, FALSE, pairs)
                  /\ answered' = [answered EXCEPT ![r] = pairs]
                  /\ stuck' = [i \in OutputIds |->
                                 IF \E c \in With(IO_REQ_DENIED) : c.id = i
                                 THEN CHOOSE c \in With(IO_REQ_DENIED) : c.id = i
                                 ELSE stuck[i]]
                  /\ held' = held \cup With(IO_REQ_GRANTED)
                  /\ view' = [view EXCEPT ![r] =
                              IF remaining_size'[r] = 0 THEN "idle" ELSE "granted"]

(* Splitter::input_req. *)
Fits(a, s) == (a % output_width) + s <= input_width

SplitterInputReq(r, a, s) ==
    \/ /\ any_stuck
       /\ splitter_needs_retry' = TRUE
       /\ view' = [view EXCEPT ![r] = "denied"]
       /\ UNCHANGED <<stuck, remaining_size, latency, invalid, fatal, held, answered>>
    \/ /\ ~any_stuck /\ s = 0
       /\ invalid' = [invalid EXCEPT ![r] = FALSE]
       /\ view' = [view EXCEPT ![r] = "idle"]
       /\ UNCHANGED <<stuck, splitter_needs_retry, remaining_size, latency, fatal, held,
                      answered>>
    \/ /\ ~any_stuck /\ s > 0 /\ ~Fits(a, s)
       /\ fatal' = TRUE
       /\ UNCHANGED <<stuck, splitter_needs_retry, remaining_size, latency, invalid,
                      view, held, answered>>
    \/ /\ ~any_stuck /\ s > 0 /\ Fits(a, s)
       /\ Issue(r, a, s)
       /\ UNCHANGED <<splitter_needs_retry, fatal>>

(* A fresh request, also from inside resp() or after a re-issue. *)
ParentReq(r) ==
    /\ ~fatal /\ splitter_call \in {"idle", "resp", "retried"}
    /\ view[r] = "idle" /\ NoneDenied(view, Parents)
    /\ \E x \in Accesses : SplitterInputReq(r, x[1], x[2]) /\ acc' = [acc EXCEPT ![r] = x]
    /\ UNCHANGED splitter_call

(* The re-issue a retry() asks for. *)
ParentReissue(r) ==
    /\ ~fatal /\ splitter_call = "retry" /\ view[r] = "denied"
    /\ SplitterInputReq(r, acc[r][1], acc[r][2])
    /\ splitter_call' = "retried"
    /\ UNCHANGED acc

(* One more chunk of a parent answered. *)
AccountOne(c, x) ==
    LET r == c.parent
    IN  /\ Account(r, remaining_size[r], latency[r], invalid[r], {<<c, x>>})
        /\ answered' = [answered EXCEPT ![r] = @ \cup {<<c, x>>}]
        /\ view' = [view EXCEPT ![r] = IF remaining_size[r] = c.size THEN AfterResp(@) ELSE @]

(* Splitter::output_resp. *)
SplitterOutputResp(c) ==
    /\ ~fatal /\ splitter_call = "idle" /\ c \in held
    /\ \E x \in Answers : AccountOne(c, x)
    /\ held' = held \ {c}
    /\ UNCHANGED <<stuck, splitter_needs_retry, splitter_call, fatal, acc>>

(* Splitter::output_retry up to its resp(), if it makes one: replay the    *)
(* parked chunk.                                                           *)
SplitterOutputRetry(i, st) ==
    /\ ~fatal /\ splitter_call = "idle" /\ stuck[i] # None
    /\ LET c == stuck[i]
       IN  \/ /\ st = IO_REQ_DENIED
              /\ UNCHANGED <<stuck, remaining_size, latency, invalid, splitter_call,
                             view, held, answered>>
           \/ /\ st = IO_REQ_DONE
              /\ stuck' = [stuck EXCEPT ![i] = None]
              /\ \E x \in Answers : AccountOne(c, x)
              /\ splitter_call' = IF remaining_size[c.parent] = c.size THEN "resp" ELSE "tail"
              /\ UNCHANGED held
           \/ /\ st = IO_REQ_GRANTED
              /\ stuck' = [stuck EXCEPT ![i] = None]
              /\ held' = held \cup {c}
              /\ splitter_call' = "tail"
              /\ UNCHANGED <<remaining_size, latency, invalid, view, answered>>
    /\ UNCHANGED <<splitter_needs_retry, fatal, acc>>

(* Mutant: the first output to move lets the refused parent in. *)
RetryTailEarly ==
    /\ ~fatal /\ splitter_call \in {"resp", "tail"}
    /\ IF splitter_needs_retry
       THEN splitter_needs_retry' = FALSE /\ splitter_call' = "retry"
       ELSE UNCHANGED splitter_needs_retry /\ splitter_call' = "idle"
    /\ UNCHANGED <<stuck, remaining_size, latency, invalid, fatal, view, acc, held, answered>>

(* Mutant: the owed retry() is not fired. *)
RetryTailNoRetry ==
    /\ ~fatal /\ splitter_call \in {"resp", "tail"}
    /\ splitter_call' = "idle"
    /\ UNCHANGED <<stuck, splitter_needs_retry, remaining_size, latency, invalid, fatal, view,
                   acc, held, answered>>

(* Its last lines: let a refused parent in once no output is stuck. *)
RetryTail ==
    /\ ~fatal /\ splitter_call \in {"resp", "tail"}
    /\ IF splitter_needs_retry /\ ~any_stuck
       THEN splitter_needs_retry' = FALSE /\ splitter_call' = "retry"
       ELSE UNCHANGED splitter_needs_retry /\ splitter_call' = "idle"
    /\ UNCHANGED <<stuck, remaining_size, latency, invalid, fatal, view, acc, held, answered>>

SplitterRetryReturns ==
    /\ ~fatal /\ splitter_call = "retried"
    /\ splitter_call' = "idle"
    /\ UNCHANGED <<stuck, splitter_needs_retry, remaining_size, latency, invalid, fatal, view,
                   acc, held, answered>>

(* Splitter::reset, its surroundings resetting with it. *)
SplitterReset ==
    /\ ~fatal /\ splitter_call = "idle"
    /\ stuck' = [i \in OutputIds |-> None]
    /\ splitter_needs_retry' = FALSE
    /\ view' = [r \in Parents |-> "idle"] /\ acc' = [r \in Parents |-> <<0, 0>>]
    /\ held' = {} /\ answered' = [r \in Parents |-> {}]
    /\ UNCHANGED <<remaining_size, latency, invalid, splitter_call, fatal>>

Halted == fatal /\ UNCHANGED SplitterVars

SplitterNext ==
    \/ \E r \in Parents : ParentReq(r) \/ ParentReissue(r)
    \/ \E c \in held : SplitterOutputResp(c)
    \/ \E i \in OutputIds, st \in IoReqStatus : SplitterOutputRetry(i, st)
    \/ RetryTail \/ SplitterRetryReturns \/ SplitterReset \/ Halted

SplitterSpec == SplitterInit /\ [][SplitterNext]_SplitterVars

(* The slaves answer what they hold, retry what they denied and accept it  *)
(* in the end; calls return and a retried master re-issues.                *)
SplitterFairness ==
    /\ WF_SplitterVars(RetryTail) /\ WF_SplitterVars(SplitterRetryReturns)
    /\ WF_SplitterVars(\E r \in Parents : ParentReissue(r))
    /\ \A i \in OutputIds :
          SF_SplitterVars(\E st \in IoReqStatus \ {IO_REQ_DENIED} :
                              SplitterOutputRetry(i, st))
    /\ \A r \in Parents :
          SF_SplitterVars(\E c \in held : c.parent = r /\ SplitterOutputResp(c))

SplitterFairSpec == SplitterSpec /\ SplitterFairness

-----------------------------------------------------------------------------
SplitterTypeOK ==
    /\ stuck \in [OutputIds -> Chunks \cup {None}]
    /\ splitter_needs_retry \in BOOLEAN
    /\ remaining_size \in [Parents -> Nat] /\ latency \in [Parents -> Nat]
    /\ invalid \in [Parents -> BOOLEAN]
    /\ splitter_call \in {"idle", "resp", "tail", "retry", "retried"} /\ fatal \in BOOLEAN
    /\ view \in [Parents -> MasterStates]
    /\ acc \in [Parents -> Nat \X Nat]
    /\ held \subseteq Chunks
    /\ answered \in [Parents -> SUBSET (Chunks \X Answers)]

StuckOf(r) == {stuck[i] : i \in {j \in OutputIds : stuck[j] # None /\ stuck[j].parent = r}}
HeldOf(r)  == {c \in held : c.parent = r}
DoneOf(r)  == {p[1] : p \in answered[r]}

ByteRange(c) == c.addr .. (c.addr + c.size - 1)
Covered(chunks) == UNION {ByteRange(c) : c \in chunks}

(* While it is granted, its chunks, parked, held by a slave or answered,   *)
(* tile exactly the bytes it asked for, each inside one output_width line, *)
(* and remaining_size is what of them is unanswered.                       *)
TilesRequest(r) ==
    view[r] = "granted" =>
        LET open == StuckOf(r) \cup HeldOf(r)
            all  == open \cup DoneOf(r)
            a == acc[r][1]
            s == acc[r][2]
        IN  /\ Covered(all) = a .. (a + s - 1)
            /\ SizeOf(all) = s
            /\ \A c \in all : c.addr \div output_width
                                = (c.addr + c.size - 1) \div output_width
            /\ remaining_size[r] = SizeOf(open) /\ open # {}

(* Back at its master, all of its bytes are answered, its latency is that  *)
(* of the slowest chunk, and it is invalid when a chunk was.               *)
AnswerIsComplete(r) ==
    /\ view[r] # "error"
    /\ view[r] = "idle" /\ ~fatal /\ answered[r] # {} /\ acc[r][2] > 0 =>
         /\ Covered(DoneOf(r)) = acc[r][1] .. (acc[r][1] + acc[r][2] - 1)
         /\ latency[r] = Max({p[2][1] : p \in answered[r]})
         /\ invalid[r] <=> \E p \in answered[r] : p[2][2]

(* A request is split into its chunks and put together from their answers: *)
(* one that is dropped, doubled or misplaced, a parent completed too early *)
(* or with the answer of one chunk for that of all, breaks it.             *)
ChunksTileRequest == \A r \in Parents : TilesRequest(r) /\ AnswerIsComplete(r)

(* No wake-up is lost: a refused master is owed a retry(), and some output *)
(* is stuck (its retry() fires it) or the handler that fires it is running. *)
NoLostChunk ==
    /\ \A r \in Parents : view[r] = "denied" =>
          splitter_needs_retry \/ splitter_call = "retry" \/ fatal
    /\ splitter_needs_retry => any_stuck \/ splitter_call \in {"resp", "tail"}
    /\ splitter_call = "retry" => ~any_stuck /\ \E r \in Parents : view[r] = "denied"

SplitterPort == INSTANCE IoV2Port WITH Reqs <- Parents

(* The splitter keeps the io_v2 promise to its master, as long as it does  *)
(* not abort the simulation on a request it cannot fan out.                *)
SplitterImplementsPort == SplitterPort!Safety /\ (<>fatal \/ SplitterPort!Progress)
=============================================================================
