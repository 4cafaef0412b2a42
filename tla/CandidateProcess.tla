-------------------------- MODULE CandidateProcess --------------------------
(***************************************************************************)
(* One invocation of the candidate by the live gate (internal/livegate,    *)
(* process.go runJSONWithInput and stream_json.go).  Four parties meet:    *)
(* the candidate, which writes tokens to an OS pipe and ends; the copier   *)
(* of os/exec, which moves them into an unbuffered in-memory pipe; the     *)
(* goroutine that waits for process and copier; and the strict streaming   *)
(* parser, which may give up long before the candidate does.               *)
(*                                                                         *)
(* A token stands for one JSON token and counts as one byte: "a" and "b"   *)
(* are object keys with their punctuation, "v" and "w" are scalars, "_" is *)
(* white space, "x" is anything the decoder, the UTF-8 reader or the check *)
(* for U+FFFD refuses.  An array index in a path is always "item".         *)
(*                                                                         *)
(* At the root, "a" stands for an envelope field with a type of its own    *)
(* (schema_version, command, ok), "b" for data; "v" is a scalar of that    *)
(* type, "w" one of another type.                                          *)
(***************************************************************************)
EXTENDS Integers, Sequences, FiniteSets, SequencesExt, FiniteSetsExt

CONSTANTS
    Outputs,        \* what a candidate may write: a prefix-closed set of token sequences
    MaxBytes,       \* MaxCandidateJSONBytes
    MaxDepth,       \* MaxCandidateJSONDepth
    PipeCapacity,   \* tokens the OS pipe holds
    ExitCodes       \* codes with which a candidate may end by itself

ASSUME PipeCapacityAssumption == PipeCapacity \in Nat \ {0}
ASSUME LimitAssumption == MaxBytes \in Nat /\ MaxDepth \in Nat

Keys    == {"a", "b"}
Scalars == {"v", "w"}
Object == "{"
Array  == "["
Opens  == {Object, Array}
Closes == {"}", "]"}
Tokens == Opens \cup Closes \cup Keys \cup Scalars \cup {"_", "x"}
Close(open) == IF open = Object THEN "}" ELSE "]"

ASSUME OutputAssumption == Outputs \subseteq Seq(Tokens)

CommandExits == {0, 1, 2, 3, 4, 5, 6, 7, 130}   \* processCommandExit
Signaled     == -1                              \* ExitCode of a killed process
NoResult     == -2

(* The paths the projection looks at, and what it saw there.               *)
Tracked == {<< >>, <<"a">>, <<"b", "a">>}
Absent  == "absent"

VARIABLES
    candidate,      \* "unstarted", "running" or "ended"
    code,           \* how it ended
    written,        \* everything it has written (history)
    osPipe,         \* written and not yet read by the copier
    chunk,          \* what the copier is writing into the in-memory pipe
    copier,         \* "running", "copied" or "failed"
    result,         \* what runCandidateProcess returned, NoResult before
    writerClosed,   \* the in-memory pipe is closed by its writer
    parser,         \* "parsing", "accepted" or "refused"
    stack,          \* the open containers: kind, keys seen, pending key
    rooted,         \* the root value has begun
    taken,          \* tokens the limited reader has let through
    projection,     \* what was seen at the tracked paths
    invalid,        \* the root or an envelope field was of the wrong type
    readerClosed,   \* the in-memory pipe is closed by its reader
    canceled,       \* the context is done
    outcome         \* "none", "canceled", "fault" or "read"

process == <<candidate, code, written, osPipe>>
pump    == <<chunk, copier>>
parsing == <<parser, stack, rooted, taken, projection, invalid>>
ends    == <<result, writerClosed, readerClosed, canceled, outcome>>
vars    == <<process, pump, parsing, ends>>

Init ==
    /\ candidate = "unstarted" /\ code = 0 /\ written = << >> /\ osPipe = << >>
    /\ chunk = << >> /\ copier = "running"
    /\ parser = "parsing" /\ stack = << >> /\ rooted = FALSE /\ taken = 0
    /\ projection = [p \in Tracked |-> Absent] /\ invalid = FALSE
    /\ result = NoResult /\ writerClosed = FALSE /\ readerClosed = FALSE
    /\ canceled \in BOOLEAN /\ outcome = "none"

(* ------------------- the candidate (its own process) ------------------- *)

CandidateWrites ==
    /\ candidate = "running" /\ copier = "running"
    /\ Len(osPipe) < PipeCapacity
    /\ \E text \in Outputs :
          /\ Len(text) = Len(written) + 1 /\ IsPrefix(written, text)
          /\ written' = text
          /\ osPipe' = Append(osPipe, Last(text))
    /\ UNCHANGED <<candidate, code, pump, parsing, ends>>

(* Nobody reads any more: the signal ends a candidate that still writes.   *)
CandidateBreaks ==
    /\ candidate = "running" /\ copier # "running"
    /\ candidate' = "ended" /\ code' = Signaled
    /\ UNCHANGED <<written, osPipe, pump, parsing, ends>>

CandidateExits ==
    /\ candidate = "running"
    /\ candidate' = "ended"
    /\ code' \in ExitCodes
    /\ UNCHANGED <<written, osPipe, pump, parsing, ends>>

(* Ctrl-C, or the deadline of a cleanup command.                           *)
Cancel ==
    /\ ~canceled /\ outcome = "none"
    /\ canceled' = TRUE
    /\ UNCHANGED <<process, pump, parsing, result, writerClosed, readerClosed, outcome>>

(* -------------- exec.CommandContext: start, kill and wait -------------- *)

Start ==
    /\ candidate = "unstarted" /\ result = NoResult /\ ~canceled
    /\ candidate' = "running"
    /\ UNCHANGED <<code, written, osPipe, pump, parsing, ends>>

(* The context was done before, or the file cannot be executed.            *)
StartFails ==
    /\ candidate = "unstarted" /\ result = NoResult
    /\ result' = IF canceled THEN 130 ELSE -1
    /\ UNCHANGED <<process, pump, parsing, writerClosed, readerClosed, canceled, outcome>>

Kill ==
    /\ canceled /\ candidate = "running"
    /\ candidate' = "ended" /\ code' = Signaled
    /\ UNCHANGED <<written, osPipe, pump, parsing, ends>>

CopierReads ==
    /\ candidate # "unstarted" /\ copier = "running"
    /\ chunk = << >> /\ osPipe # << >>
    /\ chunk' = osPipe /\ osPipe' = << >>
    /\ UNCHANGED <<candidate, code, written, copier, parsing, ends>>

CopierEnds ==
    /\ candidate = "ended" /\ copier = "running"
    /\ chunk = << >> /\ osPipe = << >>
    /\ copier' = "copied"
    /\ UNCHANGED <<process, chunk, parsing, ends>>

(* A write into a pipe whose reader is closed fails.                       *)
CopierFails ==
    /\ copier = "running" /\ chunk # << >> /\ readerClosed
    /\ copier' = "failed"
    /\ UNCHANGED <<process, chunk, parsing, ends>>

(* Run returns once the process has ended and the copier is done.          *)
WaitReturns ==
    /\ candidate = "ended" /\ copier # "running" /\ result = NoResult
    /\ LET clean == code = 0 /\ copier = "copied"
       IN  result' = CASE clean               -> 0
                       [] ~clean /\ canceled  -> 130
                       [] ~clean /\ ~canceled -> IF code # 0 THEN code ELSE -1
    /\ UNCHANGED <<process, pump, parsing, writerClosed, readerClosed, canceled, outcome>>

CloseWriter ==
    /\ result # NoResult /\ ~writerClosed
    /\ writerClosed' = TRUE
    /\ UNCHANGED <<process, pump, parsing, result, readerClosed, canceled, outcome>>

(* ---------------- stream_json.go: the strict parser -------------------- *)

NoKey       == "none"    \* no member of the object is pending
Frame(open) == [kind |-> open, seen |-> {}, key |-> NoKey]
Top         == Last(stack)

Path == [i \in 1..Len(stack) |-> IF stack[i].kind = Object THEN stack[i].key ELSE "item"]

(* A value may begin here: as the root, after a key, or in an array.       *)
FitsValue(token) ==
    /\ token \in Opens \cup Scalars
    /\ IF stack = << >> THEN ~rooted ELSE Top.kind = Object => Top.key # NoKey
    /\ token \in Opens => Len(stack) < MaxDepth

FitsKey_Mutant(token) ==
    token \in Keys /\ stack # << >> /\ Top.kind = Object /\ Top.key = NoKey

(* The key of the object's next member, which no earlier member has.       *)
FitsKey(token) ==
    token \in Keys /\ stack # << >> /\ Top.kind = Object /\ Top.key = NoKey /\ token \notin Top.seen

FitsClose(token) ==
    token \in Closes /\ stack # << >> /\ token = Close(Top.kind) /\ Top.key = NoKey

(* A value is complete: the container around it goes on.                   *)
Settled(frames) ==
    IF frames = << >> THEN frames ELSE [frames EXCEPT ![Len(frames)].key = NoKey]

(* The root must be an object, an envelope field a scalar of its type.     *)
Misplaced(token) ==
    \/ Path = << >> /\ token # Object
    \/ Path = <<"a">> /\ token # "v"

project(token) ==
    /\ projection' = IF Path \in Tracked THEN [projection EXCEPT ![Path] = token] ELSE projection
    /\ invalid' = (invalid \/ Misplaced(token))

projectCandidateJSONValue(token) ==
    /\ FitsValue(token)
    /\ project(token)
    /\ rooted' = TRUE
    /\ stack' = IF token \in Scalars THEN Settled(stack) ELSE Append(stack, Frame(token))
    /\ UNCHANGED parser

(* The object notes the key of its next member.                            *)
Keyed(frame, token) == [frame EXCEPT !.key = token, !.seen = @ \cup {token}]

projectCandidateJSONObject(token) ==
    /\ FitsKey(token)
    /\ stack' = [stack EXCEPT ![Len(stack)] = Keyed(@, token)]
    /\ UNCHANGED <<rooted, projection, invalid, parser>>

ContainerEnds(token) ==
    /\ FitsClose(token)
    /\ stack' = Settled(Front(stack))
    /\ UNCHANGED <<rooted, projection, invalid, parser>>

WhiteSpace(token) ==
    token = "_" /\ UNCHANGED <<stack, rooted, projection, invalid, parser>>

(* Anything else: what is no token, and a token after the document.        *)
Refused(token) ==
    /\ token # "_" /\ ~FitsValue(token) /\ ~FitsKey(token) /\ ~FitsClose(token)
    /\ parser' = "refused"
    /\ UNCHANGED <<stack, rooted, projection, invalid>>

ParserTakes ==
    /\ parser = "parsing" /\ chunk # << >> /\ taken <= MaxBytes
    /\ chunk' = Tail(chunk) /\ taken' = taken + 1
    /\ \/ WhiteSpace(Head(chunk))
       \/ projectCandidateJSONValue(Head(chunk))
       \/ projectCandidateJSONObject(Head(chunk))
       \/ ContainerEnds(Head(chunk))
       \/ Refused(Head(chunk))
    /\ UNCHANGED <<process, copier, ends>>

(* The limited reader has given everything it may: the text is too long.   *)
ParserAtLimit ==
    /\ parser = "parsing" /\ taken = MaxBytes + 1
    /\ parser' = "refused"
    /\ UNCHANGED <<process, pump, stack, rooted, taken, projection, invalid, ends>>

(* Mutant: the document is over as soon as its root value is.              *)
ParserAtEnd_Mutant ==
    /\ parser = "parsing"
    /\ \/ rooted /\ stack = << >>
       \/ chunk = << >> /\ writerClosed /\ taken <= MaxBytes
    /\ parser' = IF rooted /\ stack = << >> THEN "accepted" ELSE "refused"
    /\ UNCHANGED <<process, pump, stack, rooted, taken, projection, invalid, ends>>

ParserAtEnd ==
    /\ parser = "parsing" /\ chunk = << >> /\ writerClosed /\ taken <= MaxBytes
    /\ parser' = IF rooted /\ stack = << >> THEN "accepted" ELSE "refused"
    /\ UNCHANGED <<process, pump, stack, rooted, taken, projection, invalid, ends>>

(* Mutant: the result is awaited before the reader is closed.              *)
CloseReader_Mutant ==
    /\ parser # "parsing" /\ ~readerClosed /\ writerClosed
    /\ readerClosed' = TRUE
    /\ UNCHANGED <<process, pump, parsing, result, writerClosed, canceled, outcome>>

CloseReader ==
    /\ parser # "parsing" /\ ~readerClosed
    /\ readerClosed' = TRUE
    /\ UNCHANGED <<process, pump, parsing, result, writerClosed, canceled, outcome>>

(* Mutant: what the projection says of the root and the envelope is lost.  *)
parseErr_Mutant == parser = "refused"

(* Refused by the parser, or by the projection of the root and envelope.   *)
parseErr == parser = "refused" \/ invalid

(* The result is in: the context decides first.  A reply that is "read"    *)
(* goes on to the checks of its envelope (LiveGateObservations).           *)
Conclude ==
    /\ readerClosed /\ writerClosed /\ outcome = "none"
    /\ outcome' = CASE canceled -> "canceled"
                    [] ~canceled /\ (result \notin CommandExits \/ parseErr) -> "fault"
                    [] ~canceled /\ result \in CommandExits /\ ~parseErr -> "read"
    /\ UNCHANGED <<process, pump, parsing, result, writerClosed, readerClosed, canceled>>

Returned == outcome # "none" /\ UNCHANGED vars

Candidate == CandidateWrites \/ CandidateBreaks \/ CandidateExits

Gate ==
    \/ Start \/ StartFails \/ Kill \/ WaitReturns \/ CloseWriter
    \/ CopierReads \/ CopierEnds \/ CopierFails
    \/ ParserTakes \/ ParserAtLimit \/ ParserAtEnd \/ CloseReader \/ Conclude

Next == Candidate \/ Cancel \/ Gate \/ Returned

(* The goroutines of the gate keep running and the kernel carries out the  *)
(* kill.  The candidate owes nothing: it may hang for ever.                *)
Spec == Init /\ [][Next]_vars /\ WF_vars(Gate)

(* ----------------------- the reference document ------------------------ *)
(* What a document is, told by positions instead of by a stack.            *)

Opening(t, i) == t[i] \in Opens
Closing(t, i) == t[i] \in Closes

(* The nesting of position i; a bracket has the nesting of its container.  *)
Level(t, i) ==
    Cardinality({j \in 1..(i - 1) : Opening(t, j)}) - Cardinality({j \in 1..i : Closing(t, j)})

(* The opening bracket of the container around i, or of the one i closes.  *)
OpenedBy(t, i) ==
    LET outer == Level(t, i) - (IF Closing(t, i) THEN 0 ELSE 1)
    IN  Max({j \in 1..(i - 1) : Opening(t, j) /\ Level(t, j) = outer})

Members(t, c) ==
    {i \in 1..Len(t) : ~Closing(t, i) /\ Level(t, i) > 0 /\ OpenedBy(t, i) = c}

Balanced(t) ==
    /\ Cardinality({i \in 1..Len(t) : Opening(t, i)})
         = Cardinality({i \in 1..Len(t) : Closing(t, i)})
    /\ \A i \in 1..Len(t) : Level(t, i) >= 0
    /\ \A i \in 1..Len(t) : Closing(t, i) => t[i] = Close(t[OpenedBy(t, i)])

(* Keys and values alternate, and no key comes twice.                      *)
ObjectAt(t, c) ==
    LET members  == Members(t, c)
        Rank(i)  == Cardinality({j \in members : j <= i})
    IN  /\ Cardinality(members) % 2 = 0
        /\ \A i \in members : t[i] \in Keys <=> Rank(i) % 2 = 1
        /\ \A i, j \in members : t[i] = t[j] /\ t[i] \in Keys => i = j

ArrayAt(t, c) == \A i \in Members(t, c) : t[i] \notin Keys

OneDocument(t) ==
    /\ \A i \in 1..Len(t) : t[i] # "x"
    /\ Balanced(t)
    /\ \E root \in 1..Len(t) :
          /\ t[root] \notin Keys
          /\ {i \in 1..Len(t) : Level(t, i) = 0 /\ ~Closing(t, i)} = {root}
    /\ \A i \in 1..Len(t) : Opening(t, i) => Level(t, i) < MaxDepth
    /\ \A i \in 1..Len(t) : t[i] = Object => ObjectAt(t, i)
    /\ \A i \in 1..Len(t) : t[i] = Array => ArrayAt(t, i)

(* The path of the value at i, from the containers around it outwards.     *)
PathOf(t, i) ==
    LET path[j \in 1..Len(t)] ==
            IF Level(t, j) = 0 THEN << >>
            ELSE LET c == OpenedBy(t, j)
                 IN  Append(path[c], IF t[c] = Object THEN t[j - 1] ELSE "item")
    IN  path[i]

Sees(t, p) ==
    {t[i] : i \in {k \in 1..Len(t) : t[k] \in Opens \cup Scalars /\ PathOf(t, k) = p}}

Text == SelectSeq(written, LAMBDA token : token # "_")

(* ----------------------------- properties ------------------------------ *)

(* A type invariant.                                                       *)
TypeOK ==
    /\ candidate \in {"unstarted", "running", "ended"}
    /\ copier \in {"running", "copied", "failed"}
    /\ parser \in {"parsing", "accepted", "refused"}
    /\ taken \in 0..(MaxBytes + 1)
    /\ outcome \in {"none", "canceled", "fault", "read"}
    /\ rooted \in BOOLEAN /\ invalid \in BOOLEAN
    /\ writerClosed \in BOOLEAN /\ readerClosed \in BOOLEAN /\ canceled \in BOOLEAN
    /\ DOMAIN projection = Tracked

(* An invocation that nobody canceled is read exactly when the candidate   *)
(* ended by itself with a code of the contract after writing one document  *)
(* within the limits and nothing else, an object whose envelope field, if  *)
(* it has one, is a scalar of its type; and the projection then holds what *)
(* that document has at the tracked paths, at whatever token and in        *)
(* whatever order process, copier, waiter and parser met                   *)
(* (runJSONWithInput, projectCandidateJSONNodes, candidateProjection).     *)
ReadsOneWholeDocument ==
    outcome \in {"fault", "read"} =>
        /\ outcome = "read" <=>
               /\ candidate = "ended" /\ code \in CommandExits
               /\ Len(written) <= MaxBytes /\ OneDocument(Text)
               /\ Sees(Text, << >>) = {Object} /\ Sees(Text, <<"a">>) \subseteq {"v"}
        /\ outcome = "read" =>
               \A p \in Tracked :
                   Sees(Text, p) = IF projection[p] = Absent THEN {} ELSE {projection[p]}

(* Nothing is lost, doubled or reordered between the candidate and the     *)
(* parser: what is on its way through the two pipes is what was written    *)
(* and not yet read, in order.  The parser accepts only what is the whole  *)
(* output of a candidate that has ended.  An invocation that nobody        *)
(* canceled is read exactly when the parser accepts, what it saw is an     *)
(* object with an envelope field of the right type or none, and the        *)
(* candidate's own exit code is one of the contract                        *)
(* (runCandidateProcess, which returns after the last write;               *)
(* runJSONWithInput, which closes the pipe after that and looks at the     *)
(* projection; candidateProjection.project).                               *)
JudgesWholeOutput ==
    /\ chunk \o osPipe = SubSeq(written, taken + 1, Len(written))
    /\ parser = "accepted" => /\ candidate = "ended"
                              /\ taken = Len(written) /\ taken <= MaxBytes
    /\ outcome \in {"fault", "read"} =>
          (outcome = "read" <=>
              /\ parser = "accepted" /\ code \in CommandExits
              /\ projection[<< >>] = Object /\ projection[<<"a">>] \in {Absent, "v"})

(* What was seen at a place of the reply is never replaced by what comes   *)
(* later: no reply reads one way to a parser that keeps the first value    *)
(* and another way to one that keeps the last                              *)
(* (projectCandidateJSONObject, which refuses a key it has seen).          *)
SeenStays ==
    [][\A p \in Tracked : projection[p] # Absent => projection'[p] = projection[p]]_vars

(* An invocation whose candidate has ended or whose context is done        *)
(* returns, wherever the parser gave up and however full the pipes are     *)
(* (runJSONWithInput, which closes its reader before it waits).            *)
InvocationReturns == (candidate = "ended" \/ canceled) ~> outcome # "none"
=============================================================================
