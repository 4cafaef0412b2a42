---------------------------- MODULE ProcessProofs ----------------------------
(***************************************************************************)
(* Proofs about CandidateProcess for any outputs, limits, exit codes and   *)
(* capacity of the pipe.                                                   *)
(*                                                                         *)
(* There are two inductive invariants.  IInv says what is on its way       *)
(* between candidate and parser, and what each of the four parties may     *)
(* conclude of the others when it stops: the copier of the candidate, the  *)
(* waiter of copier and candidate, the parser of the waiter, the caller of *)
(* all.  ReadInv says which keys the open objects have noted, given what   *)
(* the gate has seen, and that the gate has judged what it has seen.       *)
(***************************************************************************)
EXTENDS CandidateProcess, SequenceTheorems, TLAPS

Typed ==
  /\ TypeOK
  /\ written \in Seq(Tokens) /\ osPipe \in Seq(Tokens) /\ chunk \in Seq(Tokens)

(* What has been written is what was taken, then what is on its way.       *)
OnTheWay(w, k, c, o) == c \o o = SubSeq(w, k + 1, Len(w))
Accounted == taken <= Len(written) /\ OnTheWay(written, taken, chunk, osPipe)

(* A candidate that never started has written nothing.                     *)
Unborn == candidate = "unstarted" => /\ written = << >> /\ osPipe = << >> /\ chunk = << >>
                                     /\ copier = "running" /\ ~rooted

(* The copier ends with everything copied, or because nobody reads.        *)
Copied ==
  /\ copier = "copied" => candidate = "ended" /\ chunk = << >> /\ osPipe = << >>
  /\ copier = "failed" => readerClosed
  /\ readerClosed => parser # "parsing"

(* What the result of Run says of the candidate.                           *)
Waited ==
  /\ result # NoResult =>
       \/ candidate = "unstarted"
       \/ /\ candidate = "ended" /\ copier # "running"
          /\ canceled \/ copier = "failed" \/ result = code
  /\ writerClosed => result # NoResult

Accepts ==
  parser = "accepted" =>
    /\ candidate = "ended" /\ copier = "copied" /\ writerClosed
    /\ taken = Len(written) /\ taken <= MaxBytes /\ rooted

Concluded ==
  /\ outcome # "none" => readerClosed /\ writerClosed
  /\ outcome \in {"fault", "read"} =>
       (outcome = "read" <=> parser = "accepted" /\ code \in CommandExits /\ ~invalid)

IInv == Typed /\ Accounted /\ Unborn /\ Copied /\ Waited /\ Accepts /\ Concluded
-----------------------------------------------------------------------------
(* Lemmas about sequences: how what is on its way changes.                 *)

\* A longer text of which the former one is the beginning is the former one and one token.
LEMMA OneMore ==
  ASSUME NEW s \in Seq(Tokens), NEW t \in Seq(Tokens),
         Len(t) = Len(s) + 1, IsPrefix(s, t)
  PROVE  t = Append(s, Last(t)) /\ Last(t) \in Tokens
<1>1. Last(t) \in Tokens
  BY DEF Last
<1>2. \A i \in 1..Len(s) : t[i] = s[i]
  <2>1. SubSeq(s, 1, Len(s)) = s
    BY SubSeqFull
  <2>2. \A i \in 1..Len(s) : SubSeq(t, 1, Len(s))[i] = t[i]
    BY SubSeqProperties, \A i \in 1..Len(s) : t[i] \in Tokens
  <2> QED
    BY <2>1, <2>2 DEF IsPrefix
<1> DEFINE u == Append(s, Last(t))
<1>3. /\ u \in Seq(Tokens) /\ Len(u) = Len(s) + 1
      /\ \A i \in 1..Len(s) : u[i] = s[i]
      /\ u[Len(s) + 1] = t[Len(s) + 1]
  BY <1>1, AppendProperties DEF Last
<1>4. \A i \in 1..Len(t) : t[i] = u[i]
  BY <1>2, <1>3
<1> HIDE DEF u
<1>5. t = u
  BY <1>3, <1>4, SeqEqual
<1> QED
  BY <1>1, <1>5 DEF u

\* A token is written: it is the last one on its way.
LEMMA WrittenOnTheWay ==
  ASSUME NEW w \in Seq(Tokens), NEW k \in 0..Len(w), NEW c \in Seq(Tokens),
         NEW o \in Seq(Tokens), NEW e \in Tokens, OnTheWay(w, k, c, o)
  PROVE  OnTheWay(Append(w, e), k, c, Append(o, e))
<1> DEFINE v == Append(w, e)
           n == Len(w)
<1>1. n \in Nat /\ k \in Nat /\ k <= n /\ <<e>> \in Seq(Tokens)
  OBVIOUS
<1>2. v \in Seq(Tokens) /\ Len(v) = n + 1 /\ v[n + 1] = e /\ v = w \o <<e>>
  BY AppendProperties, AppendIsConcat
<1>3. c \o Append(o, e) = (c \o o) \o <<e>>
  BY <1>1, AppendIsConcat, ConcatAssociative
<1>4. SubSeq(v, k + 1, n) = SubSeq(w, k + 1, n)
  <2>1. CASE k = n
    BY <1>1, <2>1, SubSeqEmpty, n < k + 1, k + 1 \in Int, n \in Int
  <2>2. CASE k < n
    <3>1. k + 1 \in 1..n /\ n \in 1..n
      BY <1>1, <2>2
    <3> QED
      BY <1>1, <1>2, <3>1, SubSeqOfConcat1
  <2> QED
    BY <1>1, <2>1, <2>2
<1>5. SubSeq(v, k + 1, n + 1) = SubSeq(v, k + 1, n) \o <<e>>
  <2>1. k + 1 \in 1..Len(v) /\ n + 1 \in (k + 1)..Len(v) /\ (n + 1) - 1 = n
    BY <1>1, <1>2
  <2> HIDE DEF v, n
  <2>2. SubSeq(v, k + 1, n + 1) = SubSeq(v, k + 1, (n + 1) - 1) \o <<v[n + 1]>>
    BY <1>2, <2>1, SubSeqRecursiveSecond
  <2> QED
    BY <1>2, <2>1, <2>2
<1> QED
  BY <1>2, <1>3, <1>4, <1>5 DEF OnTheWay

\* The copier has read all there is in the pipe.
LEMMA CopiedOnTheWay ==
  ASSUME NEW w \in Seq(Tokens), NEW k \in 0..Len(w), NEW o \in Seq(Tokens),
         OnTheWay(w, k, << >>, o)
  PROVE  OnTheWay(w, k, o, << >>)
BY ConcatEmptySeq DEF OnTheWay

\* A sequence that is not empty is its first element and the others.
LEMMA FirstAndOthers ==
  ASSUME NEW s \in Seq(Tokens), s # << >>
  PROVE  /\ s[1] \in Tokens /\ Tail(s) \in Seq(Tokens)
         /\ s = <<s[1]>> \o Tail(s)
<1>1. Len(s) \in Nat /\ 1 \in 1..Len(s) /\ Len(s) \in 1..Len(s) /\ 1 + 1 = 2
  BY EmptySeq
<1>2. SubSeq(s, 1, Len(s)) = <<s[1]>> \o SubSeq(s, 1 + 1, Len(s))
  BY <1>1, SubSeqRecursiveFirst
<1>3. SubSeq(s, 1, Len(s)) = s
  BY SubSeqFull
<1>4. Tail(s) = SubSeq(s, 2, Len(s)) /\ Tail(s) \in Seq(Tokens)
  BY TailIsSubSeq, HeadTailProperties
<1> QED
  BY <1>1, <1>2, <1>3, <1>4

\* The parser takes the first token on its way, which is the first not yet read.
LEMMA TakenOnTheWay ==
  ASSUME NEW w \in Seq(Tokens), NEW k \in 0..Len(w), NEW c \in Seq(Tokens),
         NEW o \in Seq(Tokens), c # << >>, OnTheWay(w, k, c, o)
  PROVE  /\ k + 1 <= Len(w) /\ OnTheWay(w, k + 1, Tail(c), o)
         /\ Head(c) = w[k + 1]
<1> DEFINE n == Len(w)
           z == SubSeq(w, (k + 1) + 1, n)
<1>1. n \in Nat /\ k \in Nat /\ k <= n
  OBVIOUS
<1>2. /\ c[1] \in Tokens /\ Tail(c) \in Seq(Tokens)
      /\ c = <<c[1]>> \o Tail(c)
  BY FirstAndOthers
<1>3. c \o o # << >>
  BY ConcatEqualIffEmpty
<1>4. k + 1 \in 1..n /\ n \in (k + 1)..n
  <2>1. k # n
    BY <1>1, <1>3, SubSeqEmpty, n < n + 1, n + 1 \in Int, n \in Int DEF OnTheWay
  <2> QED
    BY <1>1, <2>1
<1>5. w[k + 1] \in Tokens /\ SubSeq(w, k + 1, n) = <<w[k + 1]>> \o z
  BY <1>4, SubSeqRecursiveFirst
<1>6. z \in Seq(Tokens)
  <2>1. (k + 1) + 1 \in Int /\ n \in Int /\ \A i \in ((k + 1) + 1)..n : w[i] \in Tokens
    BY <1>1
  <2> QED
    BY <2>1, SubSeqProperties
<1>7. <<c[1]>> \in Seq(Tokens) /\ <<w[k + 1]>> \in Seq(Tokens) /\ Tail(c) \o o \in Seq(Tokens)
  BY <1>2, <1>5, ConcatProperties
<1>8. <<c[1]>> \o (Tail(c) \o o) = <<w[k + 1]>> \o z
  <2>1. c \o o = <<c[1]>> \o (Tail(c) \o o)
    BY <1>2, <1>7, ConcatAssociative
  <2> QED
    BY <1>5, <2>1 DEF OnTheWay
<1> HIDE DEF z, n
<1>9. \A x \in Tokens : \A s \in Seq(Tokens) : <<x>> \in Seq(Tokens) /\ (<<x>> \o s)[1] = x
  OBVIOUS
<1>10. c[1] = w[k + 1]
  BY <1>2, <1>5, <1>6, <1>7, <1>8, <1>9
<1>11. Tail(c) \o o = z
  <2>1. \A s, t, u \in Seq(Tokens) : s \o t = s \o u => t = u
    BY ConcatSimplifications
  <2> QED
    BY <1>6, <1>7, <1>8, <1>10, <2>1
<1> QED
  BY <1>4, <1>10, <1>11 DEF OnTheWay, z, n

\* Nothing on its way: all has been taken.
LEMMA NothingOnTheWay ==
  ASSUME NEW w \in Seq(Tokens), NEW k \in 0..Len(w), OnTheWay(w, k, << >>, << >>)
  PROVE  k = Len(w)
<1> SUFFICES ASSUME k # Len(w) PROVE FALSE
  OBVIOUS
<1>1. k + 1 \in 1..Len(w) /\ Len(w) \in (k + 1)..Len(w) /\ k + 1 \in Int /\ Len(w) \in Int
  OBVIOUS
<1>2. SubSeq(w, k + 1, Len(w)) = << >>
  BY ConcatEmptySeq, << >> \in Seq(Tokens) DEF OnTheWay
<1>3. Len(SubSeq(w, k + 1, Len(w))) = Len(w) - (k + 1) + 1
  <2>1. \A i \in (k + 1)..Len(w) : w[i] \in Tokens
    OBVIOUS
  <2> QED
    BY <1>1, <2>1, SubSeqProperties
<1>4. Len(<< >>) = 0
  BY EmptySeq
<1>5. Len(<< >>) = Len(w) - (k + 1) + 1
  BY <1>2, <1>3
<1> QED
  BY <1>1, <1>4, <1>5
-----------------------------------------------------------------------------
(* The invariant holds at the start and through every step.                *)

\* Before the start nothing has been written, nobody has stopped.
LEMMA InitInv == Init => IInv
<1> SUFFICES ASSUME Init PROVE IInv
  OBVIOUS
<1>1. << >> \in Seq(Tokens) /\ Len(<< >>) = 0 /\ << >> \o << >> = << >>
  BY EmptySeq, ConcatEmptySeq
<1>2. SubSeq(<< >>, 0 + 1, 0) = << >>
  BY SubSeqEmpty, 0 < 0 + 1, 0 + 1 \in Int, 0 \in Int
<1>3. Typed
  <2>1. taken \in 0..(MaxBytes + 1)
    BY LimitAssumption DEF Init
  <2>2. DOMAIN projection = Tracked
    BY Zenon DEF Init
  <2>3. TypeOK
    BY <2>1, <2>2 DEF Init, TypeOK
  <2> QED
    BY <1>1, <2>3 DEF Init, Typed
<1>4. Accounted
  BY <1>1, <1>2 DEF Init, Accounted, OnTheWay
<1>5. Unborn /\ Copied /\ Waited /\ Accepts /\ Concluded
  BY DEF Init, Unborn, Copied, Waited, Accepts, Concluded, NoResult
<1> QED
  BY <1>3, <1>4, <1>5 DEF IInv

\* What has been taken is a number.
LEMMA TakenIsNat == Typed /\ Accounted => taken \in 0..Len(written)
BY LimitAssumption DEF Typed, TypeOK, Accounted

\* A step of the candidate: it writes, or it ends.
LEMMA CandidateStep ==
  ASSUME IInv, CandidateWrites \/ CandidateBreaks \/ CandidateExits \/ Kill
  PROVE  IInv'
<1> USE DEF IInv, process, pump, parsing, ends
<1>1. CASE CandidateWrites
  <2>1. PICK text \in Outputs :
          /\ Len(text) = Len(written) + 1 /\ IsPrefix(written, text)
          /\ written' = text /\ osPipe' = Append(osPipe, Last(text))
    BY <1>1 DEF CandidateWrites
  <2>2. text \in Seq(Tokens) /\ text = Append(written, Last(text)) /\ Last(text) \in Tokens
    BY <2>1, OutputAssumption, OneMore DEF Typed
  <2>3. /\ written' \in Seq(Tokens) /\ osPipe' \in Seq(Tokens)
        /\ Len(written') = Len(written) + 1
    BY <2>1, <2>2, AppendProperties DEF Typed
  <2>4. UNCHANGED <<candidate, code, pump, parsing, ends>> /\ candidate = "running"
          /\ copier = "running"
    BY <1>1 DEF CandidateWrites
  <2>5. Typed'
    BY <2>3, <2>4 DEF Typed, TypeOK
  <2>6. Accounted'
    <3>1. OnTheWay(Append(written, Last(text)), taken, chunk, Append(osPipe, Last(text)))
      BY <2>2, TakenIsNat, WrittenOnTheWay DEF Typed, Accounted
    <3>2. taken <= Len(written) + 1
      BY TakenIsNat
    <3> QED
      BY <2>1, <2>2, <2>3, <2>4, <3>1, <3>2 DEF Accounted
  <2>7. (Unborn /\ Copied /\ Waited /\ Accepts /\ Concluded)'
    BY <2>4 DEF Unborn, Copied, Waited, Accepts, Concluded
  <2> QED
    BY <2>5, <2>6, <2>7
<1>2. CASE CandidateBreaks \/ CandidateExits \/ Kill
  <2>1. /\ candidate = "running" /\ candidate' = "ended"
        /\ UNCHANGED <<written, osPipe, pump, parsing, ends>>
    BY <1>2 DEF CandidateBreaks, CandidateExits, Kill
  <2>2. Typed' /\ Accounted'
    BY <2>1 DEF Typed, TypeOK, Accounted
  <2>3. (Unborn /\ Copied /\ Waited /\ Accepts /\ Concluded)'
    BY <2>1 DEF Unborn, Copied, Waited, Accepts, Concluded
  <2> QED
    BY <2>2, <2>3
<1> QED
  BY <1>1, <1>2

\* A step of os/exec: it starts the candidate, copies its output, returns its end.
LEMMA RunStep ==
  ASSUME IInv, Start \/ StartFails \/ CopierReads \/ CopierEnds \/ CopierFails \/ WaitReturns
  PROVE  IInv'
<1> USE DEF IInv, process, pump, parsing, ends
<1>1. CASE Start
  <2>1. /\ candidate = "unstarted" /\ result = NoResult /\ candidate' = "running"
        /\ UNCHANGED <<code, written, osPipe, pump, parsing, ends>>
    BY <1>1 DEF Start
  <2>2. Typed' /\ Accounted'
    BY <2>1 DEF Typed, TypeOK, Accounted
  <2>3. (Unborn /\ Copied /\ Waited /\ Accepts /\ Concluded)'
    BY <2>1 DEF Unborn, Copied, Waited, Accepts, Concluded
  <2> QED
    BY <2>2, <2>3
<1>2. CASE StartFails
  <2>1. /\ candidate = "unstarted" /\ result = NoResult /\ result' # NoResult
        /\ UNCHANGED <<process, pump, parsing, writerClosed, readerClosed, canceled, outcome>>
    BY <1>2 DEF StartFails, NoResult
  <2>2. Typed' /\ Accounted'
    BY <2>1 DEF Typed, TypeOK, Accounted
  <2>3. (Unborn /\ Copied /\ Waited /\ Accepts /\ Concluded)'
    BY <2>1 DEF Unborn, Copied, Waited, Accepts, Concluded
  <2> QED
    BY <2>2, <2>3
<1>3. CASE CopierReads
  <2>1. /\ candidate # "unstarted" /\ copier = "running" /\ chunk = << >>
        /\ chunk' = osPipe /\ osPipe' = << >>
        /\ UNCHANGED <<candidate, code, written, copier, parsing, ends>>
    BY <1>3 DEF CopierReads
  <2>2. Typed'
    BY <2>1, EmptySeq DEF Typed, TypeOK
  <2>3. Accounted'
    BY <2>1, TakenIsNat, CopiedOnTheWay DEF Typed, Accounted
  <2>4. (Unborn /\ Copied /\ Waited /\ Accepts /\ Concluded)'
    BY <2>1 DEF Unborn, Copied, Waited, Accepts, Concluded
  <2> QED
    BY <2>2, <2>3, <2>4
<1>4. CASE CopierEnds \/ CopierFails
  <2>1. /\ copier = "running"
        /\ \/ candidate = "ended" /\ chunk = << >> /\ osPipe = << >> /\ copier' = "copied"
           \/ chunk # << >> /\ readerClosed /\ copier' = "failed"
        /\ UNCHANGED <<process, chunk, parsing, ends>>
    BY <1>4 DEF CopierEnds, CopierFails
  <2>2. Typed' /\ Accounted'
    BY <2>1 DEF Typed, TypeOK, Accounted
  <2>3. (Unborn /\ Copied /\ Waited /\ Accepts /\ Concluded)'
    BY <2>1 DEF Unborn, Copied, Waited, Accepts, Concluded
  <2> QED
    BY <2>2, <2>3
<1>5. CASE WaitReturns
  <2>1. /\ candidate = "ended" /\ copier # "running" /\ result = NoResult
        /\ canceled \/ copier = "failed" \/ result' = code
        /\ UNCHANGED <<process, pump, parsing, writerClosed, readerClosed, canceled, outcome>>
    BY <1>5 DEF WaitReturns, Typed, TypeOK
  <2>2. Typed' /\ Accounted'
    BY <2>1 DEF Typed, TypeOK, Accounted
  <2>3. (Unborn /\ Copied /\ Waited /\ Accepts /\ Concluded)'
    BY <2>1 DEF Unborn, Copied, Waited, Accepts, Concluded
  <2> QED
    BY <2>2, <2>3
<1> QED
  BY <1>1, <1>2, <1>3, <1>4, <1>5

\* A step of the parser: it takes a token, or it decides.
LEMMA ParserStep ==
  ASSUME IInv, ParserTakes \/ ParserAtLimit \/ ParserAtEnd
  PROVE  IInv'
<1> USE DEF IInv, process, pump, parsing, ends
<1>1. CASE ParserTakes
  <2>1. /\ parser = "parsing" /\ chunk # << >> /\ taken <= MaxBytes
        /\ chunk' = Tail(chunk) /\ taken' = taken + 1
        /\ UNCHANGED <<process, copier, ends>>
    BY <1>1 DEF ParserTakes
  <2>2. parser' \in {"parsing", "refused"} /\ rooted' \in BOOLEAN /\ invalid' \in BOOLEAN
          /\ DOMAIN projection' = Tracked
    <3> DEFINE token == Head(chunk)
    <3>1. CASE WhiteSpace(token) \/ projectCandidateJSONObject(token)
                 \/ ContainerEnds(token) \/ Refused(token)
      BY <2>1, <3>1 DEF WhiteSpace, projectCandidateJSONObject, ContainerEnds, Refused,
           Typed, TypeOK
    <3>2. CASE projectCandidateJSONValue(token)
      BY <2>1, <3>2 DEF projectCandidateJSONValue, project, Typed, TypeOK
    <3> QED
      BY <1>1, <3>1, <3>2 DEF ParserTakes
  <2>3. chunk' \in Seq(Tokens)
    BY <2>1, HeadTailProperties DEF Typed
  <2>4. Typed'
    BY <2>1, <2>2, <2>3, TakenIsNat, LimitAssumption DEF Typed, TypeOK
  <2>5. Accounted'
    BY <2>1, TakenIsNat, TakenOnTheWay DEF Typed, Accounted
  <2>6. candidate # "unstarted" /\ ~readerClosed /\ copier = "running"
    BY <2>1 DEF Unborn, Copied, Typed, TypeOK
  <2>7. (Unborn /\ Copied /\ Waited /\ Accepts /\ Concluded)'
    BY <2>1, <2>2, <2>6 DEF Unborn, Copied, Waited, Accepts, Concluded
  <2> QED
    BY <2>4, <2>5, <2>7
<1>2. CASE ParserAtLimit \/ ParserAtEnd
  <2>1. /\ parser = "parsing" /\ parser' \in {"accepted", "refused"}
        /\ parser' = "accepted" => chunk = << >> /\ writerClosed /\ taken <= MaxBytes /\ rooted
        /\ UNCHANGED <<process, pump, stack, rooted, taken, projection, invalid, ends>>
    BY <1>2 DEF ParserAtLimit, ParserAtEnd
  <2>2. Typed' /\ Accounted'
    BY <2>1 DEF Typed, TypeOK, Accounted
  <2>3. ~readerClosed /\ copier # "failed"
    BY <2>1 DEF Copied
  <2>4. Accepts'
    <3> SUFFICES ASSUME parser' = "accepted" PROVE Accepts'
      BY DEF Accepts
    <3>1. candidate = "ended" /\ copier = "copied"
      BY <2>1, <2>3 DEF Waited, Unborn, Typed, TypeOK
    <3>2. taken = Len(written)
      BY <2>1, <3>1, TakenIsNat, NothingOnTheWay DEF Copied, Accounted, Typed
    <3> QED
      BY <2>1, <3>1, <3>2 DEF Accepts
  <2>5. (Unborn /\ Copied /\ Waited /\ Concluded)'
    BY <2>1, <2>3 DEF Unborn, Copied, Waited, Concluded
  <2> QED
    BY <2>2, <2>4, <2>5
<1> QED
  BY <1>1, <1>2

\* A step of the caller, of the goroutine that closes the writer, or a cancellation.
LEMMA CallerStep ==
  ASSUME IInv, CloseWriter \/ CloseReader \/ Conclude \/ Cancel \/ Returned \/ UNCHANGED vars
  PROVE  IInv'
<1> USE DEF IInv, process, pump, parsing, ends
<1>1. CASE CloseWriter
  <2>1. /\ result # NoResult /\ writerClosed'
        /\ UNCHANGED <<process, pump, parsing, result, readerClosed, canceled, outcome>>
    BY <1>1 DEF CloseWriter
  <2>2. Typed' /\ Accounted'
    BY <1>1, <2>1 DEF CloseWriter, Typed, TypeOK, Accounted
  <2>3. (Unborn /\ Copied /\ Waited /\ Accepts /\ Concluded)'
    BY <2>1 DEF Unborn, Copied, Waited, Accepts, Concluded
  <2> QED
    BY <2>2, <2>3
<1>2. CASE CloseReader
  <2>1. /\ parser # "parsing" /\ readerClosed' = TRUE
        /\ UNCHANGED <<process, pump, parsing, result, writerClosed, canceled, outcome>>
    BY <1>2 DEF CloseReader
  <2>2. Typed' /\ Accounted'
    BY <2>1 DEF Typed, TypeOK, Accounted
  <2>3. (Unborn /\ Copied /\ Waited /\ Accepts /\ Concluded)'
    BY <2>1 DEF Unborn, Copied, Waited, Accepts, Concluded
  <2> QED
    BY <2>2, <2>3
<1>3. CASE Conclude
  <2>1. /\ readerClosed /\ writerClosed /\ outcome = "none"
        /\ UNCHANGED <<process, pump, parsing, result, writerClosed, readerClosed, canceled>>
    BY <1>3 DEF Conclude
  <2>2. parser \in {"accepted", "refused"}
    BY <2>1 DEF Copied, Typed, TypeOK
  <2>3. \/ canceled /\ outcome' = "canceled"
        \/ /\ ~canceled /\ outcome' = "fault"
           /\ result \notin CommandExits \/ parser = "refused" \/ invalid
        \/ /\ ~canceled /\ outcome' = "read"
           /\ result \in CommandExits /\ parser = "accepted" /\ ~invalid
    BY <1>3, <2>2 DEF Conclude, parseErr, Typed, TypeOK
  <2>4. parser = "accepted" /\ ~canceled => result = code
    BY <2>1 DEF Accepts, Waited
  <2>5. Concluded'
    BY <2>1, <2>2, <2>3, <2>4 DEF Concluded
  <2>6. Typed' /\ Accounted'
    BY <2>1, <2>3 DEF Typed, TypeOK, Accounted
  <2>7. (Unborn /\ Copied /\ Waited /\ Accepts)'
    BY <2>1 DEF Unborn, Copied, Waited, Accepts
  <2> QED
    BY <2>5, <2>6, <2>7
<1>4. CASE Cancel
  <2>1. /\ canceled' = TRUE
        /\ UNCHANGED <<process, pump, parsing, result, writerClosed, readerClosed, outcome>>
    BY <1>4 DEF Cancel
  <2>2. Typed' /\ Accounted'
    BY <2>1 DEF Typed, TypeOK, Accounted
  <2>3. (Unborn /\ Copied /\ Waited /\ Accepts /\ Concluded)'
    BY <2>1 DEF Unborn, Copied, Waited, Accepts, Concluded
  <2> QED
    BY <2>2, <2>3
<1>5. CASE Returned \/ UNCHANGED vars
  <2>1. UNCHANGED <<process, pump, parsing, ends>>
    BY <1>5 DEF Returned, vars
  <2>2. Typed' /\ Accounted'
    BY <2>1 DEF Typed, TypeOK, Accounted
  <2>3. (Unborn /\ Copied /\ Waited /\ Accepts /\ Concluded)'
    BY <2>1 DEF Unborn, Copied, Waited, Accepts, Concluded
  <2> QED
    BY <2>2, <2>3
<1> QED
  BY <1>1, <1>2, <1>3, <1>4, <1>5

\* Every step of the four parties and of the context.
LEMMA StepInv == IInv /\ [Next]_vars => IInv'
BY CandidateStep, RunStep, ParserStep, CallerStep DEF Next, Candidate, Gate
-----------------------------------------------------------------------------
(* What is on its way, how far each party has come and what it may conclude of the others. *)
THEOREM ProcessInvariant == Spec => []IInv
BY InitInv, StepInv, PTL DEF Spec

(* Every variable of an invocation keeps its type, the count of tokens its limit. *)
THEOREM ProcessTypeCorrect == Spec => []TypeOK
<1>1. IInv => TypeOK
  BY DEF IInv, Typed
<1> QED
  BY <1>1, ProcessInvariant, PTL
-----------------------------------------------------------------------------
(***************************************************************************)
(* The streaming parser.  A place of the reply that has been seen belongs  *)
(* to an open object that has noted its key and gone on, or to one that is *)
(* complete.                                                               *)
(***************************************************************************)
Frames == [kind : Opens, seen : SUBSET Keys, key : Keys \cup {NoKey}]

Shape ==
  /\ stack \in Seq(Frames) /\ rooted \in BOOLEAN
  /\ projection \in [Tracked -> Opens \cup Scalars \cup {Absent}]
  /\ stack # << >> => rooted

\* A pending key has been noted.
Noted == \A i \in 1..Len(stack) : stack[i].key # NoKey => stack[i].key \in stack[i].seen

\* The object at position i is past its member k, unless the parser is inside that member.
Past(i, k) == stack[i].kind = Object /\ k \in stack[i].seen /\ (Len(stack) = i => stack[i].key # k)

Root   == << >>
InRoot == <<"a">>
Inner  == <<"b", "a">>

Seen ==
  /\ projection[Root] # Absent => rooted
  /\ projection[InRoot] # Absent => rooted /\ (stack # << >> => Past(1, "a"))
  /\ projection[Inner] # Absent =>
       /\ rooted
       /\ stack # << >> => /\ Past(1, "b")
                           /\ stack[1].key = "b" => Past(2, "a")

\* A document that has begun has a root, and the places with a type of their own are judged.
Judged ==
  /\ rooted => projection[Root] # Absent
  /\ invalid <=> \/ projection[Root] \notin {Absent, Object}
                 \/ projection[InRoot] \notin {Absent, "v"}

ReadInv == Shape /\ Noted /\ Seen /\ Judged

\* The open containers are frames, and there is one unless the stack is empty.
LEMMA StackLength ==
  ASSUME Shape
  PROVE  /\ Len(stack) \in Nat /\ (stack = << >> <=> Len(stack) = 0)
         /\ \A i \in 1..Len(stack) : stack[i] \in Frames
BY EmptySeq DEF Shape

\* A container goes on: it has no pending key any more.
LEMMA SettledValues ==
  ASSUME NEW s \in Seq(Frames)
  PROVE  /\ Settled(s) \in Seq(Frames) /\ Len(Settled(s)) = Len(s)
         /\ \A i \in 1..Len(s) : /\ Settled(s)[i].kind = s[i].kind
                                 /\ Settled(s)[i].seen = s[i].seen
                                 /\ Settled(s)[i].key = IF i = Len(s) THEN NoKey ELSE s[i].key
<1>1. CASE s = << >>
  BY <1>1, EmptySeq DEF Settled
<1>2. CASE s # << >>
  <2> DEFINE n == Len(s)
             f == [s[n] EXCEPT !.key = NoKey]
  <2>1. n \in Nat /\ n \in 1..n /\ \A i \in 1..n : s[i] \in Frames
    BY <1>2, EmptySeq
  <2>2. f \in Frames /\ f.kind = s[n].kind /\ f.seen = s[n].seen /\ f.key = NoKey
    BY <2>1 DEF Frames
  <2>3. Settled(s) = [s EXCEPT ![n] = f]
    BY <1>2 DEF Settled
  <2> HIDE DEF n, f
  <2>4. /\ [s EXCEPT ![n] = f] \in Seq(Frames) /\ Len([s EXCEPT ![n] = f]) = Len(s)
        /\ \A i \in 1..Len(s) : [s EXCEPT ![n] = f][i] = IF i = n THEN f ELSE s[i]
    BY <2>1, <2>2, ExceptSeq DEF n
  <2> QED
    BY <2>2, <2>3, <2>4 DEF n
<1> QED
  BY <1>1, <1>2

\* Where the parser is, if the gate looks there.
LEMMA PathOfTracked ==
  ASSUME Shape
  PROVE  /\ Path = Root => stack = << >>
         /\ Path = InRoot => Len(stack) = 1 /\ stack[1].kind = Object /\ stack[1].key = "a"
         /\ Path = Inner => /\ Len(stack) = 2 /\ stack[1].kind = Object /\ stack[1].key = "b"
                            /\ stack[2].kind = Object /\ stack[2].key = "a"
<1>1. Len(stack) \in Nat /\ Len(Path) = Len(stack)
  BY StackLength DEF Path
<1>2. \A i \in 1..Len(stack) : Path[i] = IF stack[i].kind = Object THEN stack[i].key ELSE "item"
  BY DEF Path
<1>3. Len(Root) = 0 /\ Len(InRoot) = 1 /\ InRoot[1] = "a"
      /\ Len(Inner) = 2 /\ Inner[1] = "b" /\ Inner[2] = "a"
  BY DEF Root, InRoot, Inner
<1>4. ASSUME Path = Root PROVE stack = << >>
  <2>1. Len(stack) = 0
    BY <1>1, <1>3, <1>4
  <2> QED
    BY <2>1, StackLength
<1>5. ASSUME Path = InRoot
      PROVE  Len(stack) = 1 /\ stack[1].kind = Object /\ stack[1].key = "a"
  <2>1. Len(stack) = 1 /\ Path[1] = "a"
    BY <1>1, <1>3, <1>5
  <2>2. 1 \in 1..Len(stack)
    BY <2>1
  <2>3. "a" = IF stack[1].kind = Object THEN stack[1].key ELSE "item"
    BY <1>2, <2>1, <2>2
  <2> QED
    BY <2>1, <2>3
<1>6. ASSUME Path = Inner
      PROVE  /\ Len(stack) = 2 /\ stack[1].kind = Object /\ stack[1].key = "b"
             /\ stack[2].kind = Object /\ stack[2].key = "a"
  <2>1. Len(stack) = 2 /\ Path[1] = "b" /\ Path[2] = "a"
    BY <1>1, <1>3, <1>6
  <2>2. 1 \in 1..Len(stack) /\ 2 \in 1..Len(stack)
    BY <2>1
  <2>3. /\ "b" = IF stack[1].kind = Object THEN stack[1].key ELSE "item"
        /\ "a" = IF stack[2].kind = Object THEN stack[2].key ELSE "item"
    BY <1>2, <2>1, <2>2
  <2> QED
    BY <2>1, <2>3
<1> QED
  BY <1>4, <1>5, <1>6

\* A value begins only where nothing has been seen.
LEMMA FreshPath ==
  ASSUME ReadInv, NEW token, FitsValue(token), NEW p \in Tracked, projection[p] # Absent
  PROVE  p # Path
<1>1. Tracked = {Root, InRoot, Inner}
  BY DEF Tracked, Root, InRoot, Inner
<1>2. CASE p = Root
  BY <1>2, PathOfTracked DEF ReadInv, Seen, FitsValue
<1>3. CASE p = InRoot
  <2> SUFFICES ASSUME Path = InRoot PROVE FALSE
    BY <1>3
  <2>1. Shape
    BY DEF ReadInv
  <2>2. Len(stack) = 1 /\ stack[1].key = "a"
    BY <2>1, PathOfTracked
  <2>3. stack # << >>
    BY <2>1, <2>2, StackLength
  <2> QED
    BY <1>3, <2>2, <2>3 DEF ReadInv, Seen, Past
<1>4. CASE p = Inner
  <2> SUFFICES ASSUME Path = Inner PROVE FALSE
    BY <1>4
  <2>1. Shape
    BY DEF ReadInv
  <2>2. Len(stack) = 2 /\ stack[1].key = "b" /\ stack[2].key = "a"
    BY <2>1, PathOfTracked
  <2>3. stack # << >>
    BY <2>1, <2>2, StackLength
  <2> QED
    BY <1>4, <2>2, <2>3 DEF ReadInv, Seen, Past
<1> QED
  BY <1>1, <1>2, <1>3, <1>4

\* What recording a value changes.
LEMMA Recorded ==
  ASSUME ReadInv, NEW token, FitsValue(token), project(token)
  PROVE  /\ projection' \in [Tracked -> Opens \cup Scalars \cup {Absent}]
         /\ \A p \in Tracked : projection[p] # Absent => projection'[p] = projection[p]
         /\ \A p \in Tracked : projection'[p] # Absent => projection[p] # Absent \/ Path = p
         /\ Path \in Tracked => projection'[Path] = token
BY FreshPath DEF ReadInv, Shape, project, FitsValue

\* A value that is no absent one is recorded as itself.
LEMMA TokenPresent == \A token \in Opens \cup Scalars : token # Absent
BY DEF Opens, Scalars, Object, Array, Absent

\* A value is judged where it is recorded, and the first one is the root.
LEMMA JudgedRead ==
  ASSUME ReadInv, NEW token, FitsValue(token), project(token)
  PROVE  Judged'
<1>1. Root \in Tracked /\ InRoot \in Tracked /\ Root = << >> /\ InRoot = <<"a">>
  BY DEF Tracked, Root, InRoot
<1>2. Root # InRoot
  <2>1. Len(Root) = 0 /\ Len(InRoot) = 1
    BY DEF Root, InRoot
  <2> QED
    BY <2>1
<1>3. token \in Opens \cup Scalars /\ token # Absent
  BY TokenPresent DEF FitsValue
<1>4. projection[Root] = Absent => Path = Root
  <2> SUFFICES ASSUME projection[Root] = Absent PROVE Path = Root
    OBVIOUS
  <2>1. stack = << >>
    BY DEF ReadInv, Judged, Shape
  <2>2. Len(stack) = 0
    BY <2>1, EmptySeq
  <2> QED
    BY <2>2 DEF Path, Root
<1>5. /\ \A p \in Tracked : projection[p] # Absent => projection'[p] = projection[p] /\ p # Path
      /\ \A p \in Tracked : projection'[p] # Absent => projection[p] # Absent \/ Path = p
      /\ Path \in Tracked => projection'[Path] = token
  BY Recorded, FreshPath
<1>6. projection'[Root] # Absent
  BY <1>1, <1>3, <1>4, <1>5
<1>7. invalid' <=> \/ invalid
                   \/ Path = Root /\ token # Object
                   \/ Path = InRoot /\ token # "v"
  BY <1>1 DEF project, Misplaced
<1>8. invalid <=> \/ projection[Root] \notin {Absent, Object}
                  \/ projection[InRoot] \notin {Absent, "v"}
  BY DEF ReadInv, Judged
<1>9. CASE Path = Root
  <2>1. projection'[Root] = token /\ projection[Root] = Absent
    BY <1>1, <1>5, <1>9
  <2>2. projection'[InRoot] = projection[InRoot]
    BY <1>1, <1>2, <1>5, <1>9
  <2>3. invalid' <=> \/ projection'[Root] \notin {Absent, Object}
                     \/ projection'[InRoot] \notin {Absent, "v"}
    BY <1>2, <1>3, <1>7, <1>8, <1>9, <2>1, <2>2
  <2> QED
    BY <1>6, <2>3 DEF Judged
<1>10. CASE Path = InRoot
  <2>1. projection'[InRoot] = token /\ projection[InRoot] = Absent
    BY <1>1, <1>5, <1>10
  <2>2. projection'[Root] = projection[Root]
    BY <1>1, <1>2, <1>5, <1>10
  <2>3. invalid' <=> \/ projection'[Root] \notin {Absent, Object}
                     \/ projection'[InRoot] \notin {Absent, "v"}
    BY <1>2, <1>3, <1>7, <1>8, <1>10, <2>1, <2>2
  <2> QED
    BY <1>6, <2>3 DEF Judged
<1>11. CASE Path # Root /\ Path # InRoot
  <2>1. projection'[Root] = projection[Root] /\ projection'[InRoot] = projection[InRoot]
    BY <1>1, <1>5, <1>11
  <2>2. invalid' <=> \/ projection'[Root] \notin {Absent, Object}
                     \/ projection'[InRoot] \notin {Absent, "v"}
    BY <1>7, <1>8, <1>11, <2>1
  <2> QED
    BY <1>6, <2>2 DEF Judged
<1> QED
  BY <1>9, <1>10, <1>11

\* What has been seen once a value is recorded, and the objects that have noted it.
LEMMA Reached ==
  ASSUME ReadInv, NEW token, FitsValue(token), project(token)
  PROVE  /\ projection'[InRoot] # Absent =>
              Len(stack) >= 1 /\ stack[1].kind = Object /\ "a" \in stack[1].seen
         /\ projection'[Inner] # Absent =>
              /\ Len(stack) >= 1 /\ stack[1].kind = Object /\ "b" \in stack[1].seen
              /\ stack[1].key = "b" =>
                   Len(stack) >= 2 /\ stack[2].kind = Object /\ "a" \in stack[2].seen
<1>1. Shape /\ Noted /\ Seen
  BY DEF ReadInv
<1>2. Len(stack) \in Nat /\ (stack = << >> <=> Len(stack) = 0)
  BY <1>1, StackLength
<1>3. stack = << >> => ~rooted
  BY DEF FitsValue
<1>4. \A p \in Tracked : projection'[p] # Absent => projection[p] # Absent \/ Path = p
  BY Recorded
<1>5. Root \in Tracked /\ InRoot \in Tracked /\ Inner \in Tracked
  BY DEF Tracked, Root, InRoot, Inner
<1>6. NoKey # "a" /\ NoKey # "b"
  BY DEF NoKey
<1>7. \A i \in 1..Len(stack) : \A k \in {"a", "b"} : stack[i].key = k => k \in stack[i].seen
  BY <1>1, <1>6 DEF Noted
<1> DEFINE n == Len(stack)
<1>8. n \in Nat /\ (stack = << >> <=> n = 0)
  BY <1>2
<1>9. \A i \in 1..n : \A k \in {"a", "b"} : stack[i].key = k => k \in stack[i].seen
  BY <1>7
<1>10. \A i, k : Past(i, k) => /\ stack[i].kind = Object /\ k \in stack[i].seen
                              /\ (n = i => stack[i].key # k)
  BY DEF Past
<1>11. /\ Path = InRoot => n = 1 /\ stack[1].kind = Object /\ stack[1].key = "a"
       /\ Path = Inner => /\ n = 2 /\ stack[1].kind = Object /\ stack[1].key = "b"
                          /\ stack[2].kind = Object /\ stack[2].key = "a"
  BY <1>1, PathOfTracked
<1> HIDE DEF n
<1>12. ASSUME projection'[InRoot] # Absent
      PROVE  n >= 1 /\ stack[1].kind = Object /\ "a" \in stack[1].seen
  <2>1. CASE projection[InRoot] # Absent
    <3>1. stack # << >> /\ Past(1, "a")
      BY <1>1, <1>3, <2>1 DEF Seen
    <3> QED
      BY <1>8, <1>10, <3>1
  <2>2. CASE Path = InRoot
    <3>1. n = 1 /\ stack[1].kind = Object /\ stack[1].key = "a"
      BY <1>11, <2>2
    <3>2. 1 \in 1..n
      BY <3>1
    <3>3. "a" \in stack[1].seen
      BY <1>9, <3>1, <3>2
    <3> QED
      BY <3>1, <3>3
  <2> QED
    BY <1>4, <1>5, <1>12, <2>1, <2>2
<1>13. ASSUME projection'[Inner] # Absent
      PROVE  /\ n >= 1 /\ stack[1].kind = Object /\ "b" \in stack[1].seen
             /\ stack[1].key = "b" =>
                  n >= 2 /\ stack[2].kind = Object /\ "a" \in stack[2].seen
  <2>1. CASE projection[Inner] # Absent
    <3>1. stack # << >> /\ Past(1, "b") /\ (stack[1].key = "b" => Past(2, "a"))
      BY <1>1, <1>3, <2>1 DEF Seen
    <3>2. ASSUME stack[1].key = "b"
          PROVE  n >= 2 /\ stack[2].kind = Object /\ "a" \in stack[2].seen
      <4>1. n # 1
        BY <1>10, <3>1, <3>2
      <4>2. n # 0
        BY <1>8, <3>1
      <4>3. n >= 2
        BY <1>8, <4>1, <4>2
      <4>4. stack[2].kind = Object /\ "a" \in stack[2].seen
        BY <1>10, <3>1, <3>2
      <4> QED
        BY <4>3, <4>4
    <3>3. n >= 1
      BY <1>8, <3>1
    <3>4. stack[1].kind = Object /\ "b" \in stack[1].seen
      BY <1>10, <3>1
    <3> QED
      BY <3>2, <3>3, <3>4
  <2>2. CASE Path = Inner
    <3>1. /\ n = 2 /\ stack[1].kind = Object /\ stack[1].key = "b"
          /\ stack[2].kind = Object /\ stack[2].key = "a"
      BY <1>11, <2>2
    <3>2. 1 \in 1..n /\ 2 \in 1..n
      BY <3>1
    <3>3. "b" \in stack[1].seen /\ "a" \in stack[2].seen
      BY <1>9, <3>1, <3>2
    <3> QED
      BY <3>1, <3>3
  <2> QED
    BY <1>4, <1>5, <1>13, <2>1, <2>2
<1> QED
  BY <1>12, <1>13 DEF n

\* How the stack's length and its frames decide whether what was seen is still told apart.
LEMMA StillSeen ==
  ASSUME NEW n \in Nat, Len(stack') = n, stack' = << >> <=> n = 0, rooted',
         projection'[InRoot] # Absent /\ n >= 1 => Past(1, "a")',
         projection'[Inner] # Absent /\ n >= 1 =>
           Past(1, "b")' /\ (stack'[1].key = "b" => Past(2, "a")')
  PROVE  Seen'
BY DEF Seen

\* A scalar: the container around it goes on.
LEMMA ScalarRead ==
  ASSUME ReadInv, NEW token \in Scalars, projectCandidateJSONValue(token)
  PROVE  ReadInv'
<1>1. FitsValue(token) /\ project(token) /\ rooted' = TRUE /\ stack' = Settled(stack)
  BY DEF projectCandidateJSONValue
<1> DEFINE n == Len(stack)
<1>2. n \in Nat /\ stack \in Seq(Frames) /\ (stack = << >> <=> n = 0)
  BY StackLength DEF ReadInv, Shape
<1>3. /\ stack' \in Seq(Frames) /\ Len(stack') = n
      /\ \A i \in 1..n : /\ stack'[i].kind = stack[i].kind
                         /\ stack'[i].seen = stack[i].seen
                         /\ stack'[i].key = IF i = n THEN NoKey ELSE stack[i].key
  BY <1>1, <1>2, SettledValues
<1>4. /\ projection'[InRoot] # Absent =>
           n >= 1 /\ stack[1].kind = Object /\ "a" \in stack[1].seen
      /\ projection'[Inner] # Absent =>
           /\ n >= 1 /\ stack[1].kind = Object /\ "b" \in stack[1].seen
           /\ stack[1].key = "b" => n >= 2 /\ stack[2].kind = Object /\ "a" \in stack[2].seen
  BY <1>1, Reached
<1>5. Shape'
  BY <1>1, <1>3, Recorded DEF Shape
<1>6. \A i \in 1..n : stack[i].key # NoKey => stack[i].key \in stack[i].seen
  BY DEF ReadInv, Noted
<1>7. NoKey # "a" /\ NoKey # "b"
  BY DEF NoKey
<1> HIDE DEF n
<1>8. Noted'
  BY <1>3, <1>6 DEF Noted
<1>9. ASSUME NEW i \in 1..n, NEW k \in {"a", "b"}, stack[i].kind = Object, k \in stack[i].seen
      PROVE  Past(i, k)'
  <2>1. Len(stack') = i => stack'[i].key = NoKey
    BY <1>3
  <2> QED
    BY <1>3, <1>7, <1>9, <2>1 DEF Past
<1> n >= 1 => 1 \in 1..n
  BY <1>2
<1> n >= 2 => 2 \in 1..n
  BY <1>2
<1>10. projection'[InRoot] # Absent /\ n >= 1 => Past(1, "a")'
  BY <1>4, <1>9
<1>11. projection'[Inner] # Absent /\ n >= 1 => Past(1, "b")'
  BY <1>4, <1>9
<1>12. projection'[Inner] # Absent /\ n >= 1 /\ stack'[1].key = "b" => Past(2, "a")'
  <2> SUFFICES ASSUME projection'[Inner] # Absent, n >= 1, stack'[1].key = "b"
               PROVE  Past(2, "a")'
    OBVIOUS
  <2>1. 1 \in 1..n
    BY <1>2
  <2>2. stack[1].key = "b"
    BY <1>3, <1>7, <2>1
  <2>3. 2 \in 1..n /\ stack[2].kind = Object /\ "a" \in stack[2].seen
    BY <1>4, <2>2
  <2> QED
    BY <1>9, <2>3
<1>13. stack' = << >> <=> n = 0
  BY <1>2, <1>3, EmptySeq
<1>14. Seen'
  BY <1>1, <1>2, <1>3, <1>10, <1>11, <1>12, <1>13, StillSeen
<1> QED
  BY <1>1, <1>5, <1>8, <1>14, JudgedRead DEF ReadInv

\* A scalar is no bracket.
LEMMA ScalarOpensNothing == Opens \cap Scalars = {}
BY DEF Opens, Scalars, Object, Array

\* A bracket: the parser is inside a new container, the ones around it stay as they are.
LEMMA OpeningRead ==
  ASSUME ReadInv, NEW token \in Opens, projectCandidateJSONValue(token)
  PROVE  ReadInv'
<1>1. /\ FitsValue(token) /\ project(token) /\ rooted' = TRUE
      /\ stack' = Append(stack, Frame(token))
  BY ScalarOpensNothing DEF projectCandidateJSONValue
<1> DEFINE n == Len(stack)
<1>2. n \in Nat /\ stack \in Seq(Frames)
  BY StackLength DEF ReadInv, Shape
<1>3. Frame(token) \in Frames /\ Frame(token).key = NoKey
  BY DEF Frame, Frames
<1>4. /\ stack' \in Seq(Frames) /\ Len(stack') = n + 1 /\ stack' # << >>
      /\ \A i \in 1..n : stack'[i] = stack[i]
      /\ stack'[n + 1] = Frame(token)
  BY <1>1, <1>2, <1>3, AppendProperties
<1>5. /\ projection'[InRoot] # Absent =>
           n >= 1 /\ stack[1].kind = Object /\ "a" \in stack[1].seen
      /\ projection'[Inner] # Absent =>
           /\ n >= 1 /\ stack[1].kind = Object /\ "b" \in stack[1].seen
           /\ stack[1].key = "b" => n >= 2 /\ stack[2].kind = Object /\ "a" \in stack[2].seen
  BY <1>1, Reached
<1>6. Shape'
  BY <1>1, <1>4, Recorded DEF Shape
<1>7. \A i \in 1..n : stack[i].key # NoKey => stack[i].key \in stack[i].seen
  BY DEF ReadInv, Noted
<1> HIDE DEF n
<1>8. Noted'
  <2> SUFFICES ASSUME NEW i \in 1..(n + 1), stack'[i].key # NoKey
               PROVE  stack'[i].key \in stack'[i].seen
    BY <1>4 DEF Noted
  <2>1. i # n + 1
    BY <1>3, <1>4
  <2>2. i \in 1..n
    BY <1>2, <2>1
  <2> QED
    BY <1>4, <1>7, <2>2
<1>9. ASSUME NEW i \in 1..n, NEW k, stack[i].kind = Object, k \in stack[i].seen
      PROVE  Past(i, k)'
  <2>1. Len(stack') # i
    BY <1>2, <1>4
  <2>2. stack'[i] = stack[i]
    BY <1>4
  <2> QED
    BY <1>9, <2>1, <2>2 DEF Past
<1> n >= 1 => 1 \in 1..n
  BY <1>2
<1> n >= 2 => 2 \in 1..n
  BY <1>2
<1>10. projection'[InRoot] # Absent => Past(1, "a")'
  BY <1>5, <1>9
<1>11. projection'[Inner] # Absent => Past(1, "b")'
  BY <1>5, <1>9
<1>12. projection'[Inner] # Absent /\ stack'[1].key = "b" => Past(2, "a")'
  <2> SUFFICES ASSUME projection'[Inner] # Absent, stack'[1].key = "b"
               PROVE  Past(2, "a")'
    OBVIOUS
  <2>1. 1 \in 1..n
    BY <1>2, <1>5
  <2>2. stack[1].key = "b"
    BY <1>4, <2>1
  <2>3. 2 \in 1..n /\ stack[2].kind = Object /\ "a" \in stack[2].seen
    BY <1>5, <2>2
  <2> QED
    BY <1>9, <2>3
<1>13. n + 1 \in Nat /\ n + 1 # 0
  BY <1>2
<1>14. Seen'
  BY <1>1, <1>4, <1>10, <1>11, <1>12, <1>13, StillSeen
<1> QED
  BY <1>1, <1>6, <1>8, <1>14, JudgedRead DEF ReadInv

\* A key: the object notes it, and it is none that it had noted.
LEMMA KeyRead ==
  ASSUME ReadInv, NEW token, projectCandidateJSONObject(token)
  PROVE  ReadInv'
<1> DEFINE n == Len(stack)
           f == Keyed(stack[n], token)
<1>1. /\ token \in Keys /\ stack # << >> /\ stack[n].kind = Object /\ stack[n].key = NoKey
      /\ token \notin stack[n].seen
      /\ stack' = [stack EXCEPT ![n] = f]
      /\ UNCHANGED <<rooted, projection, invalid>>
  <2>1. FitsKey(token) /\ UNCHANGED <<rooted, projection, invalid>>
    BY DEF projectCandidateJSONObject
  <2>2. /\ token \in Keys /\ stack # << >> /\ stack[n].kind = Object /\ stack[n].key = NoKey
        /\ token \notin stack[n].seen
    BY <2>1 DEF FitsKey, Top, Last
  <2>3. stack' = [stack EXCEPT ![n] = f]
    BY DEF projectCandidateJSONObject
  <2> QED
    BY <2>1, <2>2, <2>3
<1>2. /\ n \in Nat /\ n >= 1 /\ n \in 1..n /\ stack \in Seq(Frames) /\ stack[n] \in Frames
  BY <1>1, StackLength DEF ReadInv, Shape
<1>3. /\ f \in Frames /\ f.kind = stack[n].kind /\ f.key = token
      /\ f.seen = stack[n].seen \cup {token}
  BY <1>1, <1>2 DEF Frames, Keyed
<1> HIDE DEF f
<1>4. /\ stack' \in Seq(Frames) /\ Len(stack') = n
      /\ \A i \in 1..n : stack'[i] = IF i = n THEN f ELSE stack[i]
  BY <1>1, <1>2, <1>3, ExceptSeq
<1>5. stack' # << >> /\ rooted
  BY <1>1, <1>2, <1>4, EmptySeq DEF ReadInv, Shape
<1>6. Shape'
  BY <1>1, <1>4, <1>5 DEF ReadInv, Shape
<1>7. Noted'
  <2> SUFFICES ASSUME NEW i \in 1..n, stack'[i].key # NoKey
               PROVE  stack'[i].key \in stack'[i].seen
    BY <1>4 DEF Noted
  <2>1. CASE i = n
    BY <1>3, <1>4, <2>1
  <2>2. CASE i # n
    BY <1>4, <2>2 DEF ReadInv, Noted
  <2> QED
    BY <2>1, <2>2
<1>8. ASSUME NEW i \in 1..n, NEW k, Past(i, k)
      PROVE  Past(i, k)'
  <2>1. CASE i = n
    BY <1>1, <1>3, <1>4, <1>8, <2>1 DEF Past
  <2>2. CASE i # n
    BY <1>4, <1>8, <2>2 DEF Past
  <2> QED
    BY <2>1, <2>2
<1>9. ASSUME projection'[InRoot] # Absent
      PROVE  Past(1, "a")'
  BY <1>1, <1>2, <1>8, <1>9 DEF ReadInv, Seen
<1>10. ASSUME projection'[Inner] # Absent
       PROVE  Past(1, "b")' /\ (stack'[1].key = "b" => Past(2, "a")')
  <2>1. Past(1, "b") /\ (stack[1].key = "b" => Past(2, "a"))
    BY <1>1, <1>10 DEF ReadInv, Seen
  <2>2. Past(1, "b")'
    BY <1>2, <1>8, <2>1
  <2>3. ASSUME stack'[1].key = "b" PROVE Past(2, "a")'
    <3>1. n # 1
      <4> SUFFICES ASSUME n = 1 PROVE FALSE
        OBVIOUS
      <4>1. token = "b"
        BY <1>3, <1>4, <2>3
      <4> QED
        BY <1>1, <2>1, <4>1 DEF Past
    <3>2. stack[1].key = "b" /\ 2 \in 1..n
      BY <1>2, <1>4, <2>3, <3>1
    <3> QED
      BY <1>8, <2>1, <3>2
  <2> QED
    BY <2>2, <2>3
<1> QED
  BY <1>1, <1>5, <1>6, <1>7, <1>9, <1>10 DEF ReadInv, Seen, Judged

\* A closing bracket: the container around the one that ends goes on.
LEMMA ClosingRead ==
  ASSUME ReadInv, NEW token, ContainerEnds(token)
  PROVE  ReadInv'
<1> DEFINE n == Len(stack)
           r == Front(stack)
<1>1. stack # << >> /\ stack' = Settled(r) /\ UNCHANGED <<rooted, projection, invalid>>
  BY DEF ContainerEnds, FitsClose
<1>2. /\ n \in Nat /\ n >= 1 /\ stack \in Seq(Frames)
      /\ \A i \in 1..n : stack[i] \in Frames
  BY <1>1, StackLength DEF ReadInv, Shape
<1>3. /\ r \in Seq(Frames) /\ Len(r) = n - 1
      /\ \A i \in 1..(n - 1) : r[i] = stack[i]
  <2>1. 1 \in Int /\ n - 1 \in Int /\ \A i \in 1..(n - 1) : stack[i] \in Frames
    BY <1>2
  <2>2. /\ SubSeq(stack, 1, n - 1) \in Seq(Frames)
        /\ Len(SubSeq(stack, 1, n - 1)) = IF 1 <= n - 1 THEN (n - 1) - 1 + 1 ELSE 0
        /\ \A i \in 1..((n - 1) - 1 + 1) : SubSeq(stack, 1, n - 1)[i] = stack[1 + i - 1]
    BY <2>1, SubSeqProperties
  <2>3. \A i \in 1..(n - 1) : 1 + i - 1 = i
    OBVIOUS
  <2> QED
    BY <1>2, <2>2, <2>3, n >= 1 => (n - 1) - 1 + 1 = n - 1 DEF Front
<1> HIDE DEF r
<1>4. /\ stack' \in Seq(Frames) /\ Len(stack') = n - 1
      /\ \A i \in 1..(n - 1) : /\ stack'[i].kind = stack[i].kind
                               /\ stack'[i].seen = stack[i].seen
                               /\ stack'[i].key = IF i = n - 1 THEN NoKey ELSE stack[i].key
  BY <1>1, <1>3, SettledValues
<1>5. stack' = << >> <=> n = 1
  BY <1>2, <1>4, EmptySeq
<1>6. rooted
  BY <1>1 DEF ReadInv, Shape
<1>7. Shape'
  BY <1>1, <1>4, <1>6 DEF ReadInv, Shape
<1>8. Noted'
  <2> SUFFICES ASSUME NEW i \in 1..(n - 1), stack'[i].key # NoKey
               PROVE  stack'[i].key \in stack'[i].seen
    BY <1>4 DEF Noted
  <2>1. i \in 1..n /\ stack[i].key # NoKey /\ stack'[i].key = stack[i].key
    BY <1>2, <1>4
  <2> QED
    BY <1>4, <2>1 DEF ReadInv, Noted
<1>9. NoKey # "a" /\ NoKey # "b"
  BY DEF NoKey
<1>10. ASSUME NEW i \in 1..(n - 1), NEW k \in {"a", "b"}, Past(i, k)
       PROVE  Past(i, k)'
  BY <1>4, <1>9, <1>10 DEF Past
<1>11. ASSUME projection'[InRoot] # Absent, n # 1
       PROVE  Past(1, "a")'
  <2>1. Past(1, "a")
    BY <1>1, <1>11 DEF ReadInv, Seen
  <2>2. 1 \in 1..(n - 1)
    <3>1. n \in Nat /\ n >= 1
      BY <1>2
    <3> HIDE DEF n
    <3> QED
      BY <1>11, <3>1
  <2> QED
    BY <1>10, <2>1, <2>2
<1>12. ASSUME projection'[Inner] # Absent, n # 1
       PROVE  Past(1, "b")' /\ (stack'[1].key = "b" => Past(2, "a")')
  <2>4. 1 \in 1..(n - 1)
    <3>1. n \in Nat /\ n >= 1
      BY <1>2
    <3> HIDE DEF n
    <3> QED
      BY <1>12, <3>1
  <2>1. Past(1, "b") /\ (stack[1].key = "b" => Past(2, "a"))
    BY <1>1, <1>12 DEF ReadInv, Seen
  <2>2. Past(1, "b")'
    BY <1>10, <2>4, <2>1
  <2>3. ASSUME stack'[1].key = "b" PROVE Past(2, "a")'
    <3>1. n # 2 /\ stack[1].key = "b"
      BY <1>4, <1>9, <2>4, <2>3
    <3>2. 2 \in 1..(n - 1)
      <4>1. n \in Nat /\ n >= 1 /\ n # 2
        BY <1>2, <3>1
      <4> HIDE DEF n
      <4> QED
        BY <1>12, <4>1
    <3> QED
      BY <1>10, <2>1, <3>1, <3>2
  <2> QED
    BY <2>2, <2>3
<1> QED
  BY <1>1, <1>5, <1>6, <1>7, <1>8, <1>11, <1>12 DEF ReadInv, Seen, Judged

\* Only the parser's steps touch what it reads.
LEMMA ReadStep ==
  ASSUME ReadInv, [Next]_vars
  PROVE  /\ ReadInv'
         /\ \A p \in Tracked : projection[p] # Absent => projection'[p] = projection[p]
<1>1. CASE ParserTakes
  <2> DEFINE token == Head(chunk)
  <2>1. CASE WhiteSpace(token) \/ Refused(token)
    <3>1. UNCHANGED <<stack, rooted, projection, invalid>>
      BY <2>1 DEF WhiteSpace, Refused
    <3> QED
      BY <3>1 DEF ReadInv, Shape, Noted, Seen, Past, Judged
  <2>2. CASE projectCandidateJSONValue(token)
    <3> HIDE DEF token
    <3>1. FitsValue(token) /\ project(token) /\ token \in Opens \cup Scalars
      BY <2>2 DEF projectCandidateJSONValue, FitsValue
    <3>2. ReadInv'
      BY <2>2, <3>1, ScalarRead, OpeningRead
    <3> QED
      BY <3>1, <3>2, Recorded
  <2>3. CASE projectCandidateJSONObject(token)
    BY <2>3, KeyRead DEF projectCandidateJSONObject
  <2>4. CASE ContainerEnds(token)
    BY <2>4, ClosingRead DEF ContainerEnds
  <2> QED
    BY <1>1, <2>1, <2>2, <2>3, <2>4 DEF ParserTakes
<1>2. CASE ~ParserTakes
  <2>1. UNCHANGED <<stack, rooted, projection, invalid>>
    BY <1>2 DEF Next, Candidate, Gate, CandidateWrites, CandidateBreaks, CandidateExits, Cancel,
         Start, StartFails, Kill, CopierReads, CopierEnds, CopierFails, WaitReturns, CloseWriter,
         ParserAtLimit, ParserAtEnd, CloseReader, Conclude, Returned, vars, parsing
  <2> QED
    BY <2>1 DEF ReadInv, Shape, Noted, Seen, Past, Judged
<1> QED
  BY <1>1, <1>2

\* Before the first token nothing has been seen.
LEMMA ReadInit == Init => ReadInv
<1> SUFFICES ASSUME Init PROVE ReadInv
  OBVIOUS
<1>1. stack = << >> /\ rooted = FALSE /\ projection = [p \in Tracked |-> Absent]
  BY DEF Init
<1>2. \A p \in Tracked : projection[p] = Absent
  BY <1>1
<1>3. Root \in Tracked /\ InRoot \in Tracked /\ Inner \in Tracked
  BY DEF Tracked, Root, InRoot, Inner
<1>4. Shape
  BY <1>1, EmptySeq DEF Shape
<1>5. Noted
  <2>1. Len(stack) = 0
    BY <1>1, EmptySeq
  <2> QED
    BY <2>1 DEF Noted
<1> QED
  BY <1>1, <1>2, <1>3, <1>4, <1>5 DEF Init, ReadInv, Seen, Judged

(* Where the parser is, which keys its open objects have noted and what the gate has seen. *)
THEOREM ReaderInvariant == Spec => []ReadInv
BY ReadInit, ReadStep, PTL DEF Spec

(***************************************************************************)
(* The parser is given the candidate's output whole, in order and once; it *)
(* accepts only the whole of it, and after the candidate has ended; and    *)
(* the invocation is read exactly when it accepts, the gate has seen an    *)
(* object with no envelope field of a wrong type, and the candidate's own  *)
(* exit code is one of the contract.                                       *)
(***************************************************************************)
THEOREM WholeOutputJudged == Spec => []JudgesWholeOutput
<1>1. ASSUME IInv, ReadInv PROVE JudgesWholeOutput
  <2>1. parser = "accepted" =>
          (~invalid <=> projection[Root] = Object /\ projection[InRoot] \in {Absent, "v"})
    BY <1>1 DEF IInv, Accepts, ReadInv, Judged
  <2>2. Root = << >> /\ InRoot = <<"a">>
    BY DEF Root, InRoot
  <2> HIDE DEF Root, InRoot
  <2>3. outcome \in {"fault", "read"} =>
          (outcome = "read" <=>
              /\ parser = "accepted" /\ code \in CommandExits
              /\ projection[Root] = Object /\ projection[InRoot] \in {Absent, "v"})
    BY <1>1, <2>1 DEF IInv, Concluded
  <2> QED
    BY <1>1, <2>2, <2>3 DEF IInv, Accounted, OnTheWay, Accepts, JudgesWholeOutput
<1> QED
  BY <1>1, ProcessInvariant, ReaderInvariant, PTL

(***************************************************************************)
(* What the gate has seen at a place of the reply stays what it was, since *)
(* an object that has noted a key refuses to take it again.                *)
(***************************************************************************)
THEOREM SeenIsKept == Spec => SeenStays
<1>1. ReadInv /\ [Next]_vars =>
        [\A p \in Tracked : projection[p] # Absent => projection'[p] = projection[p]]_vars
  BY ReadStep
<1> QED
  BY <1>1, ReaderInvariant, PTL DEF Spec, SeenStays
=============================================================================
