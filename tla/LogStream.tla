----------------------------- MODULE LogStream ------------------------------
(***************************************************************************)
(* The log of a runtime container on its way to the operator: it comes in  *)
(* chunks that are cut anywhere, the words of the job's secrets are to be  *)
(* replaced in it, and it is handed on while it comes.                     *)
(*                                                                         *)
(* Text is a sequence of letters, and Mark stands for "<redacted>".  A     *)
(* chunk is decoded by itself: where its border cuts a letter of several   *)
(* bytes, each side of it becomes Broken (the replacement character), as   *)
(* any byte does that is no text; a secret with such a letter is then not  *)
(* in the text any more.  The reader keeps back the end of the text that   *)
(* may be the beginning of a secret.  If the stream fails, the whole log   *)
(* is fetched once more.  Patterns for repository addresses are not        *)
(* modelled.                                                               *)
(***************************************************************************)
EXTENDS Naturals, Sequences, FiniteSets

CONSTANTS
  Letter,     \* letters of text and secrets
  Wide,       \* those of two bytes
  Broken,     \* what a byte becomes that is not decoded
  MaxSecret,  \* bound: length of a secret
  ChunkSize,  \* bound: length of a chunk
  LogBytes    \* the limit of the log, in bytes

Mark == "<redacted>"

ASSUME LogAssumption ==
  /\ MaxSecret \in Nat \ {0} /\ ChunkSize \in Nat \ {0} /\ LogBytes \in Nat
  /\ Mark \notin Letter /\ Broken \notin Letter /\ Broken # Mark
  /\ Wide \subseteq Letter

VARIABLES
  secrets,   \* the words, the longest first
  pending,   \* text that is kept back
  raw,       \* the text that came, as far as the limit allows
  taken,     \* its bytes
  shown,     \* what was handed on of it, in pieces put together
  logPhase   \* the stream is read, broken off, failed, or all is done

logVars == <<secrets, pending, raw, taken, shown, logPhase>>

Char == Letter \union {Broken}
Strings(S, n) == UNION {[1..k -> S] : k \in 0..n}
Words == Strings(Letter, MaxSecret) \ {<<>>}

LogInit ==
  /\ secrets \in {s \in Words \X Words : Len(s[1]) >= Len(s[2])}
  /\ pending = <<>> /\ raw = <<>> /\ taken = 0 /\ shown = <<>>
  /\ logPhase = "reading"

-----------------------------------------------------------------------------
(* _redact_text                                                            *)

Begins(text, i, word) ==
  i + Len(word) - 1 <= Len(text) /\ SubSeq(text, i, i + Len(word) - 1) = word

\* str.replace: from the left, without overlaps.
Replace(text, word) ==
  LET from[i \in 1..(Len(text) + 1)] ==
        IF i > Len(text) THEN <<>>
        ELSE IF Begins(text, i, word) THEN <<Mark>> \o from[i + Len(word)]
        ELSE <<text[i]>> \o from[i + 1]
  IN from[1]

RedactText(text) == Replace(Replace(text, secrets[1]), secrets[2])

-----------------------------------------------------------------------------
(* safe_cutoff                                                             *)

Biggest(S) == CHOOSE n \in S : \A m \in S : m <= n

\* The longest end of the text that a secret begins with.
Hold(text) ==
  Biggest({0} \union
    {k \in 1..(MaxSecret - 1) :
       \E w \in 1..2 : /\ k < Len(secrets[w]) /\ k <= Len(text)
                       /\ SubSeq(text, Len(text) - k + 1, Len(text)) =
                          SubSeq(secrets[w], 1, k)})

\* Where the secrets end that lie across a cut after the first n letters.
Crossing(text, n) ==
  {m \in (n + 1)..Len(text) :
     \E i \in 1..n, w \in 1..2 : /\ m = i + Len(secrets[w]) - 1
                                /\ Begins(text, i, secrets[w])}

\* Faulty: no regard for a complete secret across the cut.
CutoffAtHold(text) == Len(text) - Hold(text)

\* The cut is moved behind the secrets across it until none is.
SafeCutoff(text) ==
  LET move[n \in 0..Len(text)] ==
        IF Crossing(text, n) = {} THEN n ELSE move[Biggest(Crossing(text, n))]
  IN move[Len(text) - Hold(text)]

-----------------------------------------------------------------------------
(* The reader.                                                             *)

\* The bytes of the first k letters.
Bytes(text, k) == k + Cardinality({i \in 1..k : text[i] \in Wide})
Size(text) == Bytes(text, Len(text))

\* As much of a text as there is room for; a letter may be cut.
Fitting(text, room) == Biggest({k \in 0..Len(text) : Bytes(text, k) <= room})
WithinRoom(text, room) ==
  SubSeq(text, 1, Fitting(text, room))
    \o (IF /\ Fitting(text, room) < Len(text)
           /\ Bytes(text, Fitting(text, room)) < room
        THEN <<Broken>> ELSE <<>>)

\* One chunk: as much of it as the limit allows.
Chunk(text) ==
  LET room == LogBytes - taken
      bounded == WithinRoom(text, room)
      all == pending \o bounded
      cut == SafeCutoff(all)
  IN /\ logPhase = "reading"
     /\ IF room = 0
        THEN logPhase' = "exceeded" /\ UNCHANGED <<pending, raw, taken, shown>>
        ELSE /\ raw' = raw \o bounded
             /\ taken' = IF Size(text) > room THEN LogBytes
                         ELSE taken + Size(text)
             /\ pending' = SubSeq(all, cut + 1, Len(all))
             /\ shown' = shown \o RedactText(SubSeq(all, 1, cut))
             /\ logPhase' = IF Size(text) > room THEN "exceeded" ELSE "reading"
     /\ UNCHANGED secrets

\* The end of the stream, or the limit: the rest is handed on.
Flush ==
  /\ logPhase \in {"reading", "exceeded"}
  /\ shown' = shown \o RedactText(pending)
  /\ pending' = <<>>
  /\ logPhase' = "ended"
  /\ UNCHANGED <<secrets, raw, taken>>

\* The stream fails, or could not be opened: what is kept back goes to nobody.
\* Then the log is fetched once more, and handed on beside what was shown.
StreamFails ==
  /\ logPhase = "reading"
  /\ pending' = <<>> /\ raw' = <<>> /\ taken' = 0 /\ shown' = <<>>
  /\ logPhase' = "failed"
  /\ UNCHANGED secrets

\* The whole log, in one piece.
Fallback(text) ==
  /\ logPhase = "failed"
  /\ raw' = WithinRoom(text, LogBytes)
  /\ taken' = IF Size(text) > LogBytes THEN LogBytes ELSE Size(text)
  /\ shown' = RedactText(raw')
  /\ logPhase' = "ended"
  /\ UNCHANGED <<secrets, pending>>

FallbackFails ==
  /\ logPhase = "failed" /\ logPhase' = "ended"
  /\ UNCHANGED <<secrets, pending, raw, taken, shown>>

LogNext ==
  \/ \E text \in Strings(Char, ChunkSize) \ {<<>>} : Chunk(text)
  \/ Flush \/ StreamFails
  \/ \E text \in Strings(Char, LogBytes + 1) : Fallback(text)
  \/ FallbackFails

LogSpec == LogInit /\ [][LogNext]_logVars

-----------------------------------------------------------------------------
(* Properties.                                                             *)

LogTypeOK ==
  /\ secrets \in Words \X Words
  /\ pending \in Seq(Char) /\ Len(pending) < MaxSecret
  /\ raw \in Seq(Char) /\ taken \in 0..LogBytes
  /\ shown \in Seq(Char \union {Mark})
  /\ logPhase \in {"reading", "exceeded", "failed", "ended"}

\* Where the secrets lie in a text, from the first to the last letter.
Places(text) ==
  {p \in (1..Len(text)) \X (1..Len(text)) :
     \E w \in 1..2 : /\ p[2] = p[1] + Len(secrets[w]) - 1
                     /\ Begins(text, p[1], secrets[w])}

Apart(S) == \A p, q \in S : p = q \/ p[2] < q[1] \/ q[2] < p[1]

\* However the container's output is cut into chunks, wherever the limit ends
\* it and whether or not the stream fails, no secret stands whole in what was
\* handed on, neither within one piece nor across two, as long as the secrets
\* lie apart in the text that came.  One may still end with what another
\* begins with.  A secret that the decoding broke is shown as it came.
NoSecretIsShown == Apart(Places(raw)) => Places(shown) = {}

=============================================================================
