---------------------------- MODULE ResponseText ----------------------------
(***************************************************************************)
(* What HttpBroker::execute makes of a response body (src/http.rs) with    *)
(* redact_text (src/redact.rs): it reads chunks up to a limit that lies    *)
(* beyond the visible one, replaces the secrets, and truncates.            *)
(*                                                                         *)
(* Text is a sequence of characters of one byte.                           *)
(***************************************************************************)
EXTENDS Naturals, Sequences, SequencesExt, FiniteSetsExt

CONSTANTS
    BodyChars, MaxBodyLength,   \* bound: the bodies that a target sends
    Secrets,    \* the credential, and what is derived from it for Basic
    Marker      \* what a secret is replaced by

Chars == BodyChars \cup Range(Marker) \cup UNION {Range(Secrets[n]) : n \in DOMAIN Secrets}

OccursAt(text, secret, i) ==
    i + Len(secret) - 1 <= Len(text) /\ SubSeq(text, i, i + Len(secret) - 1) = secret

\* A secret that cannot overlap a marker: it has no "[" and no "]", and is not a
\* part of the word between them.
Apart(secret) ==
    /\ \A i \in DOMAIN secret : secret[i] \notin {Marker[1], Marker[Len(Marker)]}
    /\ \A i \in DOMAIN Marker : ~OccursAt(Marker, secret, i)

ASSUME ResponseTextAssumption ==
    /\ MaxBodyLength \in Nat
    /\ Marker \in Seq(Chars) /\ Marker # <<>>
    /\ Secrets \in Seq(Seq(Chars)) /\ Secrets # <<>>
    /\ \A n \in DOMAIN Secrets : Secrets[n] # <<>> /\ Apart(Secrets[n])

VARIABLES
    body,        \* all that the target sends
    visible,     \* limits.max_response_bytes
    fetched,     \* bytes of the body that have arrived
    bytes,       \* what is kept of them
    truncated, shown, textDone

textVars == <<body, visible, fetched, bytes, truncated, shown, textDone>>

\* str::replace: from the left, occurrences that do not overlap.
Scan(text, secret) ==
    LET From[i \in 1..(Len(text) + Len(secret))] ==
            IF i > Len(text) THEN <<>>
            ELSE IF OccursAt(text, secret, i) THEN Marker \o From[i + Len(secret)]
            ELSE <<text[i]>> \o From[i + 1]
    IN  From

Replace(text, secret) == Scan(text, secret)[1]

RedactCredentialOnly(text) == Replace(text, Secrets[1])

\* redact_text: one secret after the other.
Redactions(text) ==
    LET After[n \in 0..Len(Secrets)] ==
            IF n = 0 THEN text ELSE Replace(After[n - 1], Secrets[n])
    IN  After

RedactText(text) == Redactions(text)[Len(Secrets)]

Overlap == Max({Len(Secrets[n]) : n \in DOMAIN Secrets})

NoOverlap == visible

\* read_limit
ReadLimit == visible + Overlap

-----------------------------------------------------------------------------
TextInit ==
    /\ body \in BoundedSeq(BodyChars, MaxBodyLength) /\ visible \in 1..MaxBodyLength
    /\ fetched = 0 /\ bytes = <<>> /\ shown = <<>>
    /\ truncated = FALSE /\ textDone = FALSE

Truncate(text) == SubSeq(text, 1, IF Len(text) > visible THEN visible ELSE Len(text))

\* The end of the loop: redact what was read, then truncate it.
Show(read, cut) ==
    LET text == RedactText(read)
    IN  /\ shown' = Truncate(text)
        /\ truncated' = (cut \/ Len(text) > visible)
        /\ textDone' = TRUE

\* A chunk of n bytes arrives; one that does not fit is cut and ends the loop.
Chunk(n) ==
    /\ ~textDone /\ fetched + n <= Len(body)
    /\ LET remaining == ReadLimit - Len(bytes)
           kept == IF n > remaining THEN remaining ELSE n
       IN  /\ fetched' = fetched + n
           /\ bytes' = bytes \o SubSeq(body, fetched + 1, fetched + kept)
           /\ IF n > remaining THEN Show(bytes', TRUE)
              ELSE UNCHANGED <<truncated, shown, textDone>>
    /\ UNCHANGED <<body, visible>>

\* chunk() returns None.
LastChunk ==
    /\ ~textDone /\ fetched = Len(body)
    /\ Show(bytes, FALSE)
    /\ UNCHANGED <<body, visible, fetched, bytes>>

TextNext == (\E n \in 1..MaxBodyLength : Chunk(n)) \/ LastChunk

TextSpec == TextInit /\ [][TextNext]_textVars

-----------------------------------------------------------------------------
\* No credential, in either form, can be read in the text the caller gets, in
\* whatever chunks it came (redact.rs:5-14, http.rs:148-151).
NoSecretShown ==
    \A n \in DOMAIN Secrets, i \in DOMAIN shown : ~OccursAt(shown, Secrets[n], i)

\* A secret lies on both sides of the cut behind byte k of the body.
Cuts(k) ==
    \E n \in DOMAIN Secrets, i \in DOMAIN body :
        OccursAt(body, Secrets[n], i) /\ i <= k /\ i + Len(Secrets[n]) - 1 > k

\* The caller gets at most the limit, and of the body as it reads with every secret
\* replaced: all that comes before a secret which reading has cut off, and nothing
\* else where it has cut off none; truncated says whether something is missing
\* (http.rs:153-191).
ShownIsRedacted ==
    textDone =>
        /\ Len(shown) <= visible
        /\ \A k \in 0..Len(body) :
              k <= visible + Overlap /\ ~Cuts(k)
              => IsPrefix(Truncate(RedactText(SubSeq(body, 1, k))), shown)
        /\ ~Cuts(visible + Overlap) => IsPrefix(shown, RedactText(body))
        /\ ~truncated => shown = RedactText(body)
        /\ truncated /\ ~Cuts(visible + Overlap) => shown # RedactText(body)

\* Of a secret that reading has cut off the caller gets no part, however long it
\* is: what is left of it lies behind what is shown (http.rs:159-160, 302).
NoPartShown ==
    \A n \in DOMAIN Secrets, i \in DOMAIN body :
        LET rest == SubSeq(body, i, ReadLimit)
            text == RedactText(bytes)
        IN  /\ textDone /\ OccursAt(body, Secrets[n], i)
            /\ i <= ReadLimit /\ i + Len(Secrets[n]) - 1 > ReadLimit
            /\ IsSuffix(rest, text)
            => Len(shown) <= Len(text) - Len(rest)
=============================================================================
