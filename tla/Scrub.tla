------------------------------- MODULE Scrub --------------------------------
(***************************************************************************)
(* bulk_scrub and bulk_restore (crates/shanon-core/src: scrub.rs,          *)
(* restore.rs). Two passes over a text, each an iteration of run_pass per  *)
(* step; then, to ask what a second scrub would do, the same over the      *)
(* result. Positions count characters from 1 and an end is exclusive.      *)
(*                                                                         *)
(* The exact categories are one category here, the folded ones another; the *)
(* pattern and forward fold alike, so the report's canary stays at zero.    *)
(***************************************************************************)
EXTENDS Naturals, Sequences, FiniteSets, SequencesExt

CONSTANTS Char, Word,    \* characters, and those of a word
          Fold,          \* [Char -> Char], case folding
          Maps,          \* registries: sets of [exact, real, fake]
          Texts          \* what an operator may type

ASSUME ScrubAssumption ==
    /\ Word \subseteq Char /\ Fold \in [Char -> Char]
    /\ Texts \subseteq Seq(Char)
    /\ \A reg \in Maps : \A e, f \in reg :
          /\ e.exact \in BOOLEAN /\ {e.real, e.fake} \subseteq Seq(Char) \ {<<>>}
          /\ e # f => e.fake # f.fake
          /\ e.fake # f.real

VARIABLES reg,        \* the registry of the map
          typed,      \* what was typed
          round,      \* 1, or 2 when the result is scrubbed again
          pass,       \* "exact", "folded" or "done"
          text,       \* the text this pass reads
          pos, out,   \* its position, and what it has written
          once        \* the result of the first round
scrubVars == <<reg, typed, round, pass, text, pos, out, once>>
----------------------------------------------------------------------------
(* Matching *)

Folded(s) == [i \in DOMAIN s |-> Fold[s[i]]]

\* s as the pass compares it.
Seen(s, exact) == IF exact THEN s ELSE Folded(s)

\* Where the literals occur in t from i on, as <<start, end>>.
Matches(t, i, literals) ==
    {m \in (i..Len(t)) \X (i..(Len(t) + 1)) :
        m[1] < m[2] /\ SubSeq(t, m[1], m[2] - 1) \in literals}

\* The match find returns, if there is one: the leftmost, and the longest of
\* those, as compile_pass puts longer literals first.
First(matches) ==
    {m \in matches : \A n \in matches : m[1] < n[1] \/ (m[1] = n[1] /\ m[2] >= n[2])}

\* is_bounded
Bounded(t, start, end) ==
    /\ start > 1 => t[start - 1] \notin Word
    /\ end <= Len(t) => t[end] \notin Word

Fakes == {e.fake : e \in reg}

\* pseudonym_spans: find_iter of the alternation of all pseudonyms.
SpansOf(t) ==
    LET from[i \in 1..(Len(t) + 1)] ==
            UNION {{m} \cup from[m[2]] : m \in First(Matches(t, i, Fakes))}
    IN  from[1]
Spans == SpansOf(text)

\* Mutant: pseudonyms in the text are text.
OverlapsNothing(start, end) == FALSE

\* overlaps_pseudonym
Overlaps(start, end) == \E span \in Spans : start < span[2] /\ span[1] < end

Literals(exact) == {Seen(e.real, exact) : e \in {f \in reg : f.exact = exact}}

\* Registry::forward, restricted to the categories of the pass.
Forward(s, exact) ==
    {e \in reg : e.exact = exact /\ Seen(e.real, exact) = Seen(s, exact)}
----------------------------------------------------------------------------
(* run_pass *)

ScrubInit ==
    /\ reg \in Maps /\ typed \in Texts
    /\ round = 1 /\ pass = "exact"
    /\ text = typed
    /\ pos = 1 /\ out = <<>>
    /\ once = <<>>

Scanning == pass # "done" /\ pos <= Len(text)
Exact == pass = "exact"
Found == First(Matches(Seen(text, Exact), pos, Literals(Exact)))

Replace ==
    /\ Scanning
    /\ \E m \in Found :
          /\ Bounded(text, m[1], m[2]) /\ ~Overlaps(m[1], m[2])
          /\ \E e \in Forward(SubSeq(text, m[1], m[2] - 1), Exact) :
                out' = out \o SubSeq(text, pos, m[1] - 1) \o e.fake
          /\ pos' = m[2]
    /\ UNCHANGED <<reg, typed, round, pass, text, once>>

\* Mutant: the scan resumes at the match.
ResumeHere(start) == start

\* Resume one character into the match.
Resume(start) == start + 1

Decline ==
    /\ Scanning
    /\ \E m \in Found :
          /\ \/ ~Bounded(text, m[1], m[2]) \/ Overlaps(m[1], m[2])
             \/ Forward(SubSeq(text, m[1], m[2] - 1), Exact) = {}
          /\ out' = out \o SubSeq(text, pos, Resume(m[1]) - 1)
          /\ pos' = Resume(m[1])
    /\ UNCHANGED <<reg, typed, round, pass, text, once>>

\* Mutant: what follows the last hit is dropped.
ResultUpToHit == out

Result == out \o SubSeq(text, pos, Len(text))

\* The pass is over; the next reads what it wrote.
EndPass ==
    /\ pass # "done" /\ (pos > Len(text) \/ Found = {})
    /\ pass' = IF Exact THEN "folded" ELSE "done"
    /\ text' = Result
    /\ pos' = 1 /\ out' = <<>>
    /\ UNCHANGED <<reg, typed, round, once>>

\* The operator scrubs the result.
Again ==
    /\ pass = "done" /\ round = 1
    /\ round' = 2 /\ pass' = "exact"
    /\ once' = text
    /\ UNCHANGED <<reg, typed, text, pos, out>>

ScrubNext == Replace \/ Decline \/ EndPass \/ Again
\* run_pass is a loop of one thread.
ScrubSpec == ScrubInit /\ [][ScrubNext]_scrubVars /\ WF_scrubVars(ScrubNext)
----------------------------------------------------------------------------
\* bulk_restore: every pseudonym, longest first, boundaries or not.
Restore(t) ==
    LET from[i \in 1..(Len(t) + 1)] ==
            LET hit == First(Matches(t, i, Fakes))
                m == CHOOSE x \in hit : TRUE
                e == CHOOSE f \in reg : f.fake = SubSeq(t, m[1], m[2] - 1)
            IN  IF hit = {} THEN SubSeq(t, i, Len(t))
                ELSE SubSeq(t, i, m[1] - 1) \o e.real \o from[m[2]]
    IN  from[1]

\* Where a restore of t reads the pseudonym f, and where the name r stands in t.
ReadAt(t, f) == {m \in SpansOf(t) : SubSeq(t, m[1], m[2] - 1) = f}
NamedAt(t, r) == Matches(Folded(t), 1, {Folded(r)})

\* A pseudonym stands in the scrubbed text more often than it and its name were
\* typed: the one written for a name and the text around it read as another.
Composed ==
    \E e \in reg : Cardinality(ReadAt(text, e.fake))
                     > Cardinality(ReadAt(typed, e.fake)) + Cardinality(NamedAt(typed, e.real))

\* Scrubbing loses nothing a restore does not bring back: the scrubbed text and
\* the typed one restore to the same text, but for the case of what was typed,
\* unless the scrub composed a pseudonym nobody typed or named.
RoundTrip ==
    pass = "done" => Folded(Restore(text)) = Folded(Restore(typed)) \/ Composed

\* A name in t is part of a longer word there, and another, which is none, shares
\* characters with it or with its neighbours.
RunTogether(t) ==
    LET names == UNION {NamedAt(t, e.real) : e \in reg}
    IN  \E m, n \in names : /\ ~Bounded(t, m[1], m[2]) /\ Bounded(t, n[1], n[2])
                            /\ n[1] <= m[2] /\ m[1] <= n[2]

\* Scrubbing what was scrubbed changes nothing, unless names run together: the
\* pseudonym of one can end the word the other was a part of.
Idempotent == pass = "done" /\ round = 2 => text = once \/ RunTogether(typed)

\* Every pass comes to its end, whatever it has to decline.
ScanEnds == <>(pass = "done" /\ round = 2)
=============================================================================
