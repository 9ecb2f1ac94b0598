------------------------------ MODULE Helpers ------------------------------
(***************************************************************************)
(* The pure functions that decide what the services see: the pieces of a   *)
(* text the verifier summarises, the entries of the seeds file, the        *)
(* spelling of feed addresses and the rate limit of public PDFs.  A state  *)
(* is one input; the properties compare what the code computes for it with *)
(* what it is meant to be.                                                 *)
(***************************************************************************)
EXTENDS Integers, Sequences, FiniteSets, SequencesExt

\* Tokens of the texts below.
Blank   == " "
Opening == "{"
Closing == "}"

CONSTANTS
  MinSize,    \* the smallest chunk, 500 in the code
  Minute,     \* the window of the rate limit
  MaxLength,  \* bounds: runes of a text,
  MaxSize,    \*         size of a chunk,
  MaxCalls,   \*         calls of allowRate
  Keys,       \* what the entries of the seeds file hold, one after the other
  Locations,  \* hosts and paths of feeds, cut at slashes and blanks
  Limits,     \* rateLimitPerMin of an installation
  Addresses,  \* clients of public PDFs
  Pauses      \* times between two calls

ASSUME HelpersAssumption ==
  /\ MinSize \in Nat \ {0} /\ Minute \in Nat \ {0}
  /\ MaxLength \in Nat /\ MaxSize \in Nat
  /\ MaxCalls \in Nat
  /\ Keys \in Seq(STRING) /\ \A k \in DOMAIN Keys : Keys[k] \notin {Opening, Closing}
  /\ Locations \subseteq Seq(STRING)
  /\ \A location \in Locations :
       /\ location # << >>
       /\ location[1] \notin {Blank, "/", "http:", "https:"}
       /\ location[Len(location)] \notin {Blank, "/"}
  /\ Limits \subseteq Nat /\ Pauses \subseteq Nat

VARIABLE input

Least(a, b) == Min({a, b})

-----------------------------------------------------------------------------
(***************************************************************************)
(* chunkText: the positions at which the pieces of a trimmed text begin    *)
(* and end.                                                                *)
(***************************************************************************)
Texts == [kind : {"text"}, length : 0 .. MaxLength, size : 0 .. MaxSize,
          overlap : -1 .. MaxSize + 1]

Size(text)    == IF text.size < MinSize THEN MinSize ELSE text.size
Overlap(text) == IF text.overlap \in 0 .. Size(text) - 1 THEN text.overlap ELSE 0

\* Mutant of Pieces: the loop does not stop at the end of the text.
PiecesToTheEnd(text) ==
  LET from[i \in 0 .. text.length + MaxSize] ==
        IF i >= text.length THEN << >>
        ELSE << <<i, Least(i + Size(text), text.length)>> >>
               \o from[i + Size(text) - Overlap(text)]
  IN from[0]

\* The loop from each position on.  It ends with the piece that reaches the
\* end of the text.
PiecesFrom(text) ==
  LET from[i \in 0 .. text.length] ==
        IF i + Size(text) >= text.length THEN << <<i, text.length>> >>
        ELSE << <<i, i + Size(text)>> >> \o from[i + Size(text) - Overlap(text)]
  IN from

Pieces(text) == PiecesFrom(text)[0]

ChunkText(text) ==
  IF text.length = 0 THEN << >>
  ELSE IF text.length <= Size(text) THEN << <<0, text.length>> >>
  ELSE Pieces(text)

\* The chunks of a text cover it from its first rune to its last, neighbours
\* share the overlap and nothing else, and no chunk only repeats what the one
\* before it has: at every boundary of length, size and overlap.
ChunksCover ==
  input.kind = "text" =>
    LET chunks == ChunkText(input)
        last == Len(chunks) IN
      /\ last = 0 <=> input.length = 0
      /\ last > 0 => chunks[1][1] = 0 /\ chunks[last][2] = input.length
      /\ \A k \in 1 .. last - 1 :
           /\ chunks[k][2] - chunks[k][1] = Size(input)
           /\ chunks[k + 1][1] = chunks[k][2] - Overlap(input)
           /\ chunks[k + 1][2] > chunks[k][2]

-----------------------------------------------------------------------------
(***************************************************************************)
(* parseBibTeX: the entries of the seeds file, cut at its braces.  A key   *)
(* stands for what follows the first brace of an entry up to the next one. *)
(***************************************************************************)
EntryForms == {"plain", "nested", "unclosed"}

Seeds == [kind : {"seeds"}, entries : UNION {[1 .. n -> EntryForms] : n \in 0 .. Len(Keys)}]

Entry(form, k) ==
  <<"@", Opening, Keys[k]>> \o (CASE form = "plain"    -> <<Closing>>
                                  [] form = "nested"   -> <<Opening, Closing, Closing>>
                                  [] form = "unclosed" -> <<Opening, Closing>>)

Source(seeds) ==
  FlattenSeq([k \in DOMAIN seeds.entries |-> Entry(seeds.entries[k], k)])

\* strings.IndexByte from i on, or 0.
IndexFrom(src, token, i) ==
  LET at == {j \in i .. Len(src) : src[j] = token} IN
    IF at = {} THEN 0 ELSE Min(at)

\* How many braces are open after each position, counted from position open on.
Depth(src, open) ==
  LET depth[j \in open - 1 .. Len(src)] ==
        IF j < open THEN 0
        ELSE depth[j - 1] + (IF src[j] = Opening THEN 1
                             ELSE IF src[j] = Closing THEN -1 ELSE 0)
  IN depth

\* Mutant of Balanced: the depth is not looked at.
BalancedAnywhere(src, open) == {j \in open .. Len(src) : src[j] = Closing}

\* Where the braces opened at position open are balanced again.
Balanced(src, open) ==
  LET depth == Depth(src, open) IN
    {j \in open .. Len(src) : src[j] = Closing /\ depth[j] = 0}

\* The break of the code leaves the switch and not the loop, so that the last
\* balanced brace of the file is taken.
BlockEnd(src, open) ==
  LET ends == Balanced(src, open) IN
    IF ends = {} THEN 0 ELSE Max(ends)

\* The keys of the entries, or an error, from position i on.  parseBibFields
\* ends with the fields at the first closing brace it cannot pair.
ParseFrom(src) ==
  LET from[i \in 1 .. Len(src) + 1] ==
        LET at == IndexFrom(src, "@", i)
            open == IF at = 0 THEN 0 ELSE IndexFrom(src, Opening, at)
            end == IF open = 0 THEN 0 ELSE BlockEnd(src, open)
        IN IF open = 0 THEN [ok |-> TRUE, keys |-> << >>]
           ELSE IF end = 0 THEN [ok |-> FALSE, keys |-> << >>]
           ELSE [from[end + 1] EXCEPT !.keys = <<src[open + 1]>> \o @]
  IN from

ParseBibTeX(src) == ParseFrom(src)[1]

\* Of a file of entries that are all closed the first one becomes a seed and
\* swallows the others; one entry that is not closed makes the file fail.
FirstSeedOnly ==
  input.kind = "seeds" =>
    LET parsed == ParseBibTeX(Source(input))
        forms == input.entries IN
      /\ parsed.ok <=> \A k \in DOMAIN forms : forms[k] # "unclosed"
      /\ parsed.ok => parsed.keys = (IF forms = << >> THEN << >> ELSE <<Keys[1]>>)

-----------------------------------------------------------------------------
(***************************************************************************)
(* The spelling of a feed: keyword asks with what normalizeFeedURLForMatch *)
(* makes of the address of the feed, the statements compare it with what   *)
(* an expression of SQL makes of the address in the profile, and the       *)
(* backfill uses the expression on both sides.                             *)
(***************************************************************************)
Fronts  == {<< >>, <<Blank>>}
Schemes == {<< >>, <<"/", "/">>, <<"http:", "/", "/">>, <<"https:", "/", "/">>}
Tails   == {<< >>, <<"/">>, <<Blank>>, <<"/", Blank>>}

Spellings == {blank \o scheme \o location \o tail :
                blank \in Fronts, scheme \in Schemes, location \in Locations, tail \in Tails}

Feeds == [kind : {"feed"}, asked : Spellings, saved : Spellings]

\* Mutant of TrimSuffix: it trims nothing.
TrimSuffixNever(url, token) == url

TrimPrefix(url, prefix) ==
  IF IsPrefix(prefix, url) THEN SubSeq(url, Len(prefix) + 1, Len(url)) ELSE url

TrimSuffix(url, token) ==
  IF url # << >> /\ Last(url) = token THEN Front(url) ELSE url

TrimBlanks(url) ==
  LET kept == {i \in DOMAIN url : url[i] # Blank} IN
    IF kept = {} THEN << >> ELSE SubSeq(url, Min(kept), Max(kept))

\* normalizeFeedURLForMatch
NormalizeFeedURLForMatch(url) ==
  LET noHttps == TrimPrefix(TrimBlanks(url), <<"https:", "/", "/">>)
      noHttp == TrimPrefix(noHttps, <<"http:", "/", "/">>)
  IN TrimSuffix(TrimPrefix(noHttp, <<"/", "/">>), "/")

\* trim(trailing '/' from regexp_replace(lower(trim(v)), '^(https?:)?//', ''))
NormalizedInSQL(url) ==
  LET trimmed == TrimBlanks(url)
      scheme == {s \in {<<"https:", "/", "/">>, <<"http:", "/", "/">>, <<"/", "/">>} :
                   IsPrefix(s, trimmed)}
      bare == IF scheme = {} THEN trimmed
              ELSE TrimPrefix(trimmed, CHOOSE s \in scheme : TRUE)
      kept == {i \in DOMAIN bare : bare[i] # "/"}
  IN IF kept = {} THEN << >> ELSE SubSeq(bare, 1, Max(kept))

\* keyword routes the papers of a feed to the profiles for which the backfill
\* takes them, however each of them spells the address, as long as it has one
\* scheme and at most one slash at its end.
FeedsMatch ==
  input.kind = "feed" =>
    (NormalizeFeedURLForMatch(input.asked) = NormalizedInSQL(input.saved)
       <=> NormalizedInSQL(input.asked) = NormalizedInSQL(input.saved))

-----------------------------------------------------------------------------
(***************************************************************************)
(* allowRate: a counter per address in a window that all addresses share,  *)
(* begun by the first call after the last one has run out.                 *)
(***************************************************************************)
Calls == [1 .. MaxCalls -> [after : Pauses, key : Addresses]]

Rates == [kind : {"rate"}, limit : Limits, calls : Calls]

\* Mutant of Expired: a window that is exactly over goes on.
ExpiredLate(age) == age > Minute

Expired(age) == age >= Minute

\* The start of the api.
Opened == [now |-> 0, window |-> 0, counter |-> [key \in Addresses |-> 0], allowed |-> FALSE]

\* The clock, the window and its counters after a call.
Admit(limit, last, call) ==
  LET now == last.now + call.after
      fresh == Expired(now - last.window)
      counter == [key \in Addresses |-> (IF fresh THEN 0 ELSE last.counter[key])
                                          + (IF key = call.key THEN 1 ELSE 0)]
  IN [now |-> now, window |-> IF fresh THEN now ELSE last.window,
      counter |-> counter, allowed |-> counter[call.key] <= limit]

AllowRate(rate) ==
  LET after[k \in 0 .. MaxCalls] ==
        IF k = 0 THEN Opened ELSE Admit(rate.limit, after[k - 1], rate.calls[k])
  IN after

\* In no minute does one address get more than twice the limit, and none is
\* refused that has kept to the limit in the minute before the call, whatever
\* other addresses do to the window they share.
RateBound ==
  input.kind = "rate" =>
    LET after == AllowRate(input)
        calls == 1 .. MaxCalls
        Recent(k) == {j \in calls : /\ j <= k /\ input.calls[j].key = input.calls[k].key
                                    /\ after[k].now - after[j].now < Minute} IN
      \A k \in calls :
        /\ Cardinality({j \in Recent(k) : after[j].allowed}) <= 2 * input.limit
        /\ Cardinality(Recent(k)) <= input.limit => after[k].allowed

-----------------------------------------------------------------------------
HelpersInit == input \in Texts \cup Seeds \cup Feeds \cup Rates
HelpersNext == UNCHANGED input
HelpersSpec == HelpersInit /\ [][HelpersNext]_input
=============================================================================
