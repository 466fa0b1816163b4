--------------------------- MODULE RequirementIds ---------------------------
(***************************************************************************)
(* normalizeRequirement (src/application/requirements) and the ids of      *)
(* src/utils/ids.ts. Sources are normalized in separate runs, edited in    *)
(* between, and a normalized requirement may be normalized again.          *)
(*                                                                         *)
(* A text is a sequence of words, one per line, with or without blanks     *)
(* around it, and what the id of a text keeps of a word is a sequence of   *)
(* parts. A sha256 prefix is taken to be injective: an id is the hashed    *)
(* text itself, tagged.                                                    *)
(***************************************************************************)
EXTENDS SequencesExt

CONSTANTS
  Word,
  Part,      \* what ids are made of: [a-z0-9] in pieces, and the hyphen
  Hyphen,
  Slug,      \* word -> the parts that toLowerCase and the replacements leave of it
  MaxSlug,   \* slice(0, 40): parts kept of a text
  Tidy,      \* words that are all [a-z0-9-] and short enough: nothing of them is lost
  Given,     \* ids that sources bring
  Raw,       \* values of RawRequirement
  Omitted,   \* undefined
  MaxRuns    \* bound: requirements normalized

Text == [words : Seq(Word), padded : BOOLEAN]
Seed == [words : Seq(Word \cup {"id"}), inner : BOOLEAN]     \* texts put together

\* The ids that buildId makes: of a requirement, and of a criterion in it.
RequirementIdsMade ==
  ({"req"} \X {"slug"} \X Seq(Part))
  \cup ({"req"} \X {"hash"} \X Seed) \cup ({"req"} \X {"random"} \X Nat)
CriterionIdsMade == {"ac"} \X {"hash"} \X ((Given \cup RequirementIdsMade) \X Seed)

RawCriterion == [id : Given \cup CriterionIdsMade \cup {Omitted}, description : Text]
RawRequirement ==
  [id : Given \cup RequirementIdsMade \cup {Omitted}, externalId : Text \cup {Omitted},
   title : Text, description : Text, acceptanceCriteria : Seq(RawCriterion)]

ASSUME IdsAssumption ==
  /\ MaxRuns \in Nat /\ MaxSlug \in Nat /\ Hyphen \in Part /\ Tidy \subseteq Word
  /\ DOMAIN Slug = Word /\ (\A w \in Word : Slug[w] \in Seq(Part))
  /\ \A v, w \in Tidy : Len(Slug[v]) \in 1..MaxSlug /\ (Slug[v] = Slug[w] => v = w)
  /\ Raw \subseteq RawRequirement
  /\ Omitted \notin Given \cup Text
  /\ Omitted \notin RequirementIdsMade /\ Omitted \notin CriterionIdsMade

VARIABLES
  pairs,     \* the pairs of a source and its normalized requirement so far
  runs       \* normalizations so far; a random id is never drawn twice

idVars == <<pairs, runs>>

-----------------------------------------------------------------------------
(* Texts *)

Blank(text) == text.words = <<>>
Trim(text) == [text EXCEPT !.padded = FALSE]

JoinFirst(one, two) == [words |-> one.words, inner |-> FALSE]     \* (slip) the title alone

\* `${one}\n${two}`.trim(): blanks between the two stay, blanks around them go.
Join(one, two) ==
  [words |-> one.words \o two.words,
   inner |-> ~Blank(one) /\ ~Blank(two) /\ (one.padded \/ two.padded)]

-----------------------------------------------------------------------------
(* Ids *)

\* Blanks between words become hyphens, and other characters are dropped.
Hyphened(words) ==
  FlattenSeq([k \in DOMAIN words |-> IF k = 1 THEN Slug[words[1]] ELSE <<Hyphen>> \o Slug[words[k]]])

\* Only the beginning of the whole is kept.
Cut(text) == SubSeq(text, 1, IF Len(text) > MaxSlug THEN MaxSlug ELSE Len(text))
Normalized(words) == Cut(Hyphened(words))

HashId(prefix, seed) == <<prefix, "hash", seed>>

SlugId(prefix, words) ==
  IF Normalized(words) = <<>> THEN HashId(prefix, [words |-> words, inner |-> FALSE])
  ELSE <<prefix, "slug", Normalized(words)>>

RandomId(prefix, n) == <<prefix, "random", n>>

RequirementId(raw, n) ==
  LET seed == Join(raw.title, raw.description)
  IN IF raw.id # Omitted THEN raw.id
     ELSE IF raw.externalId # Omitted /\ ~Blank(raw.externalId)
          THEN SlugId("req", raw.externalId.words)
     ELSE IF seed.words # <<>> THEN HashId("req", seed)
     ELSE RandomId("req", n)

CriterionId(c, requirementId) ==
  IF c.id # Omitted THEN c.id
  ELSE HashId("ac", <<requirementId,
                      Join([words |-> <<"id">>, padded |-> FALSE], c.description)>>)

NormalizeCriterion(c, requirementId) ==
  [id |-> CriterionId(c, requirementId), description |-> Trim(c.description)]

\* An empty external id is left out.
KeptExternalId(raw) ==
  IF raw.externalId = [words |-> <<>>, padded |-> FALSE] THEN Omitted ELSE raw.externalId

NormalizeRequirement(raw, n) ==
  LET id == RequirementId(raw, n)
  IN [id |-> id, externalId |-> KeptExternalId(raw),
      title |-> Trim(raw.title), description |-> Trim(raw.description),
      acceptanceCriteria |->
        [k \in DOMAIN raw.acceptanceCriteria |-> NormalizeCriterion(raw.acceptanceCriteria[k], id)]]

-----------------------------------------------------------------------------

Normalize(raw) ==
  /\ runs < MaxRuns
  /\ runs' = runs + 1
  /\ pairs' = pairs \cup {[raw |-> raw, made |-> NormalizeRequirement(raw, runs)]}

\* What normalization returned comes back as its input.
Again(x) == x \in pairs /\ Normalize(x.made)

IdsInit == pairs = {} /\ runs = 0

IdsNext == (\E raw \in Raw : Normalize(raw)) \/ (\E x \in pairs : Again(x))

IdsSpec == IdsInit /\ [][IdsNext]_idVars

-----------------------------------------------------------------------------
(* Correctness *)

Made(x) == x.made.id
CriterionIds(x) == [k \in DOMAIN x.made.acceptanceCriteria |-> x.made.acceptanceCriteria[k].id]

\* A normalized requirement has trimmed texts and one criterion per source criterion.
IdsTypeOK ==
  /\ runs \in 0..MaxRuns
  /\ \A x \in pairs :
       /\ ~x.made.title.padded /\ ~x.made.description.padded
       /\ Len(x.made.acceptanceCriteria) = Len(x.raw.acceptanceCriteria)

Identified(raw) ==
  \/ raw.id # Omitted
  \/ raw.externalId # Omitted /\ ~Blank(raw.externalId)
  \/ ~Blank(raw.title) \/ ~Blank(raw.description)

\* A source that says anything about itself gets the ids it got before, its
\* criteria as well, in whatever run; a normalized requirement that is
\* normalized again is left exactly as it is.
IdsDoNotDrift ==
  \A x, y \in pairs :
    /\ x.raw = y.raw /\ Identified(x.raw) => x.made = y.made
    /\ y.raw = x.made => y.made = x.made

Named(raw) == raw.externalId # Omitted /\ ~Blank(raw.externalId)
SameSlug(v, w) == Normalized(v) = Normalized(w) /\ Normalized(v) # <<>>
Reused(raw) == Named(raw) /\ \E w \in Tidy : raw.externalId.words = <<w>>

\* What a requirement is told apart by when no external id can serve.
Says(raw) ==
  IF Named(raw) THEN raw.externalId.words ELSE raw.title.words \o raw.description.words

\* Two sources share a made requirement id only when their external ids begin with
\* the same characters, as many as an id has room for, once case, blanks and
\* punctuation are normalized; or, where there is no external id or nothing of it
\* can stand in an id, when the two say exactly the same words. External ids that
\* can be reused as they are never share one.
RequirementIdsTellApart ==
  \A x, y \in pairs :
    (x.raw.id = Omitted /\ y.raw.id = Omitted /\ Made(x) = Made(y)) =>
      /\ \/ /\ Named(x.raw) /\ Named(y.raw)
            /\ SameSlug(x.raw.externalId.words, y.raw.externalId.words)
         \/ Says(x.raw) = Says(y.raw)
      /\ (Reused(x.raw) /\ Reused(y.raw)) => x.raw.externalId.words = y.raw.externalId.words

\* Criteria share a made id only within requirements of one id and with one
\* description, so coverage of a criterion counts for another only if nobody
\* could tell the two apart; and the same criterion of the same requirement
\* always has the same id.
CriterionIdsTellApart ==
  \A x, y \in pairs :
    \A j \in DOMAIN x.raw.acceptanceCriteria, k \in DOMAIN y.raw.acceptanceCriteria :
      LET c == x.raw.acceptanceCriteria[j]
          d == y.raw.acceptanceCriteria[k]
          same == CriterionIds(x)[j] = CriterionIds(y)[k]
      IN (c.id = Omitted /\ d.id = Omitted) =>
           /\ same => Made(x) = Made(y) /\ c.description.words = d.description.words
           /\ Made(x) = Made(y) /\ c.description = d.description => same

\* normalizeRequirement and buildId: a source that says anything of itself gets the
\* same ids in every run, a normalized requirement is left as it is, and two sources
\* or criteria share a made id only if their texts, or the normalized beginnings of
\* their external ids, do.
IdsIdentify ==
  IdsTypeOK /\ IdsDoNotDrift /\ RequirementIdsTellApart /\ CriterionIdsTellApart

=============================================================================
