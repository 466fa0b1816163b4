-------------------------- MODULE MCRequirementIds --------------------------
(* Sources for RequirementIds that differ in blanks, hyphens, case, in where *)
(* a line stands and in what comes after the cut.                            *)
EXTENDS RequirementIds

CONSTANTS pay, Pay, ship, payship, dots, pays, ships

Words == {pay, Pay, ship, payship, dots}
Parts == {pays, ships, Hyphen}
Slugs == (pay :> <<pays>>) @@ (Pay :> <<pays>>) @@ (ship :> <<ships>>)
         @@ (payship :> <<pays, Hyphen, ships>>) @@ (dots :> <<>>)
TidyWords == {pay, ship, payship}

Plain(words) == [words |-> words, padded |-> FALSE]
Padded(words) == [words |-> words, padded |-> TRUE]

Criterion(id, text) == [id |-> id, description |-> text]
CriteriaLists ==
  {<<Criterion(Omitted, Plain(<<ship>>)), Criterion(Omitted, Padded(<<ship>>))>>,
   <<Criterion(Omitted, Plain(<<ship>>)), Criterion(<<"ac", "given", 1>>, Plain(<<>>)),
     Criterion(Omitted, Plain(<<>>))>>}

Source(id, ext, title, description, criteria) ==
  [id |-> id, externalId |-> ext, title |-> title, description |-> description,
   acceptanceCriteria |-> criteria]

Titles == {Plain(<<>>), Plain(<<pay>>), Padded(<<pay>>), Plain(<<pay, ship>>), Plain(<<dots>>)}
Descriptions == {Padded(<<>>), Plain(<<ship>>), Plain(<<pay>>)}
ExternalIds == {Omitted, Plain(<<>>), Padded(<<>>), Plain(<<pay>>), Padded(<<Pay>>), Plain(<<dots>>),
                Plain(<<ship, dots>>), Plain(<<payship>>), Plain(<<pay, ship>>), Plain(<<pay, ship, pay>>)}
GivenIds == {<<"req", "slug", <<pays>> >>, <<"ac", "given", 1>>}

Raws == {Source(i, e, t, d, c) : i \in {Omitted, <<"req", "slug", <<pays>> >>}, e \in ExternalIds, t \in Titles,
                                 d \in Descriptions, c \in CriteriaLists}
NamedRaws == {raw \in Raws : raw.id = Omitted \/ raw.externalId = Omitted}

=============================================================================
