----------------------------- MODULE SummaryDraft -----------------------------
(***************************************************************************)
(* The contract of a summary draft (summary_contract.py), which the        *)
(* steward applies to a model's answer before it publishes it, and the     *)
(* service to whatever it is sent.                                         *)
(*                                                                         *)
(* Of a draft only its structure is kept: which items its sections have,   *)
(* which messages each item and each proposal cites, and the titles it     *)
(* proposes.  Text and its length limits are left out.                     *)
(***************************************************************************)
EXTENDS Naturals, Sequences, Functions

CONSTANTS
    Kinds,     \* SECTION_KINDS, a sequence
    TitleKey   \* per title of a task: what titles are compared by

Titles == DOMAIN TitleKey

\* _task_title_comparison_key() of a set of titles: compatibility forms, runs of
\* blanks and case do not tell two titles apart.
Keys(titles) == {TitleKey[t] : t \in titles}

\* The answer of the model has a list of items for every kind; the draft has a
\* section for every kind that has items.
Canonical(answer) ==
    [sections |-> SelectSeq([n \in 1..Len(Kinds) |->
                                [kind |-> Kinds[n], items |-> answer.sections[Kinds[n]]]],
                            LAMBDA section : section.items # <<>>),
     proposals |-> answer.proposals]

\* _normalize_source_ids()
ValidSources(sources, allowed) ==
    /\ sources # <<>>
    /\ IsInjective(sources)
    /\ Range(sources) \subseteq allowed

\* validate_summary_draft()
ValidDraft(draft, allowed) ==
    /\ draft.sections # <<>>
    /\ IsInjective([n \in DOMAIN draft.sections |-> draft.sections[n].kind])
    /\ \A section \in Range(draft.sections) :
          /\ section.items # <<>>
          /\ \A sources \in Range(section.items) : ValidSources(sources, allowed)
    /\ IsInjective([n \in DOMAIN draft.proposals |-> TitleKey[draft.proposals[n].title]])
    /\ \A proposal \in Range(draft.proposals) : ValidSources(proposal.sources, allowed)

\* validate_task_proposals_are_new()
ProposalsAreNew(draft, titles) ==
    \A proposal \in Range(draft.proposals) : TitleKey[proposal.title] \notin Keys(titles)

\* The claim paths of summary_draft_source_rows(), each with what is cited there.
SourcesAt(draft) ==
    LET items     == UNION {{<<"sections", n, i>> : i \in DOMAIN draft.sections[n].items} :
                               n \in DOMAIN draft.sections}
        proposals == {<<"task_proposals", p>> : p \in DOMAIN draft.proposals}
    IN [path \in items \cup proposals |->
           IF path[1] = "sections" THEN draft.sections[path[2]].items[path[3]]
                                   ELSE draft.proposals[path[2]].sources]

Cited(draft) == UNION {Range(sources) : sources \in Range(SourcesAt(draft))}

\* PRIMARY KEY (revision_id, claim_path, message_id)
RowsAreDistinct(draft) == \A sources \in Range(SourcesAt(draft)) : IsInjective(sources)
=============================================================================
