---------------------------- MODULE MCTenantData ----------------------------
(* TenantData on small instances, one of which is chosen at the start. *)
EXTENDS TenantData, TLC

CONSTANTS north, south, ann, bob, rb1, rb2

MCTitle == (rb1 :> north) @@ (rb2 :> north)

\* bob's address is one as users have; ann's could be found by a mention.
MCEmail == (ann :> <<"ann">>) @@ (bob :> <<"bob", "example.org">>)
MCMentions == Range(MCEmail)

Nothing == [type |-> None, status |-> None, alert |-> None]
MCSent == {Nothing, [type |-> "runbook", status |-> "archived", alert |-> rb1]}

\* Nothing; and two spaces, each with a collection and a document of the same name, filed and not.
Empty ==
  [spaces |-> << >>, collections |-> << >>, documents |-> << >>, templates |-> << >>,
   comments |-> << >>, notices |-> << >>, members |-> {}, next |-> [t \in Numbered |-> 1]]

Doc(s, c, name) ==
  [space |-> s, collection |-> c, slug |-> Slug(name), type |-> "document",
   status |-> "published", alert |-> None]

TwoSpaces ==
  [Empty EXCEPT
    !.spaces = <<[slug |-> Slug(north)], [slug |-> Slug(south)]>>,
    !.collections = <<[space |-> 1, slug |-> Slug(north), parent |-> None],
                      [space |-> 2, slug |-> Slug(north), parent |-> None]>>,
    !.documents = <<Doc(1, None, north), Doc(2, 2, north)>>,
    !.next = [@ EXCEPT !.spaces = 3, !.collections = 3, !.documents = 3]]

\* A space with one document.
OneSpace ==
  [Empty EXCEPT !.spaces = <<[slug |-> Slug(north)]>>, !.documents = <<Doc(1, None, north)>>,
                !.next = [@ EXCEPT !.spaces = 2, !.documents = 2]]

\* The same, the document being what an import has made of rb1.
Imported ==
  [OneSpace EXCEPT !.documents = <<[Doc(1, None, north) EXCEPT !.type = "runbook", !.alert = rb1]>>]

\* OneSpace, where ann has said something and bob has answered.
Thread ==
  [CreateComment(CreateComment(OneSpace, 1, None, ann, {}), 1, 1, bob, {})
    EXCEPT !.notices = <<[user |-> ann, kind |-> "comment_reply", document |-> 1, comment |-> 2,
                          actor |-> bob, read |-> FALSE]>>,
           !.next.notices = 2]

Scenario(tables, list, quotas) ==
  [db |-> tables, runbooks |-> list, quota |-> quotas @@ [k \in Kinds |-> 0]]

MCScenarios == {
  Scenario(TwoSpaces, << >>, [edits |-> 1, reads |-> 2]),
  Scenario(TwoSpaces, << >>, [moves |-> 1, reads |-> 1]),
  Scenario(TwoSpaces, << >>, [moves |-> 2]),
  Scenario(TwoSpaces, << >>, [moves |-> 1, documents |-> 1]),
  Scenario(TwoSpaces, << >>, [edits |-> 2, moves |-> 1]),
  Scenario(TwoSpaces, << >>, [edits |-> 1, moves |-> 1, deletions |-> 1]),
  Scenario(TwoSpaces, << >>, [moves |-> 1, collections |-> 1, deletions |-> 2]),
  Scenario(TwoSpaces, << >>, [searches |-> 1, edits |-> 1]),
  Scenario(Empty, << >>, [spaces |-> 2, collections |-> 1, documents |-> 1, postmortems |-> 1]),
  Scenario(TwoSpaces, << >>, [postmortems |-> 2, deletions |-> 1]),
  Scenario(Empty, << >>, [seeds |-> 2, edits |-> 1]),
  Scenario(Empty, << >>, [seeds |-> 1, templates |-> 1]),
  Scenario(TwoSpaces, << >>, [seeds |-> 1, edits |-> 1]),
  Scenario(TwoSpaces, << >>, [seeds |-> 1, moves |-> 1]),
  Scenario(OneSpace, << >>, [comments |-> 2, deletions |-> 1]),
  Scenario(TwoSpaces, << >>, [comments |-> 2]),
  Scenario(Thread, << >>, [comments |-> 1, moderation |-> 1, deletions |-> 1]),
  Scenario(TwoSpaces, << >>, [comments |-> 1, moderation |-> 2]),
  Scenario(Empty, <<rb1, rb2>>, [imports |-> 2]),
  Scenario(Imported, <<rb1, rb2>>, [imports |-> 1, edits |-> 1]),
  Scenario(Empty, <<rb1>>, [imports |-> 2, edits |-> 1]),
  Scenario(TwoSpaces, <<rb1>>, [imports |-> 1, nightowl |-> 1, reads |-> 1]),
  Scenario(Empty, <<rb1>>, [imports |-> 2, nightowl |-> 1])
}

Symmetry == Permutations(Clients)
=============================================================================
