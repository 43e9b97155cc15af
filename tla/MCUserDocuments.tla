-------------------------- MODULE MCUserDocuments ---------------------------
(***************************************************************************)
(* Small instances of UserDocuments.                                       *)
(***************************************************************************)
EXTENDS UserDocuments, TLC

CONSTANTS u1, u2, u3, f1

Ask(kind, who) == [kind |-> kind, who |-> who, email |-> None, flair |-> None,
                   aliases |-> None, pings |-> None]

Update(kind) == Ask(kind, <<u1, None>>)

(* Two sessions and two preferences with a player in common, estimates,    *)
(* names and lists of that player, who creates an account under an email   *)
(* of either kind, and titles.                                             *)
MCRequests == {
  Ask("rps", <<u1, u2>>), Ask("rps", <<u3, u1>>), Ask("side", <<u1, u2>>), Ask("side", <<u2, u1>>),
  Ask("side", <<u1, u3>>), Ask("ping", <<u1, u2>>), Update("name"),
  [Update("name") EXCEPT !.aliases = {}], [Update("lists") EXCEPT !.aliases = {}, !.pings = {}],
  [Update("flair") EXCEPT !.flair = f1], [Update("account") EXCEPT !.email = u1],
  [Update("account") EXCEPT !.email = u2], [Ask("title", <<u3, None>>) EXCEPT !.flair = f1]}

MCAccounts == {{u1, u2, u3}, {u2, u3}}

Symmetry == Permutations(Calls)
=============================================================================
