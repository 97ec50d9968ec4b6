------------------------------ MODULE Inference ------------------------------
(***************************************************************************)
(* Certificates for the code of the lowering, found by following the code. *)
(* Nothing depends on how: whether one is right is for Certifies to say.   *)
(***************************************************************************)
EXTENDS Ownership, FiniteSetsExt, SequencesExt

\* What holds either way.
Meet(j, k) ==
  LET agree == {l \in DOMAIN j.root : j.root[l] = k.root[l]}
      kept  == {l \in agree : Rooted(j, l) /\ j.root[l] \in agree}
  IN [root  |-> [l \in DOMAIN j.root |-> IF l \in kept THEN j.root[l] ELSE Nobody],
      unit  |-> j.unit \cap k.unit, empty |-> j.empty \cap k.empty,
      some  |-> j.some \cap k.some, none  |-> j.none \cap k.none]

MeetAll(ks) == FoldSet(Meet, CHOOSE k \in ks : TRUE, ks)

\* A binding and the return slot own what they are given; a temporary borrows
\* what a binding owns.
Guess(f, i, owns, borrows) ==
  LET borrowed == i.dest \notin f.owned \cup {0}
                  /\ (i.args[1].part \/ i.args[1].local \in f.owned)
  IN IF owns = {} \/ (borrows # {} /\ borrowed) THEN CHOOSE k \in borrows : TRUE
     ELSE CHOOSE k \in owns : TRUE

\* What is known so far, with after the next statement; a statement that cannot
\* be followed is left out.
Extended(f, i, ks, after) ==
  IF after = {} THEN ks
  ELSE Append(ks, Guess(f, i, {k \in after : IsRoot(k, i.dest)},
                              {k \in after : ~IsRoot(k, i.dest)}))

\* Before each statement of block b and before its terminator.
Through(f, b, k) ==
  FoldLeft(LAMBDA ks, i : Extended(f, i, ks, AfterStmt(Last(ks), i)), <<k>>, f.blocks[b].stmts)

\* Where a terminator leads, with what is known there.
Outs(k, term) ==
  {<<term.to[n], AfterTerm(k, term, n)>> : n \in {n \in DOMAIN term.to : Leads(k, term, n)}}

\* starts: what is known where the blocks reached so far start.
Joined(starts, outs) ==
  [t \in DOMAIN starts \cup {o[1] : o \in outs} |->
     MeetAll({o[2] : o \in {o \in outs : o[1] = t}} \cup {starts[b] : b \in DOMAIN starts \cap {t}})]
Changed(starts, now) == {t \in DOMAIN now : t \notin DOMAIN starts \/ now[t] # starts[t]}

\* todo: the blocks to follow from there.
RECURSIVE Follow(_, _, _)
FollowOn(f, starts, todo, now) == Follow(f, now, todo \cup Changed(starts, now))
Follow(f, starts, todo) ==
  IF todo = {} THEN starts
  ELSE LET b == CHOOSE b \in todo : TRUE
       IN FollowOn(f, starts, todo \ {b},
                   Joined(starts, Outs(Last(Through(f, b, starts[b])), f.blocks[b].term)))

Certificate(f) ==
  LET starts == Follow(f, 1 :> AtStart(f), {1})
  IN [b \in DOMAIN starts |-> Through(f, b, starts[b])]

\* The code the lowering makes of the programs of the run has a certificate: what
\* the scopes and the one flat set of FnLower decide is right on every path.
Certified == blk = 1 /\ idx = 1 => Certifies(Certificate(fn), fn)
=============================================================================
