------------------------------ MODULE MCEngine ------------------------------
(***************************************************************************)
(* Rule sets on which TLC checks Engine.                                   *)
(***************************************************************************)
EXTENDS Engine, TLC

Expect(d) == [kind |-> "expect", dest |-> d]
Goto(d)   == [kind |-> "goto", dest |-> d]
Cond(d)   == [kind |-> "cond", dest |-> d]

Plain(trans)   == [bind |-> FALSE, kills |-> FALSE, cut |-> 0, marks |-> "", trans |-> trans]
Binding(trans) == [Plain(trans) EXCEPT !.bind = TRUE]
Killing(trans) == [Plain(trans) EXCEPT !.kills = TRUE]
Cutting(state, trans)   == [Plain(trans) EXCEPT !.cut = state]
Marking(called, trans)  == [Plain(trans) EXCEPT !.marks = called]
Final          == Plain(<< >>)

\* A synchronized chain that binds its key in the first event it matches and
\* may bind another one in the second.
ChainRules ==
  {<< [sync |-> TRUE, state |-> << Plain(<<Expect(2)>>), Binding(<<Expect(3)>>),
                                  Binding(<<Expect(4)>>), Final >>] >>}

\* The initial state already binds the key, so that the lock of an older
\* instance prunes a new one before it has a thread; the second rule starts
\* with a condition that reads no field; the third has nothing to wait for.
InitialRules ==
  << [sync |-> TRUE, state |-> << Binding(<<Expect(2)>>), Plain(<<Expect(3)>>), Final >>],
     [sync |-> FALSE, state |-> << Plain(<<Cond(2)>>), Binding(<<Expect(3)>>), Final >>],
     [sync |-> FALSE, state |-> << Final >>] >>

\* e-transitions, several threads in one state and a state that kills the
\* threads of its instance.
BranchRules ==
  << [sync |-> TRUE,
      state |-> << Plain(<<Expect(2)>>),
                   Binding(<<Cond(3), Expect(4)>>),
                   Plain(<<Expect(4), Goto(4)>>),
                   Killing(<<Expect(5)>>),
                   Final >>] >>

\* Two threads of one instance, one of which leads to a terminal state.
ForkRules ==
  {<< [sync |-> FALSE, state |-> << Plain(<<Expect(2)>>), Plain(<<Expect(3), Expect(4)>>),
                                   Plain(<<Expect(4)>>), Final >>] >>}

\* A state that cuts itself, and with it its elder siblings, and one below that
\* cuts the state above.
CutRules ==
  << [sync |-> FALSE,
      state |-> << Plain(<<Expect(2)>>), Plain(<<Expect(3), Expect(4)>>), Plain(<<Expect(6)>>),
                   Cutting(4, <<Expect(5)>>), Final, Cutting(2, <<Expect(5)>>) >>] >>

CutRuleSets == {CutRules}

\* Two paths share a mark, which one moves and from which the other one cuts.
MarkRules ==
  << [sync |-> FALSE,
      state |-> << Plain(<<Expect(2)>>), Marking("mark", <<Expect(3), Expect(4)>>),
                   Marking("mark_update", <<Expect(5)>>), Marking("mark_cut", <<Expect(5)>>),
                   Final >>] >>

\* One event may start an instance twice, by either initial thread.
TwiceRules ==
  << [sync |-> FALSE,
      state |-> << Plain(<<Expect(2), Expect(3)>>), Binding(<<Expect(4)>>),
                   Plain(<<Expect(4)>>), Final >>] >>

\* The larger rule sets.
ManyRules == {InitialRules, BranchRules, CutRules, MarkRules, TwiceRules}

\* None of these rules ends before it waits, so that what is proved of such
\* rules applies to all runs.
ASSUME QuietAssumption == QuietRules

KeySymmetry == Permutations(Keys)
=============================================================================
