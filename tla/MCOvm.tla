------------------------------- MODULE MCOvm -------------------------------
(* Small rules for the compiler and the virtual machine: every operator of  *)
(* the language, nested conditions, splits, absent fields and calls.        *)
EXTENDS Ovm

a == <<97>>
ab == <<97, 98>>
cd == <<99, 100>>

MCVars == {0, 1}
Two == Const(5)
Zero == Const(6)
MCLiterals ==
    <<ovm_int(2), ovm_int(0), ovm_str(ab), ovm_str(cd),
      [type |-> "regex", val |-> {ab, cd}],
      [type |-> "sregex", val |-> (ab :> <<a, cd>>)],
      ovm_ctime(3), ovm_timeval(2, 1), ovm_counter(3), ovm_uint(4)>>
Ab == Const(7)
Cd == Const(8)
Regex == Const(9)
SRegex == 10
X == Variable(0)
Y == Variable(1)
F == Field(0)
G == Field(1)

MCEvents == {<<ovm_int(3), NoVar>>, <<NoVar, ovm_str(ab)>>,
             <<ovm_int(-2), ovm_vstr(cd)>>}

MCPrograms ==
  { <<Assoc(0, BinOp("add", Two, Two)),
      IfStmt(Cond("clt", X, BinOp("mul", Two, Two)),
             <<Assoc(1, Call("str_from_int", <<X>>))>>,
             <<Assoc(1, BinOp("sub", X, Two)), Assoc(0, Const(TrueRes))>>)>>,
    <<Assoc(0, G), RegSplit(0, SRegex, <<1, 0>>)>>,
    <<Assoc(0, G), RegSplit(0, SRegex, <<1>>)>>,
    <<Assoc(1, BinOp("mod", BinOp("div", F, Two), Zero)), Call("print", <<Y>>)>>,
    <<Assoc(0, Cond("oror", Cond("andand", Cond("crm", G, Regex),
                                           Cond("cneq", Ab, G)),
                            Cond("cge", F, Two))),
      Assoc(1, BinOp("add", Ab, BinOp("add", Cd, Ab)))>>,
    <<IfStmt(BinOp("add", X, Two), <<Assoc(0, BinOp("add", X, Two)),
                    IfStmt(Call("defined", <<G>>), <<Assoc(1, Ab)>>, <<>>)>>, <<>>),
      Call("random", <<>>)>>,
    <<Cond("andand", Call("noop", <<>>), Two), Assoc(0, Two)>>,
    <<Assoc(1, Call("int_from_str", <<Y>>)),
      Assoc(0, Call("bytedist", <<Ab, Cd>>)), Call("system", <<Ab>>)>>,
    <<Assoc(0, BinOp("sub", BinOp("add", Const(11), Two), Const(11))),
      Call("set_event_level", <<Two>>), Call("drop_event", <<>>),
      IfStmt(Cond("clt", Const(12), BinOp("sub", Const(12), Const(11))),
             <<Call("str_from_time", <<Const(11)>>)>>, <<Call("print_event", <<>>)>>),
      Assoc(1, Call("bitdist", <<Ab, Cd>>))>>,
    <<Call("sendmail", <<Ab, Cd, Ab, Ab>>), Call("sendmail_report", <<Ab, Cd, Ab, Ab>>),
      Call("str_from_ipv4", <<Ab>>), Call("dump_stack", <<>>), Call("show_stats", <<>>),
      Assoc(1, BinOp("mul", Const(13), Two)), Assoc(0, BinOp("div", Const(14), Const(14))),
      Call("vstr_from_regex", <<Regex>>), Call("str_from_int", <<Y>>)>>,
    <<Assoc(0, Call("regex_from_str", <<Ab>>)),
      Assoc(1, Call("str_from_regex", <<Regex>>)),
      Call("difftime", <<Two, Zero>>), Call("noop", <<>>)>> }

\* Conditions of depth three over three atoms.
Atoms == {Cond("cgt", F, X), Cond("crm", G, Regex), X}
Logic(P, Q) == {Cond(op, p, q) : op \in {"andand", "oror"}, p \in P, q \in Q}
MCConditions ==
    Logic(Atoms, Atoms) \cup Logic(Logic(Atoms, Atoms), Atoms)
    \cup { Cond("oror", Cond("ceq", X, Two), Cond("cgt", BinOp("add", F, F), X)),
           Cond("andand", Cond("cle", F, Two), Cond("cnrm", G, Regex)),
           Cond("andand", X, Cond("oror", Cond("ceq", Y, Y), Y)),
           Cond("andand", Call("defined", <<F>>), Cond("cgt", BinOp("add", F, F), Two)),
           Cond("ceq", BinOp("add", G, G), Cd),
           BinOp("sub", Y, Two) }

\* The value of one variable assigned to another.
CopyPrograms == {<<Assoc(0, BinOp("add", Two, Two)), Assoc(1, X)>>}
CopyConditions == {}

\* An operation on a field that some events lack.
AbsentPrograms == {<<Assoc(0, Two)>>}
AbsentConditions == {Cond("cgt", BinOp("add", F, F), X)}
===========================================================================
