--------------------------- MODULE RuleCompiler ---------------------------
(* The byte code generator of the rule compiler (rule_compiler.c).          *)
(*                                                                          *)
(* An abstract syntax tree, as the grammar issdl.y builds it, is a record   *)
(* whose field "node" is the type of the node.  The buffer of the generator *)
(* holds the words written so far, the positions of the labels, the words   *)
(* that hold the number of a label until compile_set_labels(), and the      *)
(* fields that the code pushes.  A word is a record: an opcode, or an       *)
(* operand (op = "arg").  Positions count from 0, as in the code.           *)
EXTENDS Values

RECURSIVE CompileExpr(_, _), CompileStmt(_, _), CompileActions(_, _),
          CompileArgs(_, _)

\* build_integer() ..., build_varname(), build_fieldname(),
\* build_expr_binop(), build_expr_cond(), build_assoc(),
\* build_function_call(), build_expr_ifstmt() and build_string_split().
Const(res)       == [node |-> "const", res |-> res]
Variable(x)      == [node |-> "variable", res |-> x]
Field(f)         == [node |-> "field", res |-> f]
BinOp(op, l, r)  == [node |-> "binop", op |-> op, lval |-> l, rval |-> r]
Cond(op, l, r)   == [node |-> "cond", op |-> op, lval |-> l, rval |-> r]
Assoc(x, e)      == [node |-> "assoc", res |-> x, rval |-> e]
Call(f, args)    == [node |-> "call", res |-> f, params |-> args]
IfStmt(c, t, e)  == [node |-> "ifstmt", cond |-> c, then |-> t, els |-> e]
RegSplit(x, pat, xs) ==
    [node |-> "regsplit", res |-> x, pat |-> pat, dest |-> xs]

Comparisons == {"ceq", "cneq", "crm", "cnrm", "cgt", "clt", "cge", "cle"}

\* The values every rule has in its static environment, and their places.
TrueRes  == 0
FalseRes == 1
NullRes  == 2
ParamErrorRes == 3
BaseStatics == <<ovm_int(1), ovm_int(0), ovm_null(1), ovm_null(2), ovm_null(3)>>
---------------------------------------------------------------------------
(* The buffer.  INIT_LABELS() reserves label 0.                             *)

NewBuffer == [code |-> <<>>, labels |-> <<>>, labels_nb |-> 1,
              toset |-> <<>>, used_fields |-> <<>>]

Pos(b) == Len(b.code)
Emit(b, op) == [b EXCEPT !.code = Append(@, [op |-> op, arg |-> 0])]
EmitArg(b, op, n) ==
    [b EXCEPT !.code = @ \o <<[op |-> op, arg |-> 0], [op |-> "arg", arg |-> n]>>]

NewLabels(b, n) == [b EXCEPT !.labels_nb = @ + n]

\* PUT_LABEL() after a jump: the operand is the label's number for now.
EmitJump(b, op, label) ==
    [EmitArg(b, op, label) EXCEPT !.toset = Append(@, Pos(b) + 1)]

SetLabel(b, label) ==
    [b EXCEPT !.labels = [l \in DOMAIN b.labels \cup {label} |->
                          IF l = label THEN Pos(b) ELSE b.labels[l]]]

\* The mutant counts from the operand.
compile_set_labels_from_operand(b) ==
    [i \in DOMAIN b.code |->
       IF \E j \in DOMAIN b.toset : b.toset[j] = i - 1
       THEN [op |-> "arg", arg |-> b.labels[b.code[i].arg] - (i - 1)]
       ELSE b.code[i]]

\* compile_set_labels(): an offset from the word after the operand.
compile_set_labels(b) ==
    LET toset == {b.toset[i] : i \in DOMAIN b.toset}
    IN  [i \in DOMAIN b.code |->
           IF i - 1 \in toset
           THEN [op |-> "arg", arg |-> b.labels[b.code[i].arg] - (i - 1) - 1]
           ELSE b.code[i]]
---------------------------------------------------------------------------
(* Expressions.                                                             *)

\* compile_bytecode_cond(): the value decides between two labels.  A
\* comparison is compiled in place; everything else, && and || included,
\* as an expression.
CompileCond(e, b, lthen, lelse) ==
    LET v == IF e.node = "cond" /\ e.op \in Comparisons
             THEN Emit(CompileExpr(e.rval, CompileExpr(e.lval, b)), e.op)
             ELSE CompileExpr(e, b)
    IN  EmitJump(EmitJump(v, "popcjmp", lthen), "jmp", lelse)

\* The end of a NODE_COND: push 1 at label_then and 0 at label_else.
PushTruth(b, lthen, lelse, lend) ==
    LET t == EmitJump(EmitArg(SetLabel(b, lthen), "pushstatic", TrueRes),
                      "jmp", lend)
    IN  SetLabel(EmitArg(SetLabel(t, lelse), "pushstatic", FalseRes), lend)

\* The mutant evaluates the right operand of && and || in any case.
CompileTruthBoth(e, b0) ==
    LET i == b0.labels_nb
        b == NewLabels(b0, 4)
        left == CompileCond(e.lval, b, i, i)
        code == IF e.op \in Comparisons THEN CompileCond(e, b, i + 1, i + 2)
                ELSE CompileCond(e.rval, SetLabel(left, i), i + 1, i + 2)
    IN  PushTruth(code, i + 1, i + 2, i + 3)

\* NODE_COND of compile_bytecode_expr().
CompileTruth(e, b0) ==
    LET i     == b0.labels_nb
        lthen == i + 1
        lelse == i + 2
        lend  == i + 3
        b     == NewLabels(b0, 4)
        left  == IF e.op = "andand" THEN CompileCond(e.lval, b, i, lelse)
                                    ELSE CompileCond(e.lval, b, lthen, i)
        code  == IF e.op \in Comparisons
                 THEN CompileCond(e, b, lthen, lelse)
                 ELSE CompileCond(e.rval, SetLabel(left, i), lthen, lelse)
    IN  PushTruth(code, lthen, lelse, lend)

\* The parameters of a call, the last one first.
CompileArgs(args, b) ==
    IF args = <<>> THEN b
    ELSE CompileArgs(SubSeq(args, 1, Len(args) - 1),
                     CompileExpr(args[Len(args)], b))

\* compile_bytecode_expr(): code that leaves one value on the stack.
CompileExpr(e, b) ==
    CASE e.node = "assoc"    -> EmitArg(EmitArg(CompileExpr(e.rval, b),
                                                "pop", e.res), "push", e.res)
      [] e.node = "binop"    -> Emit(CompileExpr(e.rval, CompileExpr(e.lval, b)),
                                     e.op)
      [] e.node = "cond"     -> CompileTruth(e, b)
      [] e.node = "field"    -> [EmitArg(b, "pushfield", e.res)
                                 EXCEPT !.used_fields = Append(@, e.res)]
      [] e.node = "variable" -> EmitArg(b, "push", e.res)
      [] e.node = "const"    -> EmitArg(b, "pushstatic", e.res)
      [] e.node = "call"     -> EmitArg(CompileArgs(e.params, b), "call", e.res)
---------------------------------------------------------------------------
(* Statements.                                                              *)

CompilePops(xs, b) ==
    [b EXCEPT !.code = @ \o [i \in 1 .. 2 * Len(xs) |->
        IF i % 2 = 1 THEN [op |-> "pop", arg |-> 0]
                     ELSE [op |-> "arg", arg |-> xs[i \div 2]]]]

CompileIf(s, b0) ==
    LET lthen == b0.labels_nb
        lelse == lthen + 1
        lend  == lthen + 2
        c     == CompileCond(s.cond, NewLabels(b0, 3), lthen, lelse)
        t     == EmitJump(CompileActions(s.then, SetLabel(c, lthen)), "jmp", lend)
    IN  SetLabel(CompileActions(s.els, SetLabel(t, lelse)), lend)

\* compile_bytecode_stmt(): the operands of an operator are compiled as
\* statements too, which trash their values before the operator pops them.
CompileStmt(s, b) ==
    CASE s.node = "assoc"    -> EmitArg(CompileExpr(s.rval, b), "pop", s.res)
      [] s.node \in {"binop", "cond"} ->
           Emit(CompileStmt(s.rval, CompileStmt(s.lval, b)), s.op)
      [] s.node = "regsplit" ->
           CompilePops(s.dest,
             Emit(EmitArg(CompileExpr(Variable(s.res), b), "pushstatic", s.pat),
                  "regsplit"))
      [] s.node = "ifstmt"   -> CompileIf(s, b)
      [] OTHER               -> Emit(CompileExpr(s, b), "trash")

CompileActions(stmts, b) ==
    IF stmts = <<>> THEN b
    ELSE CompileActions(Tail(stmts), CompileStmt(Head(stmts), b))

\* compile_actions_ast() and compile_trans_bytecode().
compile_actions_ast(stmts) ==
    compile_set_labels(Emit(CompileActions(stmts, NewBuffer), "end"))
compile_trans_bytecode(cond) ==
    compile_set_labels(Emit(CompileExpr(cond, NewBuffer), "end"))

required_fields(cond) == CompileExpr(cond, NewBuffer).used_fields
===========================================================================
