--------------------------- MODULE SemanticCheck ---------------------------
(***************************************************************************)
(* The LNAST semantic validator, Semantic_pass of                          *)
(* src/pass/semantic/semantic_check.cpp.  semantic_check() walks the       *)
(* statements under top -> stmts and dispatches each one to the check of   *)
(* its node type; the checks recurse into the bodies of control nodes.     *)
(* The pass keeps three lists across the walk: temp_list (temporaries      *)
(* already written), not_read_list (names written and not read since) and  *)
(* have_read_list (names read after a write).                              *)
(*                                                                         *)
(* A node is a record [t, n, ch]: its type, its name and its children.     *)
(* Pass::error is fatal: the first error ends the pass (spec 4.6 and 7),   *)
(* so every check leaves the state alone once err is set, and the final    *)
(* "were written but never read" warning is printed only by a pass that    *)
(* reaches the end.  One step of the model is one iteration of the loop    *)
(* over the top statements, with every check it calls.                     *)
(***************************************************************************)
EXTENDS Integers, Sequences, SequencesExt, FiniteSets

CONSTANTS
  Progs,      \* the top-level statement sequences the pass is run on
  TempNames,  \* names for which is_temp_var holds: the "___" prefix
  OutNames    \* names starting with '%', never put in not_read_list

VARIABLES
  prog,            \* the statements under top -> stmts
  pc,              \* index of the next top statement
  temp_list,
  not_read_list,
  have_read_list,
  err,             \* the error Pass::error raised, or NoErr
  warning          \* the names the final warning lists; <<>> if none

vars == <<prog, pc, temp_list, not_read_list, have_read_list, err, warning>>

NoErr == [rule |-> "none", name |-> ""]

\* Lnast_ntype groups used by the dispatch.
UnaryOps == {"assign", "dp_assign", "not", "logical_not", "as"}
NaryOps  == {"dot", "logical_and", "logical_or", "plus", "eq", "select",
             "bit_select", "tuple_concat"}
\* is_primitive_op
PrimitiveOps == UnaryOps \cup NaryOps \cup {"tuple"}
\* is_tree_structs
TreeStructs == {"stmts", "cstmts", "if", "cond", "uif", "elif", "for",
                "while", "func_call", "func_def"}

\* The lists and the error, threaded through the recursive checks.
State == [tl |-> temp_list, nr |-> not_read_list, hr |-> have_read_list,
          err |-> err]

Ok(S) == S.err = NoErr

\* Pass::error: raises the first error; later ones are never reached.
Fail(S, rule, name) ==
  IF Ok(S) THEN [S EXCEPT !.err = [rule |-> rule, name |-> name]] ELSE S

InList(l, n) == \E i \in 1..Len(l) : l[i] = n

\* check_for_temp_var
CheckForTempVar(S, n) ==
  IF ~Ok(S) \/ n \notin TempNames THEN S
  ELSE IF InList(S.tl, n) THEN Fail(S, "temp", n)
  ELSE [S EXCEPT !.tl = Append(@, n)]

\* Mutant of CheckForNotRead: a write re-adds a name already read.
CheckForNotReadNoHaveRead(S, n) ==
  IF ~Ok(S) THEN S
  ELSE IF InList(S.nr, n)
       THEN [S EXCEPT !.nr = SelectSeq(@, LAMBDA x : x # n),
                      !.hr = @ \o SelectSeq(S.nr, LAMBDA x : x = n)]
  ELSE IF n \notin OutNames THEN [S EXCEPT !.nr = Append(@, n)]
  ELSE S

\* Mutant of CheckForNotRead: the '%' test is dropped.
CheckForNotReadNoOutTest(S, n) ==
  IF ~Ok(S) THEN S
  ELSE IF InList(S.nr, n)
       THEN [S EXCEPT !.nr = SelectSeq(@, LAMBDA x : x # n),
                      !.hr = @ \o SelectSeq(S.nr, LAMBDA x : x = n)]
  ELSE IF ~InList(S.hr, n) THEN [S EXCEPT !.nr = Append(@, n)]
  ELSE S

\* check_for_not_read: a name in not_read_list is erased from it and moved
\* to have_read_list, once per occurrence the erase loop meets; any other
\* name not read before and not '%'-prefixed is appended to not_read_list.
CheckForNotRead(S, n) ==
  IF ~Ok(S) THEN S
  ELSE IF InList(S.nr, n)
       THEN [S EXCEPT !.nr = SelectSeq(@, LAMBDA x : x # n),
                      !.hr = @ \o SelectSeq(S.nr, LAMBDA x : x = n)]
  ELSE IF ~InList(S.hr, n) /\ n \notin OutNames
       THEN [S EXCEPT !.nr = Append(@, n)]
  ELSE S

\* A name in a written position: "if (!in_not_read_list(n))
\* check_for_not_read(n)".
Written(S, n) == IF InList(S.nr, n) THEN S ELSE CheckForNotRead(S, n)

\* A name in a read position: "if (in_not_read_list(n))
\* check_for_not_read(n)".
Read(S, n) == IF InList(S.nr, n) THEN CheckForNotRead(S, n) ELSE S

\* Unary operations: lhs ref, rhs ref or const.
CheckUnary(S, node) ==
  LET lhs == node.ch[1]
      rhs == node.ch[2]
      S1  == IF lhs.t # "ref" THEN Fail(S, "unary_lhs", "") ELSE S
      S2  == IF rhs.t \notin {"ref", "const"}
             THEN Fail(S1, "unary_rhs", "") ELSE S1
  IN  Read(Written(CheckForTempVar(S2, lhs.n), lhs.n), rhs.n)

\* The later children of an n-ary operation: ref or const, read.
NaryRest(S, c) ==
  Read(IF c.t \notin {"ref", "const"} THEN Fail(S, "nary_rhs", "") ELSE S,
       c.n)

\* Mutant of NaryFirst: check_for_temp_var is not called on the result.
NaryFirstNoTempCheck(S, c) ==
  Written(IF c.t # "ref" THEN Fail(S, "nary_lhs", "") ELSE S, c.n)

\* Mutant of NaryFirst: without the "continue" the result is also read.
NaryFirstNoContinue(S, c) ==
  NaryRest(Written(CheckForTempVar(
             IF c.t # "ref" THEN Fail(S, "nary_lhs", "") ELSE S, c.n), c.n),
           c)

\* The first child of an n-ary operation: the written result.
NaryFirst(S, c) ==
  Written(CheckForTempVar(
            IF c.t # "ref" THEN Fail(S, "nary_lhs", "") ELSE S, c.n), c.n)

CheckNary(S, node) ==
  FoldLeft(NaryRest, NaryFirst(S, node.ch[1]), Tail(node.ch))

RECURSIVE CheckPrimitiveOps(_, _), CheckIfOp(_, _), CheckBody(_, _)

\* Tuple: its ref children are written and counted, its assign children
\* checked as primitive operations and counted; exactly one ref and two
\* assigns are accepted.
CheckTuple(S, node) ==
  LET step(a, c) ==
        CASE c.t = "ref" ->
               [a EXCEPT !.s = Written(CheckForTempVar(@, c.n), c.n),
                         !.refs = @ + 1]
          [] c.t = "assign" ->
               [a EXCEPT !.s = CheckPrimitiveOps(@, c), !.asg = @ + 1]
          [] OTHER -> a
      r == FoldLeft(step, [s |-> S, refs |-> 0, asg |-> 0], node.ch)
  IN  IF r.refs # 1 THEN Fail(r.s, "tuple_ref", "")
      ELSE IF r.asg # 2 THEN Fail(r.s, "tuple_assign", "")
      ELSE r.s

\* check_primitive_ops
CheckPrimitiveOps(S, node) ==
  IF ~Ok(S) THEN S
  ELSE IF Len(node.ch) = 1 THEN Fail(S, "prim_arity", "")
  ELSE CASE node.t \in UnaryOps -> CheckUnary(S, node)
         [] node.t \in NaryOps  -> CheckNary(S, node)
         [] node.t = "tuple"    -> CheckTuple(S, node)
         [] OTHER               -> Fail(S, "prim_type", "")

\* The loop over the statements of a stmts or cstmts child, shared by the
\* checks of if, for, while and func_def: every nested tree structure is
\* checked by check_if_op.
CheckBody(S, blk) ==
  FoldLeft(LAMBDA T, c :
             IF c.t \in PrimitiveOps THEN CheckPrimitiveOps(T, c)
             ELSE IF c.t \in TreeStructs THEN CheckIfOp(T, c)
             ELSE T,
           S, blk.ch)

\* A cond child with a single child of one of the given types; the if
\* check reads that name, the while and func_def checks do not.
CheckCond(S, c, kind, types, reads) ==
  IF Len(c.ch) = 1
  THEN LET S1 == IF c.ch[1].t \notin types
                 THEN Fail(S, kind \o "_cond_type", "") ELSE S
       IN  IF reads THEN Read(S1, c.ch[1].n) ELSE S1
  ELSE Fail(S, kind \o "_cond_missing", "")

\* check_if_op: cstmts and stmts bodies, one cond; then the missing parts
\* are reported in the order cstmts, cond, stmts.
CheckIfOp(S, node) ==
  LET step(a, c) ==
        CASE c.t \in {"cstmts", "stmts"} ->
               [a EXCEPT !.s = CheckBody(@, c),
                         !.cst = @ \/ c.t = "cstmts",
                         !.st = @ \/ c.t = "stmts"]
          [] c.t = "cond" ->
               [a EXCEPT !.s = CheckCond(@, c, "if", {"ref"}, TRUE),
                         !.cond = @ \/ Len(c.ch) = 1]
          [] OTHER -> [a EXCEPT !.s = Fail(@, "if_type", "")]
      r == FoldLeft(step, [s |-> S, cst |-> FALSE, cond |-> FALSE,
                           st |-> FALSE], node.ch)
  IN  IF ~r.cst THEN Fail(r.s, "if_cstmts", "")
      ELSE IF ~r.cond THEN Fail(r.s, "if_cond_missing", "")
      ELSE IF ~r.st THEN Fail(r.s, "if_stmts", "")
      ELSE r.s

\* check_for_op: at least two refs, read, and a stmts body.
CheckForOp(S, node) ==
  LET step(a, c) ==
        CASE c.t = "stmts" -> [a EXCEPT !.s = CheckBody(@, c), !.st = TRUE]
          [] c.t = "ref" -> [a EXCEPT !.s = Read(@, c.n), !.refs = @ + 1]
          [] OTHER -> [a EXCEPT !.s = Fail(@, "for_type", "")]
      r == FoldLeft(step, [s |-> S, refs |-> 0, st |-> FALSE], node.ch)
  IN  IF r.refs < 2 THEN Fail(r.s, "for_refs", "")
      ELSE IF ~r.st THEN Fail(r.s, "for_stmts", "")
      ELSE r.s

\* check_while_op: a cond (its name is not read) and a stmts body.
CheckWhileOp(S, node) ==
  LET step(a, c) ==
        CASE c.t = "cond" ->
               [a EXCEPT !.s = CheckCond(@, c, "while", {"ref"}, FALSE),
                         !.cond = TRUE]
          [] c.t = "stmts" -> [a EXCEPT !.s = CheckBody(@, c), !.st = TRUE]
          [] OTHER -> [a EXCEPT !.s = Fail(@, "while_type", "")]
      r == FoldLeft(step, [s |-> S, cond |-> FALSE, st |-> FALSE], node.ch)
  IN  IF ~r.cond THEN Fail(r.s, "while_cond_missing", "")
      ELSE IF ~r.st THEN Fail(r.s, "while_stmts", "")
      ELSE r.s

\* check_func_def: the first child, whatever its type, is counted as a ref
\* and written; then, in the same iteration, each child is handled by its
\* type, so a first child that is a ref is counted twice.
CheckFuncDef(S, node) ==
  LET first(a, c) ==
        [a EXCEPT !.s = Written(@, c.n), !.refs = @ + 1]
      step(a, c) ==
        CASE c.t \in {"cstmts", "stmts"} ->
               [a EXCEPT !.s = CheckBody(@, c), !.st = @ \/ c.t = "stmts"]
          [] c.t = "cond" ->
               [a EXCEPT !.s = CheckCond(@, c, "fdef", {"ref", "const"},
                                         FALSE),
                         !.cond = @ \/ Len(c.ch) = 1]
          [] c.t = "ref" -> [a EXCEPT !.refs = @ + 1]
          [] OTHER -> [a EXCEPT !.s = Fail(@, "fdef_type", "")]
      r == FoldLeft(step,
                    first([s |-> S, refs |-> 0, cond |-> FALSE, st |-> FALSE],
                          node.ch[1]),
                    node.ch)
  IN  IF r.refs < 1 THEN Fail(r.s, "fdef_refs", "")
      ELSE IF ~r.cond THEN Fail(r.s, "fdef_cond_missing", "")
      ELSE IF ~r.st THEN Fail(r.s, "fdef_stmts", "")
      ELSE r.s

\* check_func_call: exactly three children, all refs, all read.
CheckFuncCall(S, node) ==
  LET step(a, c) ==
        IF c.t = "ref" THEN [a EXCEPT !.s = Read(@, c.n), !.refs = @ + 1]
        ELSE [a EXCEPT !.s = Fail(@, "fcall_type", "")]
      r == FoldLeft(step, [s |-> S, refs |-> 0], node.ch)
  IN  IF r.refs # 3 THEN Fail(r.s, "fcall_refs", "") ELSE r.s

\* The dispatch of one top statement in semantic_check; a statement of
\* any other type is skipped.
CheckStmt(S, node) ==
  CASE node.t \in PrimitiveOps -> CheckPrimitiveOps(S, node)
    [] node.t = "if"           -> CheckIfOp(S, node)
    [] node.t = "for"          -> CheckForOp(S, node)
    [] node.t = "while"        -> CheckWhileOp(S, node)
    [] node.t = "func_call"    -> CheckFuncCall(S, node)
    [] node.t = "func_def"     -> CheckFuncDef(S, node)
    [] OTHER                   -> S

Init ==
  /\ prog \in Progs
  /\ pc = 1
  /\ temp_list = <<>>
  /\ not_read_list = <<>>
  /\ have_read_list = <<>>
  /\ err = NoErr
  /\ warning = <<>>

\* One iteration of the loop over the top statements.
Statement ==
  /\ err = NoErr
  /\ pc <= Len(prog)
  /\ LET S == CheckStmt(State, prog[pc])
     IN  /\ temp_list' = S.tl
         /\ not_read_list' = S.nr
         /\ have_read_list' = S.hr
         /\ err' = S.err
  /\ pc' = pc + 1
  /\ UNCHANGED <<prog, warning>>

\* After the loop: the names left in not_read_list are printed.
ReportNotRead ==
  /\ err = NoErr
  /\ pc = Len(prog) + 1
  /\ warning' = not_read_list
  /\ pc' = pc + 1
  /\ UNCHANGED <<prog, temp_list, not_read_list, have_read_list, err>>

Next == Statement \/ ReportNotRead

Spec == Init /\ [][Next]_vars

\* The pass has returned without an error.
Done == pc = Len(prog) + 2

-----------------------------------------------------------------------------
(* Properties.  They relate the lists the pass keeps to the whole tree it  *)
(* was given, read declaratively: every node, at any depth.                *)

RECURSIVE Subnodes(_)
Subnodes(node) ==
  <<node>> \o FoldLeft(LAMBDA acc, c : acc \o Subnodes(c), <<>>, node.ch)

AllNodes == FoldLeft(LAMBDA acc, c : acc \o Subnodes(c), <<>>, prog)

Count(seq, P(_)) == Len(SelectSeq(seq, P))

\* The result positions of the tree: the first child of an operation and
\* the name of a tuple.
Results ==
  FoldLeft(LAMBDA acc, x :
             IF x.t \in UnaryOps \cup NaryOps THEN acc \o <<x.ch[1]>>
             ELSE IF x.t = "tuple"
                  THEN acc \o SelectSeq(x.ch, LAMBDA c : c.t = "ref")
             ELSE acc,
           <<>>, AllNodes)

WriteCount(n) == Count(Results, LAMBDA x : x.t = "ref" /\ x.n = n)

\* Every other occurrence of a ref is a use of its value.
ReadCount(n) ==
  Count(AllNodes, LAMBDA x : x.t = "ref" /\ x.n = n) - WriteCount(n)

TypeOK ==
  /\ pc \in 1..(Len(prog) + 2)
  /\ \A l \in {temp_list, not_read_list, have_read_list, warning} :
       l \in Seq(STRING)
  /\ ToSet(temp_list) \subseteq TempNames
  /\ ToSet(not_read_list) \cap OutNames = {}
  /\ err.rule \in STRING /\ err.name \in STRING

\* The three lists stay sets and a name is in at most one of not_read_list
\* and have_read_list, whatever sequence of writes and reads the statements
\* make: check_for_not_read adds a name only when it has not been read
\* since a write, and its erase loop moves every copy it removes.
ListsDisjoint ==
  /\ IsInjective(temp_list)
  /\ IsInjective(not_read_list)
  /\ IsInjective(have_read_list)
  /\ ToSet(not_read_list) \cap ToSet(have_read_list) = {}

\* Spec 4.6 and 8: a temporary is written at most once.  A pass that ends
\* without an error has seen no temporary in two result positions, at any
\* depth; the "must be written to only once" error names a temporary that
\* really is in two.
TempWrittenOnce ==
  /\ Done => \A t \in TempNames : WriteCount(t) <= 1
  /\ err.rule = "temp" => err.name \in TempNames /\ WriteCount(err.name) >= 2

\* Spec 4.6: a temporary that is written and never read anywhere in the
\* tree is in the final "were written but never read" warning.
UnreadTempsWarned ==
  Done =>
    \A t \in TempNames :
      WriteCount(t) >= 1 /\ ReadCount(t) = 0 => t \in ToSet(warning)

\* Spec 4.6 and 7: the warning lists temporaries written but never read,
\* and nothing else.
WarnOnlyUnreadTemps ==
  Done => ToSet(warning) \subseteq {t \in TempNames : ReadCount(t) = 0}

\* The per-node rules of spec 4.6, read from the spec.
RefOrConst(c) == c.t \in {"ref", "const"}
Kids(x, ty) == SelectSeq(x.ch, LAMBDA c : c.t = ty)
SingleRefCond(x, types) ==
  Len(Kids(x, "cond")) = 1 /\ Len(Kids(x, "cond")[1].ch) = 1
  /\ Kids(x, "cond")[1].ch[1].t \in types

NodeRule(x) ==
  CASE x.t \in UnaryOps \cup NaryOps ->
         /\ Len(x.ch) >= 2 /\ x.ch[1].t = "ref"
         /\ \A i \in 2..Len(x.ch) : RefOrConst(x.ch[i])
    [] x.t = "tuple" -> Len(Kids(x, "ref")) = 1 /\ Len(Kids(x, "assign")) >= 2
    [] x.t = "if" ->
         /\ Len(Kids(x, "cstmts")) = 1 /\ Len(Kids(x, "stmts")) = 1
         /\ SingleRefCond(x, {"ref"})
    [] x.t = "for" -> Len(Kids(x, "ref")) >= 2 /\ Len(Kids(x, "stmts")) = 1
    [] x.t = "while" -> SingleRefCond(x, {"ref"}) /\ Len(Kids(x, "stmts")) = 1
    [] x.t = "func_def" ->
         /\ Len(Kids(x, "ref")) = 1 /\ Len(Kids(x, "stmts")) = 1
         /\ SingleRefCond(x, {"ref", "const"})
    [] x.t = "func_call" -> Len(x.ch) = 3 /\ \A i \in 1..3 : x.ch[i].t = "ref"
    [] OTHER -> TRUE

SpecWellFormed == \A i \in 1..Len(AllNodes) : NodeRule(AllNodes[i])

\* Spec 4.6: the validator accepts exactly the trees whose every node obeys
\* its rule, at any depth: a structure nested in a body is checked by its
\* own rule.
SpecNodeRules ==
  /\ Done => SpecWellFormed
  /\ err # NoErr /\ err.rule # "temp" => ~SpecWellFormed

\* Spec 4.6 and 7: what the validator reports is what the spec's rules
\* say: it rejects a tree only when a node breaks its rule, and its final
\* warning lists only temporaries never read.
ValidatorSpec == SpecNodeRules /\ WarnOnlyUnreadTemps

====
