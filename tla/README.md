# TLA+ models of the LiveHD front end

The models are of the repository's C++ under `src/`. That code is a hardware compiler front end. It lowers FIRRTL modules to LNAST, a language-neutral syntax tree. It also holds an interval lattice for bit-width inference, an LNAST validator, the pass driver and a graph-name registry.

Everything in the code is sequential and deterministic (spec 4.5: "single-threaded and deterministic"). The state spaces therefore come from the inputs, not from interleavings. Each model chooses, in `Init`, one input from a small universe: a sequence of lattice operations, or a module body of FIRRTL statements. It then runs the code's handlers on that input step by step. The hazards of this code are the following:

- the order of its passes;
- protocols spread over several handlers and statements;
- state one handler computes and another reads later;
- numeric edges.

Message loss and concurrency do not apply. Process ends do: the graph library's backing file outlives the tool process, and a process may stop on a failed assertion or a fatal error. `PassCompiler` models a sequence of processes for that reason.

## Parts of the system and their models

| Part (spec) | Source | Module | Status |
|---|---|---|---|
| C1 Interval lattice `Bitwidth_range` | `src/pass/bitwidth/bitwidth_range.cpp` | `BitwidthRange` | modelled |
| C5 Lowering: memory hoisting, direction inference, late binding | `src/inou/firrtl/fir_tolnast.cpp` | `MemLowering` | partly |
| C5 Lowering: module iteration, ports, wires, registers, instances, bundle/vector access | same | `ModuleIO`, with the spec's flattening table in `ModuleRegistry` | partly |
| C5 Lowering: expressions, connects, mux/valid-if, primitive ops, when | same | `ExprLowering`, composed with `SemanticCheck` in `Pipeline` | modelled |
| C4 Type flattener | same | `ModuleIO` | modelled |
| Big-integer rendering (`ConvertBigIntToStr`) | same | `ModuleIO` | modelled |
| C6 Semantic validator | `src/pass/semantic/semantic_check.cpp` | `SemanticCheck` | modelled |
| C3 Graph library registry | `src/core/graph_library.hpp` | `GraphLibrary` | modelled |
| Pass driver | `src/pass/compiler/pass_compiler.cpp` | `PassCompiler`, composed with `GraphLibrary` and the front end's registration | modelled |
| C7 Pyrope keyword table | `src/inou/pyrope/prp.hpp` | — | not modelled: a constant table |

### How the parts interact

The pass driver (`Pass_compiler::compile`) turns FIRRTL input into LNASTs through `Inou_firrtl`. The lowering has three steps:

- `IterateCircuits` loops over the circuits of the input.
- `IterateModules` first registers the ports of every module (`PopulateAllModsIO`: a sub-node in the graph library and a port-direction map). It then resets the per-module state and lowers each module in order: `GrabExtModuleInfo` for an external module, `ListUserModuleInfo` for a user module.
- `ListUserModuleInfo` runs two traversals on each top-level statement, then one pass for the whole module:
  1. `PreCheckForMem` hoists the memories and memory ports to the top scope.
  2. `ListStatementInfo` emits the statement in its own scope.
  3. After the last statement, `PerformLateMemAssigns` binds the memory-port attributes.

`PopulateAllModsIO` registers each module in the graph library of the `path` label (`AddModToLibrary`, `reset_sub`). `compile()` then creates the top graph in the library of its own `path` label, adds the `__fir_add`/`__fir_sub` sub-nodes, calls `sync()`, and hands the LNASTs to the `Lcompiler`. `sync()` is the one point where the library reaches its backing file.

The semantic validator walks the produced LNAST; `Pipeline` composes the two. The bit-width pass uses the `Bitwidth_range` lattice for every value.

## BitwidthRange

**State.** The state `br = [max, min, overflow]` is the object's three fields. `lastOp` records the last operation and its arguments, which the round-trip properties need.

**Actions.**

- `Init` is any of the four constructors.
- One action per mutator: `SetRange`, `SetNarrowerRange`, `SetSbits` and `SetUbits`.
- The assertions `I(...)` are guards. `set_narrower_range` asserts against the stored fields in either mode, and the model keeps that.

**Operators.**

- `GetBitsOf` is `get_bits`. It has the overflow-mode wrap of a negative `int64_t` into the unsigned `Bits_t`, and the clz width.
- `ToLconst` is `to_lconst`.

**Bounds.**

- `int64_t` is scaled to `W = 5` bits, so "63" of the code is `W - 1` and `is_i()` means "fits 5 signed bits". TLC integers are 32 bits wide.
- `Bits_max` is 48.
- `Consts` is a sparse set of boundary values around ±2^k, ±2^k−1 and ±(2^(W−1)).
- `Sizes` holds 0, 1, 2, W−1, W, W+1 and Bits_max−1, so both modes and both boundaries are reached.

### Runs

- `bitwidth_core` (pass, 542 states) checks two properties:
  - `TypeOK`: exact-mode fields are machine integers.
  - `UbitsRoundTrip`: `set_ubits(n)` then `get_bits()` returns n in both modes.
- `bitwidth_spec` (violation): `LatticeSpec` fails. It requires every step to satisfy both `SignedWidth`, in the state it leaves, and `NarrowKeepsExact`.

  `SignedWidth` states two things of a signed exact range:
  - `get_bits()` covers the whole range;
  - `set_sbits(n)` reads back n.

  Both fail. `get_bits()` of `[-16, -5]` is 4 (the trace TLC shows), and −16 needs 5 bits. `set_sbits(1)` reads back 2 bits. The sign bit is added to the width of |max| whatever min is. That contradicts the FIXME comment above `get_bits` and the spec's "does not undercount".

  `NarrowKeepsExact` states that `set_narrower_range` never widens an exact-mode range (spec 4.1). It fails too. The assertion runs only when both new bounds are machine integers. A bound outside `int64_t` always widens an exact range, so the check is skipped exactly when it would fire: exact `[-16, -16]` is narrowed to `[-40, -40]`.

## MemLowering

**State.** The variables are the lowering's per-module members: `late_assign_ports`, `dangling_ports_map`, `mem_props_map` and `memory_names`. The other variables are:

- `out`: the emitted LNAST, abstracted to its assignments `[d, lhs, rhs]`, where `d` is the `when` depth;
- `ports`: the port tuples concatenated into `#mem.__port`;
- `warnings`.

**Names.** Names are tuples:

- `Ph(m, p, s)` is the placeholder string `m_p_s`.
- `Attr(m, p, a)` is `#m.p.__a`.
- A memory name with its first character dropped is `SubstrOne[m]`, what `substr(1)` gives.

**Actions.** There are two:

- `Statement` is one iteration of the loop in `ListUserModuleInfo`. It runs `PreCheckForMem`, then `ListStatementInfo`, on one top-level statement. Both are RECURSIVE operators over `when` bodies that thread the state through the same handlers the code calls.
- `PerformLateMemAssigns` runs after the last statement.

**Handlers modelled.** `InitMemory`, `InitCMemory`, `HandleMemPortPre`, `HandleMemPort` and `PortDirInference`. Also modelled are the dangling-port paths of `InitialExprAdd`, `ReturnExprString` and `HandleBundVecAcc`, and the memory branch of `HandleBundVecAcc`.

**Input universe.** `MCMemLowering` defines the programs. Each program has:

- a CMemory `mem`, or a Memory `mm` with one reader, writer or read-writer port `q`;
- its declarations placed at the top, in a consequent, in an alternate, or two `when`s deep;
- up to two uses on either side, as a bare name or through a sub-field.

Some programs have two ports, or both kinds of memory. That gives 18 514 programs and 109 146 states.

### Runs

- `mem_core` (pass) checks five properties:
  - `TypeOK`: every port names a declared memory.
  - `InferredDirection`: an INFER port ends as the join of its uses.
  - `PlaceholderBeforeDriver`: no `= 0` placeholder follows a driver of it.
  - `LatePlaceholdersDeclared`: every late binding reads a declared placeholder.
  - `AttributesDefinedOnce`: `__latency` and `__wrmask` are each defined exactly once, in the tuple or in the late binding, with the right latency.
- `mem_binding` (violation): `LateBindingComplete` (spec 4.5.6) fails. It is the conjunction of two statements:
  - `PortUseBound`: a sub-field use of a MemoryPort is bound to its memory. It is wrong in two ways. The use sets `em_p_en`, not `mem_p_en` (`substr(1)`), so the port is never enabled. It also reads `p.a.__q_pin` or writes `p.a`, because the memory mapping HandleBundVecAcc computed is discarded.
  - `DriversBound`: every placeholder a program drives is bound. A write to a read-writer's `wmode` is never bound to the memory.

Deadlock is not checked in these runs: lowering a module ends after `PerformLateMemAssigns`.

## SemanticCheck

**State.** The variables are the pass's three lists `temp_list`, `not_read_list` and `have_read_list`, the error `err` raised by `Pass::error`, and `warning`, the names the final warning prints. `prog` is the list of statements under `top -> stmts`, and `pc` is the loop index.

**Nodes.** A node is a record `[t, n, ch]`: its type, its name and its children. The character tests `is_temp_var` (`___` prefix) and `'%'` are the constant sets `TempNames` and `OutNames`.

**Actions.** There are two:

- `Statement` is one iteration of the loop in `semantic_check`: the dispatch `CheckStmt` and every check it calls, as RECURSIVE operators over the children (`CheckPrimitiveOps`, `CheckIfOp`, `CheckBody`). Each loop over children is a `FoldLeft`.
- `ReportNotRead` prints `not_read_list` after the loop.

`Pass::error` is fatal (spec 4.6 and 7). `Fail` keeps the first error, every check leaves the state alone after it, and a failed pass prints no warning.

**Input universe.** `MCSemanticCheck` has twelve statements over the temporaries `___a` and `___b`, a wire `x` and an output `%o`:

- assignments, `plus` and `dot`, and a tuple;
- an `if` with cstmts, cond and stmts, a `while`, a `for`, a `func_call` and a `func_def`;
- an assignment with a constant LHS.

Every list of one to three of them is checked: 1,884 programs and 7,871 states.

### Runs

- `semantic_core` (pass) checks four properties:
  - `TypeOK`: the lists hold names, and no `%` name is ever in `not_read_list`.
  - `ListsDisjoint`: the lists stay sets, and a name is never both not-read and read.
  - `TempWrittenOnce`: a pass that ends saw no temporary in two result positions at any depth, and the "written to only once" error names a temporary that is in two.
  - `UnreadTempsWarned`: every temporary written and never read is in the warning.
- `semantic_spec` (violation): `ValidatorSpec` (spec 4.6 and 7) fails. It is the conjunction of two statements:
  - `WarnOnlyUnreadTemps`: the single statement `x := ___a` warns of `x`, because every name not starting with `%` is tracked. The same list also warns of a temporary read before its first write, and of one read only as a `while` condition.
  - `SpecNodeRules`: a `func_call` with three refs inside an `if` body is rejected with "If Operation Error: Not a Valid Node Type". The body loops send every nested structure to `check_if_op`.

The pass is modelled run once, from empty lists. `semantic_check` never clears its member lists, so a second call on the same object would report every temporary as written twice. Whether objects are reused is decided outside `src/`; this is listed as a hazard.

## ModuleIO

`ModuleIO` models the module interfaces of the FIRRTL front end in `fir_tolnast.cpp`. It covers:

- `IterateCircuits` and `IterateModules`, with the per-module resets;
- `PopulateAllModsIO` with `AddPortToMap` and `AddPortToSub`;
- `ListModuleInfo`, `GrabExtModuleInfo`, `ConvertBigIntToStr` and `ListPortInfo`;
- the Wire, Register and Instance cases of `ListStatementInfo`;
- the non-memory branches of `HandleBundVecAcc` and `get_full_name`.

It is one step per loop iteration of the single-threaded front end:

| Action | Code |
|---|---|
| `PopulateModIO` | one module of `PopulateAllModsIO`: `reset_sub`, its pins and `mod_to_io_dir_map` (keyed by module id) |
| `ListExtModule` | the reset of `IterateModules`, then `GrabExtModuleInfo`: parameters and directions keyed by the defined name |
| `ListUserPorts` | the reset, then `ListPortInfo` on every port |
| `Wire`, `Register`, `Instance` | `init_wire_dots`; `init_reg_dots` with `init_reg_ref_dots`; `create_module_inst` |
| `Access` | `HandleBundVecAcc` for a sub-field or sub-index access on either side |
| `EndModule` | the end of `ListUserModuleInfo`, then the next module |

Names are paths of `[sep, v]` elements, so `io.b` and `v[1]` keep their structure. The emitted LNAST `lnast` records:

- the width and `__reset_async` attributes, with their sigil;
- the instances, with the parameters attached;
- the resolved accesses.

The type flattener is four RECURSIVE operators:

- `IoList` (`create_io_list`);
- `MapEntries` (`AddPortToMap`);
- `InitWireDots`;
- `InitRegDots`.

`mod_to_io_map` is left out because it is only written: its one reader is commented out. A register's clock, reset and init expressions are reduced to the reset's class: a reference, `AS_ASYNC_RESET`, another operation, or a literal.

`ModuleRegistry` holds the leaves spec 4.3 and 4.4 give a port or a declaration: the flattening table of spec 4.4, which emits the vector marker once. `ModuleIO` takes it as `Reg == INSTANCE ModuleRegistry`, and its properties compare what the code emits with these leaves. `subs` is the `Sub_node` value `AddModToLibrary` returns; the code discards it, so no property reads it, and what the library's own sub-nodes hold is checked in `PassCompiler` (`FrontEndPinsRegistered`).

`MCModuleIO` uses one circuit shape in two module orders: child modules first (as the front end emits them) and `Top` first. The circuit has:

- `Child`, with an input bundle `io {a: UInt<8>, flip b: SInt<4>}` and an output `v: UInt<8>[2]`;
- `Foo` and `Foo_1`, two external modules with the same defined name `Foo`, whose integer parameters include negative chars, two bytes and an empty value;
- `Top`, with an `AsyncReset` port `rst` and a body of one or two statements from 13. The statements cover instances (one named `_T_1`), accesses to instance leaves, a vector element and a whole bundle, an output element, a register with a SInt field reset by `rst`, a read of that field, an AsyncReset wire, and a register reset by that wire;
- `Mod2`, whose register is reset by a `UInt<1>` port also named `rst`.

### Runs

- `moduleio_core` (pass, 6,876 states) checks five properties:
  - `TypeOK`: a direction 0 is cached only alongside the "direction unknown" error that inserted it.
  - `InstanceDirAgrees` (composition of the registry and the lowering): an access lowered to `inp_`/`out_` names a leaf that the instantiated module declares with that direction after bundle flips.
  - `PortWidthAttrs`: each listed module has exactly one width attribute per port leaf of nonzero width, with the leaf's sign and direction name. The per-element vector markers add none.
  - `AsyncResetAttr` (spec scenario 2): every register leaf gets `__reset_async` exactly when its reset is `AS_ASYNC_RESET` or a name this module declared `AsyncReset`. This needs the reset between modules: `Mod2`'s `rst` must not inherit `Top`'s.
  - `BigIntRoundTrip`: each integer parameter renders to 8 bits per byte, which read back as the bytes' two's complement value.
- `moduleio_spec` (violation): `ModuleIOSpec` fails. It is the conjunction of `RegisterWidthOnce`, `ExtParamsAttached` and `AccessResolves`, and each part fails on its own:
  - `RegisterWidthOnce`: the SInt case of `init_reg_dots` falls through to `default`, so `q.a: SInt<4>` gets both `__sbits` and `__ubits`.
  - `ExtParamsAttached`: parameters are stored under the defined name and read under the instance's module id, so an instance of `Foo_1` gets none. They are also stored only when the external module itself is lowered, so with `Top` first its instance of `Foo_1` gets none.
  - `AccessResolves`: a read of the register field `q.a` lowers to `q.a.__q_pin` with no `#`. An instance named `_T_1` is never recognised as an instance. A whole-bundle access `c.io` raises "direction unknown".

  TLC reports the first of these that it reaches.

## ExprLowering and Pipeline

**ExprLowering** models `ListUserModuleInfo` for one user module without memories or instances.

**State.** The variables are:
- `mod`, the module;
- `si`, the step: a port entry, then a statement, then `PerformLateMemAssigns`;
- `st`, the lowering's state;
- `lnast`, the statements under `top -> stmts`.

`st` holds three kinds of data:
- the counters of `create_temp_var` and `get_new_seq_name`;
- the sets `input_names`, `output_names`, `register_names` and `async_rst_names`;
- the first `Pass::error`.

**Names.** A name is a record `[pre, p, lead]`:
- `pre` is the prefix the code concatenates: `$`, `%`, `#`, `$inp_`, `%out_`, `_.`, or `___F` for a temporary;
- `p` is the path: base identifier, fields and indices;
- `lead` is the class of the name's first character, which `AttachExprStrToNode` and `CreateDotsSelsFromStr` test.

A literal keeps what `StrCat(value().value(), "u")` makes of it: the BigInt's bytes as characters.

**Actions.**
- `ListPort` is one entry of `ListPortInfo`.
- `Lower(ks)` is one top statement through `ListStatementInfo` and everything it calls. Its instances are `Declare`, `NodeStmt`, `ConnectStmt`, `WhenStmt`, `StopStmt`, `NoOpStmt` and `AttachStmt`.
- `EndModule` is the end of the loop.

**Calls.** The lowering functions call each other recursively. The model keeps each function's order of calls and of emitted nodes. It routes every mutual call through one dispatcher, `Call`, which takes the C++ function's name. The functions are `ReturnExprString`, `InitialExprAdd`, `HandleMuxAssign`, `HandleValidIfAssign`, `ListPrimOpInfo`, `HandleBundVecAcc`, `FlattenExpression`, `ListStatementInfo` and the register helpers. This keeps TLC's coverage walk of the operators linear.

**Undefined behaviour.** `HandleTypeConvOp` reads `op.const_(0)` of an operation that has no constants. `Lower` chooses the outcome with `\E ub`: a crash, or a garbage string.

**Pipeline** `EXTENDS ExprLowering` and instantiates `SemanticCheck` on the tree the lowering built, rendered as the strings the code concatenates. The compiler runs the front end and then the validator. `PipelineNext` does the same: it takes lowering steps, then, after `Done`, validator steps.

Two interpreters give the properties their meaning:
- `FEnv` is a reference semantics of the FIRRTL statements;
- `LEnv` is the semantics of the LNAST, through dots, selects, ifs and aliases.

Both map a location to a term over the inputs, the registers and the literals.

**Input universe.** `MCPipeline` has 12 port leaves: inputs, a clock, an `AsyncReset`, a two-element vector with its marker leaf, and a bundle `io`. Every module declares a register reset by the async reset and a signed wire, then fills three slots:
- a definition of `_T_1`, one of 3: nested `add`/`sub` with a sub-access, a mux of a sub-index and a sub-field, or a valid-if of `bits`;
- a use of `_T_1`, one of 3: a connect, a `when` with an alternate, or a `when` on `eq` with a partial connect of a mux;
- one more statement, one of 5: `cat`, `printf`, `stop`, `skip` or `is invalid`.

That gives 45 modules. Three more complete the universe: one with no widths, and two that stop (`attach` and an interval primop).

`MaxTemps = 40` is above the number of temporaries any of these modules uses.

### Runs

- `pipeline_core` (pass, 982 states) checks three properties:
  - `TypeOK`;
  - `OperandsBeforeUse`: every temporary read in the tree is written by an earlier node, in preorder;
  - `DataflowPreserved`: at the end, every location the FIRRTL statements write holds the same term in the LNAST.

  The FIRRTL modules of this run use no literal operands and no type conversions, so that `DataflowPreserved` can hold.
- `pipeline_contract` (violation): `LnastContract` fails. It is the front end's contract from spec 4.5, 4.6 and 3.2:
  - the tree computes the module;
  - the validator accepts it;
  - the validator warns only of temporaries;
  - an output is written with `dp_assign`.

  The modules of this run have no widths or a synchronous reset, plus three value modules. Each conjunct fails on some module:
  - dataflow:
    - a literal becomes its raw byte and a ref;
    - `as_uint` reads `const_(0)`, which is out of range;
    - an index `_T_1` is split on the `.` of `_._T_1`;
  - acceptance:
    - a `cond` node has no ref child, so every `when` and mux is rejected;
    - `func_call` nodes have const children;
    - a width attribute's temporary is written by both its dot and its assign;
  - warnings: an unread wire `w` is warned of;
  - assignments: `o <= v[1]` and `o <= mux(...)` give `assign %o`.

## GraphLibrary and PassCompiler

`GraphLibrary` models the graph library. A library is a record holding the fields of `Graph_library`:

- `attribute`: the slots `0..lgraph_count()-1`;
- `name2id`;
- `recycled_id`;
- `max_version`;
- `clean`, for `graph_library_clean`;
- `sub`: the sub-node pins of each id.

`gi` is `global_instances` and `disk` is each path's backing file, a set of `(id, name, version)` records. Each operation is an operator from a library to a library, so a handler that calls several of them is one action.

Some operations come from the header. These are `get_name` with its assertions, `lgraph_count`, `get_id`, `get_version` (as written, inverted), `include`, `instance`, `get_max_version` and `sync`. The others are declared in the header and defined outside `src/`, so they follow spec 3.4, 4.3 and 6:

- the reloading constructor: missing ids become recycled ids, and the version counter resumes from the file;
- `add_name`: takes the last recycled id, else a new slot;
- `reset_id`, `reset_sub`, `update` and `expunge_lgraph`;
- `clean_library`.

`instance()` keeps raw pointers, so no destructor ever flushes. A process end (`ProcessExit`) therefore drops every instance and keeps only the files.

`PassCompiler` EXTENDS `GraphLibrary`. A process may do the following:

- run the front end's registration (`PopulateAllModsIO` through `AddModToLibrary`), whose pins go to the returned copy of the `Sub_node`;
- run `compile()`, as five actions:
  - `CompileStart` (lines 55-79): the options, the "nothing to compile" return, and the `I(top != "")` abort;
  - `CreateTop` (line 80): `LGraph::create` on `lnasts.front()`. For an empty list this is undefined, so the process either crashes or goes on with a garbage source;
  - `SetupFirmap` (lines 111-124), ending in `sync()`;
  - `Lower` (lines 82-84, 92-108): it registers one graph per LNAST, and a fatal error may stop it after any prefix;
  - `WaitAll` (lines 87-89);
- delete a graph, as another command of the shell;
- end, after which a new process starts.

Creating a graph in `LGraph`/`Lcompiler` (outside `src/`) is modelled as `reset_id` of its name (spec 3.4: "registered on first lowering").

`MCPassCompiler` has the following instance:

- paths `lgdb` and `alt`;
- a circuit with an external module `Ext` and a user module `Top`;
- the `firrtl` label absent, `true` or `0`, and the `top` label absent or `Top`;
- with and without a `files` label;
- a first process that finds either empty files, or an `lgdb` file with `Old` at id 1, `Top` at id 3 and id 2 deleted;
- two processes and `MaxVersion` 12.

This covers a reload with a hole, reuse of a recycled id, a registration lost at a process end and then reloaded, and both compilation paths on both paths.

### Runs

- `compiler_core` (pass, 269,314 states) checks two properties:
  - `TypeOK`: every open library's slots, ids, free list and version counter are in range, and every file holds records.
  - `FrontEndKept`: while a process runs, every module the front end registered in a path is still registered there, and its slot carries its name (`get_name`'s assertions hold). `compile()` opens that path again with `instance()`, and only the lookup in `global_instances` keeps it from reloading the file, which holds none of these unsynced registrations. A library reloaded on every `instance()` call breaks it.
- `compiler_contract` (violation): `DriverContract` fails. It is the conjunction of the following, each checked to fail on its own:
  - `VersionReadable`: `get_version` returns 0 for every registered id.
  - `FrontOfLnast`: `pass.compiler firrtl:true top:Top files:x` with no LNAST reads `lnasts.front()` of an empty vector.
  - `FrontEndPinsRegistered`: after the front end, the library's sub-nodes of `Ext` and `Top` have no pins. The pins went to the copy `AddModToLibrary` returns.
  - `GraphsDurable`: a compile ends with graphs whose records are not in the file. On the Pyrope path nothing is synced. On the FIRRTL path the lowering updates versions after the only sync.

## Fairness and liveness

`BitwidthRange`, `MemLowering` and `SemanticCheck` assume no fairness. Their handlers are terminating sequential functions, and only safety is checked of them.

`ModuleIO` assumes no fairness and checks only safety. Deadlock checking is off because `done` and an error are terminal states.

`ExprLowering` and `Pipeline` assume `WF` on their `Next`: each is a single sequential loop whose next step, while one is left, is enabled and is taken. No liveness property is checked of them: their steps are bounded by the module's length.

`PassCompiler` assumes no fairness and checks only safety. A shell may stop after any command, so deadlock checking is off: the last process ends in `done`, `aborted` or `crashed` once `MaxRuns` processes have run.

## Not modelled

- LNAST node identities, string interning and formatting.
- Protobuf parsing.
- The graph library's file format and its atomic rewrite: the file is a set of records.
- Expressions other than memory ports in `MemLowering`: they are the opaque references `sig` and `val`. `ExprLowering` models them for modules without memories.
- In `ExprLowering`: the memory, memory-port and instance branches, which `MemLowering` and `ModuleIO` model. A literal holds one byte.
- In `ModuleIO`:
  - the dot and select temporaries of `CreateDotsSelsFromStr` and the `__last_value` and `F<n>` temporaries of `create_module_inst`;
  - `ReturnExprString` on a register's clock and reset;
  - Fixed and Analog types, which are `I(false)`;
  - the text of double and string parameters: only whether it starts with a digit is kept, which decides const versus ref.
- In `GraphLibrary`: `register_lgraph`, `unregister_lgraph`, `find_lgraph`, `get_graph` and `each_graph`, which act on `LGraph` objects outside `src/`. The open count `nopen` stays 0 for the same reason.
- In `PassCompiler`: `check_option_gviz`, `odir` and the `Lcompiler`'s global passes (`global_io_connection`, bit-width inference). Those feed code outside `src/` and change no library state. The `Lcompiler` runs its tasks through `wait_all`; whether they touch the library concurrently is decided outside `src/`, so the lowering is one step.
- The Pyrope keyword table: a constant map filled in the `Prp` constructor. `intersect` and `union` share id 145, which spec 4.7 calls a deliberate alias.
