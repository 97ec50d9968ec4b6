# A TLA+ model of la3

la3 is a compiler and interpreter written in Rust.  `la3 run` checks a program
and walks its tree; `la3 build` lowers it through HIR and MIR to LLVM IR and
links it with a small runtime; `la3 check` only checks it, and a VS Code
extension runs `la3 check` behind the editor.  This directory holds TLA+
modules for the parts of la3 whose state is worth model-checking, the TLC
configurations that check them on small instances, and proofs, checked by
TLAPS, of the most important properties for every value of the constants.

Paths below are relative to the root of the repository.

## Inventory

| component | state it keeps | operations | what is hard | what makes it correct |
|---|---|---|---|---|
| cooperative scheduler (`src/interp/concurrency.rs`, `interp.rs`) | ready queue, memo cell per task, native stack of bodies, channels | `spawn`, `join`/`await`/`all`/`race`, `send`, `recv`, `close`, the drain loop of `run` | bodies run inside the `recv` or force of others; signals cross bodies; the queue is popped in one order and forced in another | no task lost, each body once, memo stable, channels in order, nil final, every task settled at exit |
| runtime collections (`runtime/src/collections.rs`) | buffer (ptr, len, cap) per List and Set, two per Map | push, insert, get, drop | duplicates, two parallel buffers, growth, drop of a slot that is reused | each element owned or dropped exactly once; keys unique; reads see a dictionary |
| editor diagnostics (`editors/vscode/src/extension.ts`) | timers, temporary files, running processes, published diagnostics | document events, `check`, callbacks | processes overlap, answer late, time out; files are shared by name | diagnostics are those of the document's text; nothing is left behind |
| move checker (`src/borrowck/moves.rs`) | set of moved names | one walk over each function | shadowing, branches, loops, jumps | no accepted program uses a moved value |
| drop insertion (`src/mirgen.rs`) | scopes of owned locals, set of moved locals, blocks of the graph | one lowering per function | early exits, moves on one branch, assignment | each owned value dropped once on each path, in reverse order |
| lexical borrows (`src/borrowck/borrows.rs`) | stack of active borrows | one walk | places, overlap, scopes | nothing changes behind a shared reference, nobody looks behind an exclusive one |
| name resolution (`src/checker.rs`) | scopes, binding ids | one walk | shadowing, closures, forward references | a use is resolved to the innermost binding before it |
| type checker (`src/typeck/`) | type tables, environments | walks; pure functions on types | layout arithmetic, exhaustiveness, unions, what is not known | an accepted program does not get stuck, and its values have the types inferred |
| HIR lowering (`src/hir.rs`) | binding ids, capture sets | one walk | ids handed out a second time, captures of nested closures, order of evaluation | same ids as the resolver, same meaning as the tree |
| MIR (`src/mir.rs`) | blocks, locals | builder, validator, printer | — | every target exists, every block terminated |
| lowering to MIR (`src/mirgen.rs`) | blocks and locals of a function, loops around | one walk | when an operand is read; the targets of jumps; the tests of patterns | the graph does what the tree does |
| code generation (`src/codegen/`) | types of locals, functions left out, an LLVM module | a predicate, a fixpoint, one walk | what is let through must not fail later; nothing is checked at run time | the binary ends as the interpreter does |
| lexer, parser (`src/lexer.rs`, `src/parser*`) | position, tokens | one pass | newlines inside brackets, lookahead for blocks, struct literals and type arguments | the tree that was written |
| rest of the interpreter (`src/interp/`) | environments, values | evaluation | signals through nested constructs, shared cells, arithmetic at the edges | the oracle everything else is compared with |
| rest of the runtime (`runtime/src/`) | owned `str` | formatting, files, environment | — | drop of a `str` poisons its slot |
| command line, AST, diagnostics (`src/main.rs`, `ast.rs`, `diag.rs`) | — | dispatch, rendering | — | — |

How they interact.  `main.rs` calls lexer and parser, then `checker::check`,
which runs resolution, then the type checker if there were no errors, then the
borrow checker if there still are none.  `run` hands the tree to the
interpreter, which contains the scheduler; the other commands lower to HIR and
MIR, from which `codegen` writes IR that calls the runtime.  The extension is a
separate process that starts `la3 check` on a file and parses its stderr.

## Modules

| module | what it is | state and actions |
|---|---|---|
| `Scheduler` | the interpreter's scheduler, its channels and the signals that unwind bodies | `ready`, `result`, `buf`, `closed` are the fields of `Interp`, `TaskState` and `ChannelData`; `stack` is the native stack of the interpreter, one frame per body under evaluation; `signal` is the `Err(Signal)` on its way out.  One action per operation of the language (`Spawn`, `ForceTask`, `Send`, ...), one per way through `channel_recv`, `run_task` and the drain loop |
| `Futures` | what tasks and channels promise, with no stack and no queue | the abstract specification `Scheduler` implements for disciplined programs |
| `SchedulerProofs` | theorems about `Scheduler`, for every program | |
| `DisciplinedProofs` | theorems about `Scheduler` for disciplined programs | |
| `Collections` | List, Set and Map of the runtime | `keys` and `vals` are the `Raw` buffers; a value is a number, its class in `eq` is what the equality function sees; `dropped` counts the calls of drop glue |
| `Dictionary` | what the reads of a collection may see | the abstract specification `Collections` implements |
| `CollectionsProofs` | theorems about `Collections` | |
| `Program` | the small programs the ownership passes are modelled on, and their name resolution | a node is a record of what it is, a name and its parts; `Resolve` is the resolver's walk |
| `Moves` | the move checker | `WalkExpr` is `walk_expr`, and threads the set of moved names through the tree |
| `Lowering` | the lowering of a function to blocks with moves and drops | one operator per function of `FnLower`; its argument `st` is the state of `FnLower` and `MirBuilder` |
| `Machine` | the validator of `mir.rs`, and the execution of what it accepts | `blk`, `idx` are the point of execution, `slot` the locals, `inside` and `live` the ownership of values; one action per statement and terminator |
| `Ownership` | what the execution of a function promises about who owns what, and the certificates from which that follows | a certificate says what is known of each slot before each statement; `Certifies` checks it one statement at a time |
| `Inference` | certificates for the code of the lowering, found by following it | TLC only: it finds what `Certifies` then checks |
| `OwnershipProofs` | theorems about `Machine` and `Ownership`, for every function | |
| `Drops`, `MCDrops` | the move checker, the lowering and the execution put together; the programs for TLC | no state of its own: the functions `Machine` runs are those `Compiled` makes |
| `Syntax` | the tree of a program and what the passes ask of it | a node is a record of its kind, a name and its parts, whatever `ast.rs` type it has; `Bounded` arithmetic of the integers |
| `Lexer`, `Parser` | `lexer.rs`, `parser.rs` and `parser/` | a parser state is a position and what has been read; one operator per parser function, all behind the dispatcher `ParseOne` |
| `Printer` | the text of a tree with no more parentheses than the grammar asks for | the inverse the parser is compared with |
| `Resolver` | the scopes and ids of `checker.rs` | `Resolved` is the walk |
| `Types` | inference, relations of types, patterns and calls of `typeck/` | `CheckTypes` leaves each node with its type, as the map of types in the code does |
| `Layout` | sizes, alignments and offsets of aggregates, arrays, enums and unions, in `typeck/layout.rs` | a shape is a size and an alignment; no recursion over types, so that it can be proved about |
| `TypeLayout` | the shape of each type, and where the scalars in its values are | `ShapeOf` is `size_align`; `Leaves` goes down as the stores of the back end do |
| `LayoutProofs` | theorems about `Layout`, for any fields | |
| `Borrows` | the lexical borrows of `borrowck/borrows.rs` | `BorrowsChecked` is the walk, its state the stack of active borrows |
| `Hir` | desugaring, ids and captures of `hir.rs` | `Lowered` is the walk, which hands out ids a second time |
| `Mirgen` | the lowering of functions to blocks of `mirgen.rs` | one operator per function of `FnLower`, `st` its state; `st.out` is the operand or rvalue returned |
| `Skipping` | which functions a build leaves out, in `codegen/module.rs` | `calls` is the call graph, `out` what cannot be translated; no types and no blocks, so that it can be proved about |
| `SkippingProofs` | theorems about `Skipping`, for any finite program | |
| `Recursion` | lemmas about loops that the other proofs share | |
| `Codegen` | what `codegen/` leaves out, what fails the build, what the binary does | `Build` is `build_program_module`; `Execute` runs the blocks kept |
| `Interpreter` | the evaluation of trees, `interp/` | cells, heap and output are a record that goes through the evaluation; `sig` is `Signal` |
| `Frontend`, `MCFrontend` | these one after the other, as `main.rs` runs them; the programs for TLC | `stage` is how far a program has got; one action per pass |
| `Editor`, `MCEditor` | the extension's diagnostics; instances of it | `timer`, `temp`, `proc`, `shown` are the timers, temporary files, processes and `DiagnosticCollection`; one action per document event, per timer and per step of a process and its callback |
| `EditorProofs` | theorems about `Editor` | |

### Scheduler

What a body computes is left open: each step of the running (top) body is any
operation the interpreter offers, so that the behaviours of the module include
those of every program within the bounds.  A force or a turn of the scheduler
puts a frame on top; the frame below waits until the top one returns or its
signal gets through.  `recv` is the only operation that is not atomic: it stays
in the frame (`recv = c`) while other bodies run on top of it, and looks at the
channel again when they are done.  `try` blocks and loops are a stack of
handlers in the frame; a signal that no handler of the frame takes leaves it
without a memo.  Out of `main` it ends `run`'s call, out of a drained task it
ends the drain loop.

Left out: `finally` blocks (they run code and go on with the same signal),
values (a memo is the number of the evaluation it came from, a channel's n-th
value is n), channel capacity (advisory: nothing reads it but `capacity()`), and
the process's `os.exit`.

`Disciplined` selects a class of programs.  The scheduler does not keep its
promises for every program (see the findings), so the run `disciplined` checks
them for programs that force a task only before its first run or after it has
finished (`MayForce`), and in which, while a task is under evaluation that is
still in the ready queue, no body calls `recv` on a channel that is empty and
open (`MayWait`) and none raises what it does not catch itself (`MayRaise`).
Such a task is one that was forced before its turn, so ordinary programs are
left out: `let t = spawn f(); await t`, where `f` waits for a channel, is not
disciplined, and `run_task` evaluates `f` twice.  Run `scheduler` makes no such
assumption; its property `RestartsUnsettled` is what is left of "once" for every
program: a body is evaluated again only while an evaluation of it is suspended
on the stack or after a signal ended one, and never once the task has a result.
A signal that surfaces in the `recv` of another body is what the code does, and
ends that body too; for `NoTaskLost` a task that a signal ended is not lost.

### Collections

One collection from its creation on, of any of the three kinds and with any
combination of drop glue.  The growth rule (4, then doubling), the linear
scans, the fate of duplicates and the state after a drop (an empty buffer that
may be filled or dropped again) are those of the code.  Null pointers and
zero-sized elements are not modelled; addresses handed out by `get` are values.

### Editor

What the checker says of a text is the text itself, so that diagnostics are
equal when they are of the same text.  The file name of a temporary copy is cut
to 24 hex digits, hence twelve bytes of the document's URI: `Prefix` gives
those of each document.  A check is under way from the start of its process to
the removal of its copy, which takes effect some time after the callback asked
for it.

Anything may go wrong at any time.  A write may fail before or after the file is
opened, leaving nothing, or a part of the text that is of no revision (`Torn`),
and then nobody removes it; a removal may fail, which the code ignores; a process
may not start, or be killed by its timeout; checks overlap as they like, of one
document or of several with one file.  Three variables are history, and no
action looks at them: `spoilt` says what got in the way of each check under way
(another check of the document or its closing, a check of another document with
the same file, a failure), `stale` the same of the last check of each document
that ended, and `left` which files' last write or removal failed.  The
properties are stated of the checks that nothing got in the way of, and one such
check makes up for whatever happened before it.  Without that condition they are
false: `AgreementAmongDocuments` drops it for checks of another document with the
same file (`shared_temp`).  Nor does the code keep two checks of one document in
order: when a document is opened and edited, the check of the open may answer
after that of the edit, and the diagnostics of the older text stay until the next
check.

Not modelled: untitled documents, changes of the setting during a session, a
document that is open before the extension starts, `deactivate` and the end of
the host with checks under way, a process that reads a file while it is written,
a missing binary other than as a process that does not start, the texts of
diagnostics and the positions they are put at.

### Program, Moves, Lowering, Machine, Drops

Two passes of la3 decide who owns a value: the move checker, which walks the
tree and rejects programs that use a value after it was moved, and the lowering
to MIR, which walks the desugared tree and decides which reads move and where
drops go.  They share no data; each repeats the rules of the other.  `Drops`
puts them together: it takes a program the resolver and the checker accept and
lowers it; `Machine` validates the result and executes it with every value's
ownership in view.  `lower_program` leaves out a function that is not valid;
that none of the instance is left out is an assumption TLC evaluates
(`NothingSkipped`).

A program is the body of one function with an owned parameter `x`.  Every
binding has a type that is not Copy and needs drop, since the rules differ only
in that.  Conditions are opaque (either branch may be taken), a user function
takes its arguments by value and drops them, a built-in borrows.  The rules of
tuples stand for all aggregates, those of `Option` for all enums.  `?` and
`while let` are lowered as `hir.rs` desugars them.

The lowering's temporaries, blocks and their order are those of the code, so
that `DropLocals`, `Diverge`, `DropScopesTo` and the loops' contexts can be
compared line by line.  The counter of a `for` is left out (it is Copy).
Dropping means what `mir.rs` says of `Statement::Drop`: a value and everything
in it is freed.  (`codegen` so far does that for `str` alone; the drop of an
aggregate is a no-op there.)  Assigning to a binding overwrites its slot, as in
the code, and leaks what was in it.

The promises are in `Ownership`: what is read is there with all that is inside
it, what is dropped is still owned, drops go in reverse, a `let` of a loop finds
the last round gone, nothing leaks but what the flat set `moved` leaks
(`LeaksOnlyMoved`), and in code with one path and no assignment nothing at all
(`StraightLeaksNothing`).  TLC checks them on every execution of the run's
programs.  They are also decided without executing anything: a certificate says
what is known before each statement (`root`: whose value a slot holds or is part
of; `unit` and `empty`: slots that own nothing; `some` and `none`: whether an
`Option` has a payload), and `Certifies` asks that each statement keeps its
promise when that is known, and leads to what is known before the next.  Neither
the code nor `Machine` has certificates, they are how the promises are proved;
`Inference` finds one by following the code and joining what is known where
blocks meet, and the invariant `Certified` checks the one it finds.

`Plain` selects the programs of the run `ownership`.  The two passes do not
agree on every program, and the differences are listed here with what they lead
to; the run shows that outside of these ownership is kept:

* a jump in a loop that also assigns: `walk_loop` lets the assignment hide a
  move before the jump (finding `loop_reuse`); the same with `break`;
* the condition of a `while`, the expression of a `while let`: walked once, so
  that a condition that moves a value moves it again in the next round;
* a bare binding as a field of a tuple or as the tail of a block: the lowering
  moves it, the checker does not mark it, so a later use is accepted;
* a bare binding as the value of a match arm: neither pass moves it, and it is
  copied (finding `arm_alias`);
* the payload bound by a match of a bare binding, and `e?` of one: the payload
  is copied out while the scrutinee keeps it, so that moving it makes a second
  owner;
* a `let` in an inner block that reuses a name: the checker's set holds names,
  and the inner binding clears the mark of the outer one.

Not modelled: methods (`self` by value moves like an argument), closures and
their captures, `try`/`catch`, struct literals, patterns other than `Some` and
`None`, `??` and `?.`.

### Frontend and the passes it runs

`Frontend` follows one program through la3.  Its state is how far the program
has got (`stage`) and what each pass left; there is one action per pass, in the
order of `main.rs` and `checker::check`:

| action | code | leaves |
|---|---|---|
| `ParseSource` | `lexer.rs`, `parser.rs`, `parser/` | `tree` |
| `ResolveNames` | `checker.rs` | an error, or nothing (its table of uses is made again for HIR) |
| `InferTypes` | `typeck/` | `typed`, the tree with a type on each expression |
| `CheckOwnership` | `borrowck/borrows.rs` (moves are module `Moves`) | an error, or nothing |
| `Interpret` | `interp/` | `ran`: value, signal, output, cells |
| `LowerToHir` | `hir.rs` | `res`, `hir` |
| `Compile` | `mirgen.rs`, `codegen/` | `built`: a binary, none, or a failed build |

Each pass is a recursive operator that has the shape of the code: one case per
construct, the state of the walk (position, scopes, table of types, active
borrows, ids, cells) threaded through the parts in the code's order.  A pass
that reports an error ends the program's way (`error`).  The passes are
deterministic; all the nondeterminism is in `source`.

Trees are one kind of record for all of `ast.rs`: what it is, a name or literal,
and parts in the order the resolver visits them.  Abstracted: positions in the
text, the wording of errors (an error is only there or not; the interpreter's
are of a kind: `type`, `name`, `nomatch`, `bounds`, `zero`, `overflow`,
`immutable`, `shared`, `fuel`), strings and floats, numbers other than one
machine integer of `Bits` bits.

* `Lexer` and `Parser` work on the words of a text, not its characters, except
  where the code looks at characters (comments, numbers with a dot, newlines).
  The parser's mutually recursive functions are behind the dispatcher
  `ParseOne`, since TLA+ wants recursive operators declared one by one.
  `Printer` is not code of la3: it writes a tree with as few parentheses as the
  grammar in the docs asks for, on one line, on several, or between comments.
* `Resolver` and `Hir` number binding sites in two walks, as the code does;
  `drift` is the `debug_assert` that ties them together.
* `Types` has the relations of `typeck/relations.rs`, inference of expressions,
  statements and calls, patterns, exhaustiveness, the collection of items.  The
  type of casts, sets, maps, repeat lists, `await`, `spawn`, `%`, `**` and bit
  operations stays unknown, which makes a program with one `Lenient`; the literal
  types are not pinned to what is asked of them nor defaulted at the end.  The
  arms of an exhaustive match of a union have typed patterns, which the parser
  refuses there, so that only `nil` and catch-all arms meet one in the programs.
* `TypeLayout` gives a shape to the types that inference left on a program and
  to those it declares, enums included.  `ScalarsApart` goes down to the scalars
  of each: every one is aligned and inside the value, and two overlap only if
  they are of different variants or members, of which a value has one.
* `Interpreter` has values, environments with shared cells, patterns,
  calls, closures, loops, signals, the built-ins `println`, `len`, `Some`,
  `Ok`, `Err`, and methods of lists.  Integers overflow as in a release build.
* `Mirgen` lowers integers, booleans, tuples, structs, calls of functions, all
  control flow and the tests of patterns.  For anything else it leaves the
  function out, as `mirgen.rs` does for lists, sets, maps, ranges,
  indirect calls, `await`, `spawn`, `try` and destructuring; methods, indexing,
  references, casts and the patterns of variants are lowered by the code and
  left out by its back end or by these modules, with the functions that hold
  them.  Closures are lowered by the code, each body as a function of its own
  that is added to the program (`mirgen.rs:623`, `1357`), and the back end leaves
  out the function that makes one (`codegen/support.rs:181`) but not the lifted
  body; these modules leave the function out and have no lifted ones, so that
  what `CompiledAgrees` says of failing builds is not said of them.  Consuming
  and plain reads are one: drops are in `Lowering`.
* `Codegen` has the types of locals, the predicate that leaves functions out
  (the fixpoint around it is `Skipping`), and the operands that fail the build.  The LLVM module itself
  is not modelled: `Execute` runs the blocks, as each statement is translated.
  Reading a slot that was never written gives `undef`, a branch on it, a
  division by zero and `unreachable` are the end of defined behaviour.  The
  exit code is not cut to the bits the system keeps.

What the properties exclude, and why.  Each exclusion is a predicate on the
program, named in `Frontend` next to the property, and stands for a place where
the passes of la3 really disagree:

* `ParsesBack` excludes `Ambiguous` texts (some three hundred of the instance): the last
  parameter of a closure has a type (`|a: T| e` goes on over the bar as a union
  type), `e as T < x` and `e as T | x`, `t.0.1` (lexed as a float), a struct
  literal in the head of an `if`, `while`, `for`, `match` or in a guard (in
  parentheses too), `a < b > (c)` (a call with type arguments), a block in the
  place of an expression that has a `,` or `:` at top level (taken for a set or
  map), a statement on a new line that starts with `-`, `|` or `||` (continues
  the previous one), a newline after `return` (dropped), `&mut [T]` (read as
  `&[T]`).
* `NeverStuck` and `InferredTypeHolds` exclude `Lenient` programs, those with an
  expression the type checker knows nothing of and therefore accepts: an unknown
  type, the operands of comparisons and ranges, list elements after the first,
  references as arguments, `Option<T>` for `T` and back, a function name
  shadowed by a local, `return` and `?` in a closure (counted for the function
  around it), an `if` without else or a body without result type that has a
  value, `break v` in a `while` or `for` (counted for the enclosing `loop`), the
  handler of a `try`, a closure that sees a `let` after it, a nested function
  that uses a local of the outer one.
* `BorrowsExclusive` excludes `Untracked` borrows: those made other than by
  `let r = &x` or `&mut x`, assignments by a closure, a jump out of the block
  that holds the reference.  (`&mut p.f` is a reference to a copy when
  interpreted.)
* `SameIds` excludes a compound assignment whose place has a binding site, which
  `desugar_compound` lowers twice, so that ids drift.
* `CapturesAreOuter` excludes closures with a function or constant of their own
  (`OwnItem`): what it uses is not captured, and using it captures the item itself,
  which is bound inside.
* `DesugaringAgrees` excludes compound assignments whose operands have an order
  (the interpreter evaluates the value first, the desugared one the place first
  and twice) and division (`/=` has no check of its own), `LateLet`, and
  `BreaksOther` (a `break v` in a `while let` leaves a `loop` after desugaring),
  and alternatives of a pattern that bind (each binds its own variable).
* `CompiledAgrees` excludes an `&&` or `||` whose second operand has an effect
  (both are evaluated), a variable that a later operand of the same operation
  assigns (it is read late), initialisers of a struct that are more than names
  and numbers (they are evaluated in the order of the declaration), a struct
  that is read as a whole while a field is assigned somewhere (it is copied,
  not shared), alternatives that bind, comparisons of tuples and structs and
  `*` of a value (the build fails), and runs that the interpreter ends at an
  assignment to what is not `mut`.

Two of them exclude a construct as such: `NeverStuck` and `InferredTypeHolds`
say nothing of a `try` with a handler, and `CapturesAreOuter` nothing of a
closure with a function or constant inside.  The others exclude combinations:
calls, loops, matches, closures, references and `?` are in the programs that
remain.

## Runs

| run | question | instance | result |
|---|---|---|---|
| `scheduler` | are tasks kept, bodies not restarted once they have a result, and channels in order, for every program? | 2 tasks, 1 channel, 2 values, 2 evaluations of a body, one try block or loop per body | holds |
| `disciplined` | do disciplined programs get what `Futures` promises, and does every task settle? | 3 tasks, 1 channel, 1 value | holds |
| `body_once` | is a body evaluated once? | 2 tasks, 1 channel | violated |
| `spawned_runs` | does a task that is never joined run? | 2 tasks, 1 channel | violated |
| `genuine_deadlock` | is a reported deadlock one? | 2 tasks, 2 channels | violated |
| `collections` | is ownership kept, and is the collection a dictionary? | 5 classes of keys, 5 insertions | holds |
| `ownership` | do the move checker and the lowering keep ownership together, and has the code of each program a certificate? | 2681 accepted programs of three families of loops, branches, matches and blocks, 158 of them straight | holds |
| `loop_reuse` | is a value moved in one round and used in the next caught? | one loop of at most two statements | violated |
| `arm_alias` | is a value dropped once? | one match for its value | violated |
| `editor` | are copies cleaned up, and does the editor agree with the checker after a check that nothing got in the way of? | 1 document, 2 edits, 2 checks at a time, any failures and overlaps | holds |
| `frontend` | do the passes of the compiler agree with each other and with the interpreter? | 11023 sources: 10 families of programs that are run, and the syntax; integers of 4 bits, 20 calls and rounds | holds, outside the exclusions above |
| `shared_temp` | do two documents stay apart? | 2 documents with one prefix, 2 edits, 2 checks at a time | violated |

Bounds.  Two tasks are enough for one body to run inside the recv of another
and to force it, and main is a third body; two values show a reordering; two
evaluations show a repeated body.  `MayRun` keeps one evaluation in reserve for
a queued task, so that the bound on evaluations never stops the scheduler
itself.  Five insertions pass the first growth (4 to 8) in a List and allow
every pattern of duplicates below it.  Two edits and two checks at a time are
enough for a check to overlap an older and a newer one of its document, for a
removal to take the copy a later check has just written, and for a failure in
any of them, in `onType` and `onSave` alike.  Documents with different prefixes
share no state, so one document stands for any number of them; two with the same
prefix are in `shared_temp`, and `EditorProofs` has no bound.

The programs of `MCDrops` are one compound statement (an `if`, any loop, a
nested loop with a jump, a block that may return, a match, a value out of a
branch or loop) between up to two simple statements and an optional tail; two
statements in a loop body are the least in which a move meets a use of the next
round in every order.  `MaxValues` = 9 is more than the values any of them has
at a time; an execution that needed more would stop, which TLC reports as a
deadlock.  Execution is not bounded: numbers of values nothing refers to are used
again, so loops run any number of rounds.

`MCFrontend` makes programs by putting every member of a set into every place of
a few frames, so that every construct is met in every place of every other.
The syntax (expressions two constructs deep around a name, patterns three deep,
types two deep, all pairs of 20 statements, declarations; in three layouts) is
only parsed.  The programs that run are: effects in every operand; two steps in
the body of every kind of loop; stores into every place; two steps while a
reference lives; closures and what happens between their making and their
call; `?`; two arms of a match, guarded or not; and every kind of value where
another is expected, most of which the type checker has to refuse; and programs
that compile: the effects, loops and matches again without what is printed,
recursion, tuples and structs; and structs of three fields with an enum among
their types, the fields every mix of one, two, four and eight bytes, tuples,
optionals, results and unions, which is enough for padding before, between and
after fields, in payloads and inside each other.  An effect is
one assignment, which is enough to tell two orders of evaluation apart.  Four bits
hold every number the programs use, with room to overflow (6 programs do); `Fuel`
is more than a program that ends needs, and 15 do not end.  Of the
programs the checker accepts, 1649 outside `Lenient` run to their end and 89 end
in an error: index out of bounds, division by zero, overflow, assignment to
what is immutable or behind a shared reference.  The back end makes a binary of
931 programs, 858 of them outside the exclusions of `CompiledAgrees`; it leaves
`main` out of 1037.

Fairness.  `Scheduler`: the interpreter takes its next step (weak fairness: it
is one thread that nothing preempts), and a body that can end again and again
ends (strong fairness: a program that never ends is not the scheduler's
failure).  `Editor`: timers expire and every process goes through its steps,
which the event loop and the ten-second timeout guarantee; `TimerFires` is
strongly fair because the bound on processes may disable it for a while.
`Collections` is a passive library and has none, and the properties of `Drops`
are all of safety.

## Findings

* `body_once`: `main` forces a task that is still in the ready queue; the task
  waits in `recv`, which takes the task itself from the queue, and `run_task`
  evaluates its body a second time; the comment says "once".
* `spawned_runs`: the drain loop stops at the first leftover task that fails,
  though every spawned task is to run.
* `genuine_deadlock`: a nested `recv` reports a deadlock when the queue is
  empty, although the recv suspended below it could go on.
* `loop_reuse`: `loop { if c { eat(x); continue }  x = ""; }` is accepted, and
  its second round uses the moved `x`.
* `arm_alias`: after `let y = match o { Some(v) => "", None => x };` both `x`
  and `y` are dropped, and hold one value.
* `shared_temp`: twelve bytes of a URI do not identify a document
  (`file:///home` is twelve bytes already).

Where the text of the repository says one thing and the code does another, met
in the front end (the exclusions above name what they lead to):

* a typed pattern is accepted in `while let` and refused in a match arm
  (`parser/expr.rs`), though the comment calls it valid only there, and the
  exhaustiveness check of a union asks for such arms;
* `brace_is_block` looks for a `:` before it looks for a `;`
  (`parser/stmt.rs`), so that a block with a typed `let` is read as a map;
* the type of a closure's last parameter goes on over the closing bar
  (`parser/expr.rs`);
* `&mut [T]` is accepted and means `&[T]`: the `mut` is read and dropped
  (`parser/types.rs`);
* a closure that uses a constant or function of its own captures it, where
  captures are to be what is bound outside (`hir.rs`);
* inference, called deliberately sound, accepts programs that stop with a type
  error: a function is looked up before a local of its name (`typeck/calls.rs`);
* the lexical borrow check "never accepts an unsound" program, but only follows
  references made by a `let` of a name (`borrowck/borrows.rs`).

The binary "must behave exactly like the interpreter" (`tests/differential.rs`),
but:

* `&&` and `||` evaluate both operands (`codegen/value.rs`);
* a variable is read when the operation around it is done: with `x = 1`,
  `x + { x = 3; x }` is 4 interpreted and 6 compiled (`mirgen.rs`);
* the initialisers of a struct are evaluated in the order of the declaration,
  and `let q = { p }` copies the struct `p` that the interpreter shares;
* an or-pattern binds one variable per alternative and the arm reads the last
  (`hir.rs`);
* only the interpreter refuses to assign to what is not `mut`
  (`interp/exprs.rs`);
* `==` of tuples and `*` of a value fail the build of the whole program, where
  unsupported functions are to be "cleanly skipped" (`codegen/support.rs`).

## Proofs

All are for every value of the constants, from the named assumptions
(`SchedulerAssumption`, `CollectionsAssumption`, `EditorAssumption`,
`NothingAssumption`, `MachineAssumption`) on them; a further hypothesis is named
where there is one.

`SchedulerProofs`.  `TypeCorrect` is inductive as it stands.  `ChannelsDeliver`
needs no more than types: a buffer holds the consecutive numbers after the last
one received.  `TasksKept` is the conjunction of `NoTaskLost`,
`ReadyInSpawnOrder` and `StackMatchesPhase`, which is inductive only together:
that no task is lost when the top body ends needs that main is the bottom frame
and only it, and a turn of the scheduler drops finished tasks only because the
ones in front of the runnable one are.  `ExitsComplete` follows from it;
`NilStaysFinal` and `QueueStaysInOrder` name the parts of these invariants that a
run checks, `StackTellsPhase` (main is the bottom frame, and only while it is
evaluated) the part that the others rest on.  `RestartsAreUnsettled` is what
holds of repeated evaluations in every program; its invariant (`Accounted`) is
that a task with an evaluation has a result, is on the stack, or was ended by a
signal.

Two theorems are the other side of findings.  `DeadlockLeavesNothing`: the report
of a deadlock may be premature for a suspended body (`genuine_deadlock`), but at
that moment every spawned task has finished, is suspended on the stack, or left
with an error or exit; no task that could start is given up.
`OnlyQueuedNeverRun`: a task that never ran is still in the queue (`Started`), so
that `SpawnedRuns` fails (`spawned_runs`) only when the drain loop stops early.

`DisciplinedProofs`.  The hypothesis is `Disciplined`, the class of programs run
`disciplined` checks; a program that awaits a queued task which waits in `recv`
is not in it, and the conclusions fail for it (`body_once`).  `EvaluatesOnce` is
not inductive: a body is evaluated once because a task with a frame is not run
again, which needs that the frames on the stack are the first evaluations of
different, spawned, unfinished tasks, and that a queued task that was started is
on the stack or finished (`FrameInv`).  That nothing starts such a task again
needs that a body inside a `recv` that gives others a turn has no queued task at
or below it on the stack (`WaitersCalm`), and that a signal which the top body
does not catch ends no task that is still queued (`SignalCaught`).  `MemoKept`
(`MemoStable`: the result of a finished task is never replaced) follows from the
same invariant and is not checked by a run; `SchedulerImplementsFutures` is the
refinement of `Futures`: the start of a body, a send and a settled memo are the
steps of the abstract specification, everything the stack and the queue do in
between is a stutter.

`CollectionsProofs`.  `OwnershipKept` needs, besides the types, that values not
yet moved in are in no slot, that a Map's keys have odd and its values even
numbers, and that only a Map uses the second buffer; `KeysStayUnique`,
`BuffersParallel` and `InsideAllocation` are part of the same inductive
invariant.  `ImplementsSpec` is the refinement of `Dictionary`: every insertion
maps to a `Put`, `Add` or `Extend` of the dictionary and every drop to a
`Clear`; that the scan of an update finds the slot the dictionary has the key
in is where the uniqueness of keys is used.

`EditorProofs`.  None of its theorems has a hypothesis: any number of documents,
with any names of temporary files, and any failures and overlaps.
`FilesAreRemoved` (`NoTempLeft`) is inductive once said of the states in between:
every temporary file has a process under way that is to remove it, or is one
whose last write or removal failed (`TempInv`).  `TimersOfOpenOnly`
(`TimersAreOfOpen`: only open documents have a timer) needs nothing else and is
not checked by a run.

`ShowsTheText` and `NeverGoesBack` state `Agreement` and `NeverOlder`.  Their
inductive invariant `Sound` follows the text on its way: revisions are ordered on
disk and in the buffer (`Ordered`); what is shown is of that document and no
newer than its text (`ShownSound`); a document that does not show its text yet
has a timer or a check, or its last check was one that something got in the way
of (`Answered`); and a check that nothing got in the way of is of an open
document, has neither a rival for the document nor another process on its file
(`Alone`), and will answer with a text no older than what is shown, which is the
text to be shown unless a timer will start another check (`Answers`).  What makes
this inductive is that the history is exact in one direction: whoever could
disturb such a check, by publishing for its document, by writing or removing its
file, or by closing the document, marks it in the same step.

`OwnershipProofs`.  `ValidStaysInside` (`TypeOK`): execution of a function the
validator accepts stays in its blocks, its statements and its slots, whatever
the branches, the callees and the values are, so that `build_block` and
`slots[i]` are never reached with an index out of range.  This is the
contract between `mirgen.rs` and the back end; that the lowering produces valid
functions is checked by TLC for the instance.

`ReadsAreOwned`, `DropsAreOwned`, `DropsGoInReverse`, `LetsStartAfresh`,
`NothingElseLeaks`, `UnreachableIsNot` and `StraightCodeLeaksNothing` state the
promises of `Ownership`, for any number of blocks, slots and values.  Their
hypothesis is `Certifiable`: every function that may run has a certificate.
That is a question about code alone; run `ownership` answers it for each of its
functions (`Certified`), so that for them the theorems hold whatever `MaxValues`
is.  Nothing has a certificate that breaks a promise: the programs of `loop_reuse`
and `arm_alias` have none.  The inductive invariant
(`KnowledgeHolds`) is that what the certificate says before the instruction
under execution is true (`Sound`): a slot with a root holds something the root's
value owns, roots own whole values, and no two of them own a value in common.
The last is what makes a drop or a call safe for everybody else: it frees what
one root owns.  For straight code the invariant says besides that every value
not freed is owned by a root (`Complete`), which is why a certificate of such
code must account for each root it gives up (`Accounts`).  A step is one lemma
per kind of instruction, `...Keeps` for what is known afterwards and `...Hands`
for who owns what was handed over.  What a value owns is a recursive function of
`MaxValues` rounds; that this is the least set closed under what is inside
(`ReachIs`) is where the lemmas of `Recursion` come in.

`SkippingProofs`.  For any finite call graph: `KeptCallOnlyKept` (a function that
is kept calls only functions that are defined and kept, or "the call would
reference an undefined symbol", `module.rs:20`), `SelfContainedKept` (functions
that can be translated and call only each other are kept: nothing is left out
without need), `OrderMakesNoDifference` (the code adds functions one at a time
and sees inside a pass what it has just added; whatever the order, it ends with
the set that `Skipped` computes in rounds) and `LoopEnds`.

`Recursion`.  Loops are written as recursive functions on numbers.  The induction
theorems of the library take the formula as an operator, which no prover here
can instantiate; `Induction` takes a set of numbers instead and follows from `<`
being well founded.  `LoopHasStates` says that such a function has a value for
every number of steps, `RoundsSettle` that rounds which only add to a finite set
change nothing after as many rounds as it has elements: one that adds nothing is
the last, and each other adds one element at least.

`LayoutProofs`.  `AggregateFits`, `ArraysFit`, `UnionsFit` and `EnumsFit`: for
any number of fields, elements, members or variants of any shapes, all of them
are aligned, inside and apart.  The only hypothesis is that what is laid out is
of `Shapes`: its alignment is 1, 2, 4 or 8 and divides its size, without which
the elements of an array would not be aligned.  Each theorem also says that the
result is of `Shapes` again, so that it can be nested in the next.  The loop over
the fields has its states by `LoopHasStates`.  `ScalarsApart`
is about whole types, which are trees: TLC checks it.

Model-checked only: the liveness properties (`EveryTaskSettles`,
`EditAnswered`), since fairness and `ENABLED` are out of the prover's reach; that
the lowering makes code that has a certificate (`Certified`); and everything that
walks over trees (`Moves`, `Lowering`, the modules that `Frontend` runs): their
operators are recursive over trees, and induction over data is out of its reach
too.

## Not modelled

* Of the layout (`typeck/layout.rs`): floats, slices and arrays of a written
  length (the types of the model have no lengths), sizes beyond 64 bits, the
  text of `la3 layout`.  A type that contains itself by value has no layout:
  `size_align` does not come back from it.  A `str` is 8 bytes there and 24 in
  the back end (`codegen.rs:66`), which leaves out the functions that hold one
  in an aggregate.
* Of the back end (`src/codegen/`): the LLVM module and its verification as such,
  `str` and calls of the runtime, enums, casts, and the linker; of `mir.rs`, the
  printer.
* The rest of the runtime (`runtime/src/`): strings, bytes, formatting, files,
  environment, mathematics.
* Of the language: strings and floats, maps and sets as values, user-defined
  enums, interfaces, generics, modules and imports, raw pointers, integers of
  several widths at a time.  The syntax of most of them is parsed by the model.
* Methods, closures and `try`/`catch` in `Moves` and `Lowering`.
* `main.rs` beyond the order of the passes, the rendering of diagnostics.

## Plan

Done: everything in the table of modules.

Left, in this order:

1. Methods, closures and `try`/`catch` in `Moves` and `Lowering`; use after move
   in the programs of `MCFrontend`.
2. Interfaces and user enums in `Types` and `Interpreter`.
3. `goto`, `if`, `switch` and `opt` in what `Accounts` asks, for a leak property of
   code with branches that is stronger than `LeaksOnlyMoved`.
