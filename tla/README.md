# okssystem: models, checks and proofs

okssystem wraps the operating system for the DAQ software in C++: programs and
processes, files, named pipes, mapped files, strings in a mapped file, users,
hosts and the environment. It has no server and no protocol of its own. What is
hard in it is what its callers cannot see: several threads launching programs at
once, signals in between, descriptors that children inherit, system calls that
fail half way, and memory another process reads while it is written.

## Inventory

| Component | State it keeps | Operations | Works with |
|---|---|---|---|
| Executable (`Executable.cpp`) | none of its own; in a call: saved signal mask, pipes, child | `start`, `start_and_forget`, `pipe_out`, `pipe_in`, `exec`, `okssystem` | Process (result, `join`), Descriptor (files of `pipe_out`), Environment (`pipe_in` with variables), the kernel |
| Process (`Process.cpp`) | pid, name, a singleton | `join`, `signal`, `exists`, `terminate`, `instance`, `set_name`, exit texts | the kernel |
| StringMemoryArea | abstract: an area and the end of its last string, in a file | `add`, `clear`, `insert` (string, vector, map), `get_string`, `get_vector`, `get_map` | usually a MapFile; readers in other processes |
| FIFOConnection | Descriptor pointer, `m_is_blocking` | `make`, `open_r/w/rw`, `close`, `read`, `send`, `read_message`, `send_message` | Descriptor, File, a pipe shared with other processes |
| MapFile | Descriptor pointer, address, `m_is_mapped` | `map`, `unmap`, `zero`, destructor | Descriptor |
| Descriptor | fd, name | constructor (open), `read`, `write`, `close`, `close_safe`, `closeOnExec`, destructor | File, the kernel |
| File | a path | tests, `directory`, `remove`, `rename`, `make_dir`, `make_path`, `make_fifo`, `permissions`, names, sizes | the file system, shared with other processes |
| User, Host, LocalHost | names, resolved once and remembered; a singleton | `name`, `name_safe`, `full_name`, ... | passwd, DNS |
| Environment, Path | none; a list of directories | `set`, `get`; `which`, parsing | the process, File |
| exceptions.hpp | declarations of the issues thrown | | all |

What is hard, by component (each item is a hazard in `PROJECT.json`, with its
line and the properties that watch it):

* **Executable.** Threads launch at the same time: the SIGCLD disposition is one
  for the process, a fork copies every descriptor of every thread, and the signal
  mask and handlers pass through fork and exec. Calls fail in the middle.
  `pipe_in` waits for its program before it reads. Correct means: no TERM or INT
  runs the application's handlers in a child, the caller has its mask back,
  programs can be signalled, the end of each is told to whoever waits for it,
  `pipe_in` returns all of the output of a success and none of a failure, and it
  returns.
* **StringMemoryArea.** Written character by character while another process
  reads; the writer may die. Correct means: strings end inside the area and never
  overlap, and a handle has its old string, nothing, or the beginning of the new
  one.
* **FIFOConnection.** Openers wait for each other, reads and writes wait or fail
  as the descriptor says, and several processes share the pipe. Correct means: no read overruns its buffer,
  descriptors are not leaked, nobody waits without need. (That a read gives one
  whole message, as the comments say, is not so; see below.)
* **MapFile, Descriptor.** Each call is two system calls, each of which may fail.
  Correct means: `is_mapped` is true exactly of a mapped file, no descriptor is
  closed twice or left.
* **File.** Every call looks before it acts, on a file system others share, and
  `remove` and `make_path` call themselves. Correct means: a remove stays in its
  tree and ends, processes with the same aim do not defeat each other, and what is
  made is there, with the permissions asked for.
* **Process, Environment.** An object is a pid, which the kernel uses again, and
  `terminate` is two system calls; `pipe_in` sets variables of the whole
  application one by one. Correct means: what is done to an object is done to the
  process it was made for, and a program sees the variables its launch was given.
* **User, Host.** Lookups remembered when they failed, in fields that threads share
  without a lock; singletons made without one. Correct means: the fields of a User
  are of one account entry, what `equals` says of two Hosts it says for good, and a
  name set on the current process stays.

## Modules

| Module | Models |
|---|---|
| `Executable` | launches by several threads, the children up to exec, the programs, `Process::join` |
| `CommandRun` | what `pipe_in` promises one caller; `Executable!PipeInRunsCommand` says it is kept |
| `StringMemoryArea` | one writer and one reader of an area, character by character |
| `StringStore` | what the area promises; `StringMemoryArea!StoresStrings` says it is kept |
| `FIFOConnection` | connections of several processes to one FIFO, with their Descriptors |
| `MapFile` | mapped files of one process, with their Descriptors |
| `FileTree` | processes that remove and make directories, paths and FIFOs in one tree |
| `StringCodec` | functions: vectors, maps and lists of directories as texts (StringMemoryArea, Path) |
| `FileText` | functions: names, depths and printed sizes (File) |
| `Environment` | the variables of the application, as `Environment::set` changes them |
| `Process` | the processes an application has launched, its Process objects, the environments they were launched in, and `User::setuid`; EXTENDS `Environment` |
| `Callers` | the calls of threads that share an object |
| `User`, `Host`, `Singleton` | what Users, Hosts and the current process remember; each EXTENDS `Callers` |
| `Names` | the three together: an application that uses one of them |
| `MCExecutable`, `MCProcess`, `MCNames`, `MCStringMemoryArea`, `MCFIFOConnection`, `MCMapFile`, `MCFileTree` | values for the constants |
| `MCTexts` | the inputs of `StringCodec` and `FileText`, each a state |
| `ExecutableProofs`, `StringMemoryAreaProofs`, `FIFOConnectionProofs`, `MapFileProofs`, `FileTreeProofs`, `ProcessProofs`, `NamesProofs`, `TextProofs` | the proofs |

**Executable.** `pc[t]` is the point thread t has reached in its call: before the
fork, in the parent before `pthread_sigmask`, before the closing of the write
ends, in `waitpid`, in `copy_fd`. `sigmask`, `old_set` and `child` are the
locals of the call and the mask of the thread, two values being enough: the mask
the application chose, and every signal blocked. `state[p]` is how far a child is
between fork, `signal(..., SIG_DFL)`, `pthread_sigmask`, exec and its end; `mask`,
`saved`, `handlers` and `cld` are its copies of what the fork copied. A pipe is a
count of what it holds; `heldBy[t]` are the processes with a copy of the write
ends of the pipes of t. Calls, forks and execs fail at will. `SendTerm` is
`Process::terminate`, or anybody's kill. Both overloads of `start`, `pipe_out`
and `pipe_in` behave alike here (their parameters and environments are data);
`okssystem` is `pipe_in` of a shell. The input pipe is kept for its descriptors:
the child gets its write end as standard input and nobody reads or writes it.
A Process (`handles`) stays when it has been joined, and may be joined again, by any
thread; what `start` and `start_and_forget` return are Processes. `told` is a
history variable: the children whose end a wait was told.
Simplifications: a pid is not reused; pipes left open by an earlier failed
`pipe_in` of the same thread are not tracked beyond the next call of `pipe_in`;
only TERM is modelled, and INT is treated alike. The code resets no other handlers
(216-217; SIGCLD in `start_and_forget`), so that other signals may run handlers of
the application in a child from its unmasking until exec; they are left out, and no
property or theorem speaks of them. `Interrupts` are the threads whose system calls
the application's signal handlers may interrupt.

**CommandRun.** A command is run at most once; the caller is answered with a text,
which is all the command wrote to standard output if it succeeded, or with an
exception and nothing of the output. When fork fails the answer is the empty text,
the same as that of a command that prints nothing: the caller cannot tell, and
neither does the specification. The exception has the status only, because lines
396-397 drop what came from standard error.

**Process, Environment.** Here a launch is one step, and what comes after it is the
subject. `state[p]` and `number[p]` are the kernel's table: a pid is free again when
its process is gone, and goes to any process that is born, a child or one of
another application (`Others`). An object is `[id, of]`: the pid, which is all the
code has, and the process it was made for, which only the properties look at.
`waitpid` looks its pid up when it is called and then waits for that process, as
the kernel does. A thread is in `pipe_in` at `"set"` until the map of variables is
through, one `setenv` a step, in the order of the keys; `shaken[t]` are the
variables that other threads have set after it. `start_with` is each launch that
passes an environment to `execve`: `start` and `pipe_out` with variables.
`Usages` are what applications do, so that a run need not mix everything with
everything.

**User, Host, Singleton.** `call[t]` is the call of t on the object it shares with
other threads, and `found[t]` what the system has answered it. In `User` each of the
three assignments of `resolve` is a step; in `Host` the look at `m_full_name`, the
two lookups and the assignment are; in `Singleton` the look at `s_instance` and the
assignments are. `entry` and `dns` count the contents that the account and the
machine have had, and a text of the n-th is n. A failed `getaddrinfo` and one that
answers with an IPv6 address first have the same effect, because `resolve` reads
whatever comes first as an IPv4 address and finds 0.0.0.0 in it. The `LocalHost` is
the `Singleton` in how it is made, and a `Host` in what it remembers.
Simplifications: the assignment of a string is atomic (in the code it is a data
race, as any concurrent use of these mutable fields is; what the properties say holds
of what remains when strings are not torn); all Users name one account, and all
Hosts one machine. The history variables `overlapped`, `crossed` and `lastName` say
which objects two threads have resolved, expanded or made at a time: each of the
three properties fails without them.

**StringMemoryArea.** `data`, `last` and `offset` lie in the file and survive
`Crash`; the rest is the writer's and the reader's progress. Every character
`clear` and `strcpy` write is a step of its own, in the order of a simple loop.
The area has the cells 0 to `Size`, because the range check of `add` lets the
final NUL fall on `string_area_size()` itself: the subclass that provides the area
must count so. A handle is the variable whose address `insert(offset_t*, ...)`
gets. There is one writer, since nothing in the code could keep two apart.

**FIFOConnection.** A message is its length, and a pipe is the number of bytes in
it: the code does not see where one message ends and the next begins, and no
property is about it. Opening is two steps when it must wait. The kernel's side
(who waits for whom, end of file, EAGAIN, EPIPE) is in the operators of "The
kernel's side" and in the guards. The sleeping retry of `read` changes nothing
and is no step. SIGPIPE is assumed ignored, as in any program that wants the
`WriteIssue` the code provides. Messages are at most `MAX_MESSAGE_LEN` bytes, far
below `PIPE_BUF`: a write is all or nothing.

**MapFile.** The kernel hands out free numbers again and again:
descriptors and addresses are small sets, and which object a number stands for is
kept apart (`fdOf`, `memoryOf`) from what the objects believe. The owner maps a
file that is not mapped and unmaps one that is, or one whose `map` threw; other
orders break the documented use.

**FileTree.** The tree is a set of paths, each with the directory it lies in
(`Up`) and, if it may be a link, the path that leads to (`Target`); `kind` and
`mode` say what each path holds. `stack[p]` has one frame for each call of
`remove` or `make_path` that has not returned: the path (`m_full_name`), the
permissions, the place in the code before the next system call, and the children
`remove` has still to look at. One step is one system call, with the copying of a
File and its `realpath` (`set_name`) done in the step that needs the name. Reading
a directory is one step, and its entries come in any order. Permissions are those
of the owner, who is the caller, and those of the others, which the umask takes
away; a directory can be searched and written when its owner's bits are set. A
stack holds `MaxDepth` frames, and one more ends the process: real stacks are
deeper, and nothing but a link that leads up needs more frames than the tree is
deep. Every process makes one call; a second call of one process is the call of
a process that begins later. The history variables `removed`, `fit` and `harm`
say what a call has deleted, whether the tree suited it, and what others have done
since. Not modelled: `rename`, links made during a run, hard links, and failures
of the disk.

**StringCodec, FileText.** Pure functions of the code as operators on sequences of
characters; loops over `find` and `substr` are recursive functions. A
list of directories is read back as the Files made of its names (`Canonical`, a
constant: the working directory or home in front, links resolved), so that full
names are read back as they were.
`pretty_size` gives the amount it prints for each unit. The properties say what a
caller relies on: what is written is read back, with the exceptions the code makes
(empty strings of vectors go, a value of a map may hold the separator after its
key), a path is its parent and its short name, and the amounts printed are the
size. Three limits of the code are part of the properties. A size of one byte, or
one byte above whole kilobytes, is printed without that byte, because a unit is
printed only if more than one is left. The url that `operator<<` writes has a slash
more than `file:` and the path, so that `depth` of it is one too many. The amount of each
unit is kept in an `int` (`AsInt`), so that a size of 2^61 bytes or more, whose
gigabytes do not fit in it, is printed wrongly; `SizesAddUp` leaves such sizes out,
and the run goes past the first of them.

## Runs

| Run | Asks | Bounds |
|---|---|---|
| `launch_signals` | masks, handlers, SIGCLD, who is told the end of a process | 2 threads, 2 processes, `start`, `start_and_forget`, `pipe_out` |
| `launch_pipes` | `pipe_in`: output, descriptors, refinement of CommandRun; does it end, does TERM end a process | 2 threads, one of them interrupted, 2 processes, outputs of 0 or 1 and of 0 or 2, pipe of 1 |
| `processes` | objects and pids, `terminate`, environments | 2 threads, 2 processes, 2 pids, 2 variables with 2 values, 2 usages |
| `names` | Users, Hosts and the current process shared by threads | 2 threads, 2 Users, 2 Hosts, 2 names of the process, 2 entries, 2 DNS names |
| `string_area` | overlap, ends, readers, refinement of StringStore | 2 handles, cells 0..7, strings of 0, 1, 2, 3 characters |
| `fifo` | buffers, descriptors, waiting | 2 connections, buffer of 3, messages of 1 and 3 |
| `map_files` | `is_mapped`, descriptors, memory | 3 files, 2 descriptors, 3 addresses |
| `tree_calls` | what removes delete, who makes whom throw, permissions, ends of calls | 2 processes with one call each, 7 paths, 23 trees, 10 calls, stacks of 4 |
| `texts` | are vectors, maps, paths and sizes what they were | vectors of 3 and maps of 2 strings over 3 characters, both separators among them; paths of 3 entries; sizes to 800 with units of 3 and an `int` of at most 27 |
| `pipe_in_blocks`, `fifo_sticky`, `tree_links` | statements of the comments that the code does not keep | as small as shows it |

Why the bounds are enough: two threads with two processes give every pair of
launches, the inheritance of one's descriptors by the other's child, and a second
launch on a thread that went through a failed one. Two handles are what overlap
takes, and with seven cells both can be refused, replaced in place and appended.
Strings of three characters fit, just fit, and do not fit where shorter ones were.
A message of 3 is longer than a read of 2 takes and fills the pipe; one of 1
leaves room for others. Three files over two descriptors exhaust and reuse them.
Two processes that remove and make the same three levels meet in every step of
each other's calls. Two pids for two processes let one be used again; two variables
are what it takes to launch a program between them. Two Users let one be a copy of
the other; a directory with two files is what two removes need to delete
from under each other, three levels are a `make_path` that calls itself twice, and
a stack of four is one more than the tree is deep. In `texts` a string is empty, a
separator, has one inside or at an end; the largest unit is 27 and the largest `int`
too, so that up to 800 each amount is 0, 1, more, at the limit of the next unit, and
that of the largest unit, from 756 on, too large to keep.
`Threads`, `Pids`, `Handles`, `Connections`, `Files`, `Fds` and `Addresses` are
interchangeable and reduced by symmetry where no liveness is checked. All but
`string_area` leave deadlock unchecked: launches are bounded by `Pids`, a
connection may wait for one that never comes, a process may abort.

One thing the comments leave open and the models show is no run of its own:
`pipe_in` also waits for programs that other threads launched meanwhile and that
inherited its pipes (`PipeInReturnsUnlessStuck` holds with them).

What the violations show:

* `pipe_in_blocks`: a program whose output fills a pipe never ends, and `pipe_in`
  never returns (`join` comes before `copy_fd`).
* `fifo_sticky`: `m_is_blocking` is never set back to true.
* `tree_links`: `remove` of a directory that holds a symbolic link deletes what
  the link leads to, and not the link, because every copy of a File is resolved by
  `realpath`. A link that leads up makes `remove` call itself until the stack is
  full.

In other places the code does not do what its comments say, no run shows it, and the
models have what the code does:

* The comment of `pipe_in` (`Executable.cpp:406-416`) promises the content of
  standard error in the exception, ExecFail when exec fails and PipeIssue when pipe
  does. The exception has the status alone; a failed exec is a child that ended with
  a status, so ExecutionIssue; a failed pipe throws OksSystemCallIssue. A failed fork
  throws nothing: the empty string is returned (403).
* The comments of `read_message` and `read` (`FIFOConnection.cpp:44`, 96) say that
  they read a single message, of at most `MAX_MESSAGE_LEN`-1 bytes (46, 98). A read
  takes what is in the pipe, several messages as one text; and `send_message` and
  `send` accept a message of `MAX_MESSAGE_LEN` bytes, which a read cuts.
* The comment of `join` (`Process.cpp:140`) promises the status of a process that
  terminates normally. A join also throws when a handler interrupts it, when another
  join was told, or when SIGCLD is ignored (`EndsAreTold` lists these).

Other properties exclude, by name, what the code gets wrong in the same way:

* `MaskRestored`: a `pipe_out` that cannot open a file throws with every signal of
  the thread still blocked (`Executable.cpp:433`); `ProgramsTakeSignals` says that
  this reaches the programs the thread launches afterwards and nothing else does.
* `MappedMeansMapped`: `unmap` after a failed `map` fails in `munmap`, and line 109
  of `MapFile.cpp` sets `m_is_mapped` to true.
* `TerminateReaches`: the comment of `exists` says "in case of failure, we know
  process does not exist" (`Process.cpp:185-186`); a process of another user fails
  with EPERM, and `terminate` then returns without having signalled it.
* `ActsOnTheMeant`: a Process whose process has been waited for, or may be gone
  because SIGCLD is ignored, acts on whichever process has its number.
* `EndsAreTold`: `start_and_forget` makes the application ignore SIGCLD for good, and
  the ends of all its children are then lost to their joins.
* `DescriptorsOwn`: a `close` that fails leaves the number with the object, which
  closes it again.
* `FieldsOfOneLookup`: after `name_safe` has failed, `name` returns "unknown" and
  does not throw; and two calls that resolve one User at a time may mix two entries.
* `EqualsForGood`: two calls that expand one Host at a time may store two names; a
  failure that was stored differs for good.
* `NameKept`: two threads that both find no current process make two.
* `PathsNeverCollide`, `MadeAsAsked`: `make_dir` returns as if it had succeeded when
  something that is not a directory has the name. `SomebodySucceeds`: `is_directory`
  takes a socket or a block device (`"socket"` in the model) for a directory.
* No property catches a string area of just `string_area_size()` bytes, which the
  inclusive checks overrun by the final NUL: the model's area has one cell more.
* Comments of `Host.cpp` name answers the code does not give: `full_name` returns
  the short name and not "0.0.0.0" (158), `resolve` of an address the dotted address
  and not an empty string (50).

## Fairness

Weak fairness stands for the scheduler: a thread in a call, a child before exec
and a FIFO process in a call go on when they can. Programs are assumed to end
(`ProgramStep`), and the kernel to deliver signals. No call has to be made, nothing
has to fail or be interrupted, and nobody has to send a signal. In `copy_fd`
fairness is asked for only when the pipes are at their end. In `FileTree` a call
that has begun goes on; no process has to call.

## Proofs

TLAPS proves, for every value of the constants that meets the assumptions, the
type invariants of six state machines and every safety property of the passing runs
of all seven; for all inputs, what the runs say of the functions on texts; and that `StringMemoryArea` implements `StringStore` and each
thread's calls of `pipe_in` implement `CommandRun`. The arguments:

* `ExecutableProofs`: the invariant says which mask, saved mask, handlers and
  SIGCLD a thread and a child have at each point. `MaskRestored` alone is not
  inductive: that `old_set` is the application's own mask must be known at the
  fork, and that a child's saved mask is its thread's, unless a `pipe_out` failed.
  Of `pipe_in`: a call's child is its own (no two calls share a process), a pipe
  holds what its program wrote and nobody has read, so that what is read at the end
  of a success is everything. On this rests the refinement, where each step of a call
  is a step of `CommandRun` or a stutter and the steps of other threads are stutters
  (what a call shows of its command is its own child's), and `LeaksOnlyOnFailure`,
  whose invariant says that a call waits only with its write ends closed and ends
  with a descriptor open only in pipe, fork or join. `ToldInv` (`EndsAreTold`, and
  that only children that are gone were told) is inductive since no step takes a child
  away but a wait for it or, when SIGCLD is ignored, the kernel.
* `StringMemoryAreaProofs`: after the last string all is NUL but for what `add` has
  copied; a NUL stands before each string; `clear` and `strcpy` stay between the
  start of a string and its NUL. For the refinement: at each point of an insert,
  what the handle's string is in terms of the text and the count; each step is then
  one of the store or a stutter.
* `FIFOConnectionProofs`: a call holds its descriptor from its opening to its
  closing, a connection that waits to be open holds its own for one side.
* `MapFileProofs`: an object in `map_mem` or `close_fd` holds its descriptor, and
  has unmapped its memory in the latter.
* `ProcessProofs`: two processes that exist have two pids (`NumbersInv`), every
  object is that of a child (`ObjectsInv`), and a child is gone only because it was
  waited for or SIGCLD is ignored (`GoneInv`); so an object that acts on another
  process is that of one that is gone. `SetInv` says that what `pipe_in` has set
  stays set until another thread sets it, which is what the fork then promises.
* `FileTreeProofs`: every frame of a stack, and every child it has still to look
  at, lies within `Reach` of the call, which is closed under what a directory holds
  and where a link leads; no frame of `make_path` gets above the root. For
  `PathsNeverCollide`: unless others take something away or shut it, every path on
  the way to that of the call is free or a directory open to its owner (`Way`), every
  frame but the innermost is about to make the directory that the next one's lies in
  (`Chain`), and once a frame has its father all above it are directories (`Reached`);
  so every `stat` after a refused `mkdir` finds a directory. It rests on
  `PathAssumption`, that no path lies above itself: the rights asked for the last
  directory may shut it, those of its fathers never do.
  For `RecursionEnds`: of the frames of a stack each works on a path that lies in the
  one of the frame that called it (`remove`) or holds it (`make_path`), and so on
  outwards (`NestInv`). The paths are thus all different and, but for one, lie above
  the deepest, so that there are no more of them than the depth of the tree. For a
  `remove` this needs that there is no link in its tree, and that nobody makes one
  (no call does); `tree_links` shows what links do. It rests on `RoomAssumption`,
  that the stack holds a frame for each directory on the longest path: the kernel
  bounds paths (PATH_MAX), and the code relies on the same.
  For `SomebodySucceeds`: a frame of a `remove` knows what its path was, and what was
  in it when it was listed, and both can only have gone since (`Knows`); a process is
  alive when the path its innermost frame works on is still there (`Alive`), since
  then no step of its own can fail. The one that deletes something is alive
  afterwards: the directory it goes back to is there, for what it deleted was in it.
  All others may have lost what they work on, so "somebody is running" alone is not
  inductive. For a FIFO: whoever comes to `mkfifo` while there is none will make it,
  and whoever finds it will return (`FifoInv`).
  For `MadeAsAsked`: while others remove nothing and take no name, what the innermost
  frame has found or made is there (`MadeInv`); that nobody shut the way is `PathInv`,
  and that the frame works on the path of the call when it returns is `NestInv`.
* `NamesProofs`: for each kind of object, what a call has put into it so far at each
  point, for the objects that no second call was filling in at the time.

* `TextProofs`: what the recursive functions compute, for every vector, map, list of
  directories, name and size. The library's induction theorems cannot be used (they
  take an operator as a parameter), so induction is over sets of numbers: a set of
  naturals has a least element (`LeastNumber`, from the library's well-foundedness of
  the order), and from it follow `Induction` and `Recursion`, that a function whose
  value depends only on values of lower rank exists. `Layout` says where each string
  begins in the text that joins them; since no string holds the separator, cutting at
  separators finds just those places, and what is cut is what was joined
  (`PiecesOfJoin`). For a map, every entry is cut at its first separator, which is the
  one after its key, and the keys are different, so that none is overwritten
  (`EntryIsRead`). For names, putting an entry below a directory adds one slash. For
  sizes, what a unit leaves is at most that unit, whether it is printed or not, so that
  every amount but that of the largest is at most a kilobyte, which an `int` holds. The four theorems `All...`
  quantify over all inputs; those of the specification follow because its inputs are
  among them. They rest on the separators being different characters and not in
  the protocol, and on a kilobyte being more than one byte and the largest unit, which
  `unit` returns as an `int`, fitting in one.

Only model-checked: liveness (`PipeInReturnsUnlessStuck`, `TermEnds`,
`NonBlockingReturns`, `SendersServed`, `CallsEnd`), which the prover cannot do.

## Not modelled, and the plan

Left of the components that are modelled in part:

* `Executable`: `exec` in the caller itself, which replaces the application.
* `Process`: the texts of exit statuses, which are tables; `signal` with other
  signals than TERM, and `exists` for its own sake.
* `File`: `rename`, the working directory and `file_type`; `Path`: `which`, a loop
  over `exists`.
* `Descriptor`: the race of `exists`, `open` and `fchmod` in its constructor, flags
  and `closeOnExec`.
* `Host`: `ip`, and the names of the operating system, which are read once and never
  change.
* Two writers of one `StringMemoryArea`, and `unmap` of a file that is not mapped:
  the code leaves both to its users, and the second is undefined.

Proofs left: an abstract
specification of a tree that processes make and remove, which `FileTree` implements
where no call is disturbed, is the next refinement worth stating.

Out of scope: the text of messages and issues, the tables of exit codes, the test
program, and stream constructors, which have no state to get wrong.
