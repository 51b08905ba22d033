# A TLA+ model of LXOS

LXOS is a small 32-bit operating system in the manner of xv6: a boot loader, a
kernel with one process, an IDE driver, a block cache, a file system, `exec`,
about ten system calls, and a command line that runs inside the keyboard's
interrupt handler.  This directory models the parts of it that keep state.
TLC checks them on small instances; TLAPS proves the safety properties of seven
of the modules for every size.

The repository has no documentation of its own.  What the code promises is
taken from its comments, its declarations and the test in `user/init.c`.

## 1. Inventory

Component | State | Operations | Correct when
--- | --- | --- | ---
Buffer cache (`fs/bio.c`) | 30 `struct buf` with flags, block number, reference count, data; a list in order of last use | `binit bget bread bwrite brelse` | one buffer per block; a buffer in use agrees with the disk; never out of buffers
Disk file system (`fs/fs.c`) | superblock, bitmap, dinodes, data blocks; copies of inodes in `icache` | `balloc bzero ialloc iupdate bmap readi writei dirlookup dirlink itrunc` | the disk is consistent after a stop between any two writes; no block in two files
Inode cache, open files, descriptors (`fs/fs.c`, `fs/file.c`, `kernel/calls.c`) | `icache`, `ftable`, `ofile`, `cwd`, with reference counts | `iget idup iput namex create filealloc fileclose fileread filewrite open mknod read write close exit` | counts exact on every path; open opens what the path denotes; offsets stay in files
Memory (`kernel/kalloc.c`, `kernel/vm.c`) | free list, page directories, tables, pages | `kalloc kfree setupkvm mappages allocuvm deallocuvm loaduvm clearpteu freevm` | no page shared, freed twice or lost, also when memory runs out
`exec` (`kernel/exec.c`) | two address spaces | one long function with many failing paths | the old image or a complete new one
Disk driver (`drivers/ide.c`) | request queue, controller | `iderw idestart ideint_callback` | every request served once, in order; the caller gets its data
Command line (`kernel/sh.c`, `drivers/keyboard.c`) | key buffer, capslock | `keyboard_callback user_input` | commands return; the screen shows the line that is typed
Screen (`drivers/screen.c`) | cursor registers, video memory | `kprint kputchar print_char kprint_backspace clear_screen` | the cursor stays on the screen, at the end of the text
Interrupts (`cpu/isr.c`, `cpu/idt.c`, `cpu/interrupt.asm`, `cpu/timer.c`) | gates, handler table, interrupt controllers, trap frames on the kernel stack | the stubs, `trap_handler irq_handler trapret timer_callback` | every interrupt acknowledged once; registers come back; the stack stays bounded; nothing waits for an interrupt that is off
System calls (`kernel/syscall.c`) | `curproc->tf` | `syscall dispatcher getint getstr argint argptr argstr` | the kernel touches only the process; a result goes to the call's own frame
Processes (`kernel/proc.c`) | one `struct proc` | `allocproc uinit scheduler forkret exit` | the process gets its state before it runs
Image builder (`utils/mkfs.c`) | the image file | `inoalloc iappend balloc main` | the image is consistent and holds the files
Boot loader (`boot/start.c`) | memory, the header of the kernel | `bootmain readseg readsect` | the kernel is in memory when it is entered
String library, user programs | none, or none that lasts | | see section 6

How they interact.  A system call enters through a trap gate, so the kernel
stays interruptible while it runs; the keyboard, timer and disk enter through
interrupt gates and run with interrupts off.  Every trap pushes a frame on the
kernel stack and ends in `trapret`; `curproc->tf` points to the frame of the
system call.  The kernel thread and the keyboard's handler also share the screen
and its two cursor registers.  There is one process and no preemption, so the
only concurrency is: the kernel thread, the controller, the disk's handler, the
keyboard's handler, the timer's.  `fs.c` calls `bio.c` calls `iderw`,
which spins until the disk's handler has set the flags of its buffer.  The
keyboard's handler calls the command line, which for two commands calls
`iderw` as well.  `exec` uses the inode cache, the memory allocator and, through
`readi`, the buffer cache.

What is hard: the order of writes to the disk against a stop of the machine
(there is no log); requests of two callers on one queue without a lock; failing
in the middle of `exec`, `open`, `create`; resources that run out (blocks,
inodes, buffers, pages, entries of tables), where xv6's `panic` became a
message after which the code goes on; arithmetic on sizes and addresses given
by a program file.

## 2. Modules

Module | Models | State and actions
--- | --- | ---
`BlockStore` | what a block cache promises | latest contents of blocks; read, write
`Bio` | `fs/bio.c` | the fields of each `struct buf`, the position of each on the list, `held` for the callers' handles, the disk. Actions `bread`, `bwrite`, `brelse`; `bget` is an operator in `bread`, as in the code. A store into `data` and the `bwrite` that follows it are one action: no caller separates them.
`BioProof` | | theorems about `Bio`
`FileStore` | what the disk promises across crashes | files as sequences of cells, one write request; `broken` once nothing is promised any more
`Fs` | `fs/fs.c` below the system calls, `create` | bitmap, dinodes, data blocks, copies of inodes. Every `bwrite` is an action of its own, `Crash` may come between any two. By `Bio` a `bread` returns the latest `bwrite`, so the cache itself is not repeated here.
`FsProof` | | theorems about `Fs`, and that it implements `FileStore`
`FdTable` | what descriptors promise | inode, offset and rights of each descriptor
`FileTable` | `icache`, `ftable`, `ofile`, `cwd` and the system calls on them | one action per function that takes or gives back references: each turn of `namex`, `create`, the end of `sys_open`, each turn of `filewrite` and of `exit`. `Wild` stands for following a null pointer.
`FileTableProof` | | theorems about `FileTable`, and that it implements `FdTable`
`Vm` | `kalloc.c`, `vm.c`, `exec.c` | free list as a count for each page, two address spaces, the locals of `exec`. One action per turn of a loop that calls `kalloc` or `kfree`, so memory may run out at each.
`VmProof` | | theorems about `Vm`
`Ide` | `drivers/ide.c`, the two disk commands of `kernel/sh.c` | the buffers of the two callers, the queue with its `qnext` pointers, the controller. `iderw` is four kinds of steps: `walk` (per turn), `link`, `kick`, `return`, because interrupts are on while the kernel thread executes it. `ideint_callback` is one step, with interrupts off.
`IdeProof` | | theorems about `Ide`
`Console` | `drivers/screen.c`, `drivers/keyboard.c`, `kernel/sh.c` without the disk commands | video memory, index and cursor registers, key buffer. The kernel thread prints with interrupts on: each access to a port is a step, and so is the update of the video memory. A key is one step: its handler runs with interrupts off.
`ConsoleProof` | | theorems about `Console`
`SyscallArgs` | `getint`, `getstr`, `argint`, `argptr`, `argstr` of `kernel/syscall.c`; what each call of `kernel/calls.c` fetches | operators on machine words modulo `WORD`; no state
`Trap` | `cpu/isr.c`, `cpu/idt.c`, `cpu/interrupt.asm`, `cpu/timer.c`, the dispatch in `kernel/syscall.c`, `uinit` to `forkret` in `kernel/proc.c` | registers, trap frames, `curproc->tf`, the two interrupt controllers, the locals of the call. One action per stretch of code that an interrupt can come before: each end-of-interrupt command, the dispatch, each argument, each wait for the disk. `touched` is what the last step read or wrote on the program's behalf.
`TrapProof` | | theorems about `SyscallArgs` and `Trap`
`Mkfs` | `utils/mkfs.c` | the image as the disk of `Fs` (`F == INSTANCE Fs`), `freeinode`, `freeblock`, the loops of `main` and `iappend`, one action per turn
`Boot` | `boot/start.c` | memory as the origin of each byte, the locals of `bootmain` and `readseg`; one action per sector
`BootProof` | | theorem about `Boot`
`MC...` | | small instances for TLC

Definitions that start with `Bad` are faulty variants of the definition that
follows them.  They are not part of any specification: substituted for it they
must break the property they are listed with in `PROJECT.json`.

Choices of abstraction.  Block contents are values; in `Fs` a block is a few
cells, a cell is a byte, a directory entry or an address.  Names are strings
compared as a whole, a path is a sequence of names (`skipelem` is its head and
tail).  In `FileTable` sizes count directory entries.  In `Vm` bytes matter only
through sizes: addresses are machine words modulo `WORD`, so that
`vaddr + memsz` can wrap.  The order of the free list is left out.  In `Ide` the
status polling of `idewait` is the guard that the controller is not busy.  In
`Console` offsets count cells, a part of a message is one character, and a
letter is a key with the state of capslock; `BYTE` is the number of values of a
cursor register.  In `Trap` the general registers are one value (`eax`), the
program's words are any words, and a call does in its body what the other
modules say; here it only waits for the disk and ends.  In `Boot` a byte is where
in the kernel's file it comes from, which is all that loading can get wrong.

How the modules fit together.  `Fs` takes from `Bio` that a `bread` returns the
latest `bwrite`; `Bio` takes from `Ide` that `iderw` returns with buffer and block
in agreement; `Ide` takes from `Trap` that handlers run with interrupts off and
calls with interrupts on, and `Trap` from `Ide` that a disk command of the
keyboard's handler spins; `SyscallArgs` takes from `Vm` that every address below
`sz` is mapped (`Backed`, `ImageComplete`); and the initial state of `Fs` is
shown to be an image of `Mkfs` (`EmptyImageIsInit`).

Undefined behaviour.  In `FileTable` a null pointer that is followed ends the
behaviour (`Wild`).  In `Fs` there are three cases, and all end in
`pc = "fault"`, after which nothing is promised and nothing is booted again:

* the indirect block of a file could not be allocated (`garbage`).  `bmap` goes
  on with `bread(-1)`, whose buffer holds old words, or the cells that another
  file lost to a direct slot of -1 (`fs/fs.c:291-300`).  If the word in the place
  of the entry is 0 or too large, the cells are lost as on any full disk; this
  is a case of `writeBlock`.  If it names a block, `writei` writes over it:
  `garbage` puts the cells over any data block, or changes the bitmap or an inode;
* a directory block has no address, and `dirlookup` and `dirlink` read old words
  (`create`);
* no inode is free, and `create` goes on with a null pointer.

The properties of `Fs` are about the states before (`Sane`), and `FileStore` says
when the store can break at all: only on a full disk or without a free inode.
The data of a `struct buf` that `TESTIDER` leaves
uninitialised is any value.

## 3. What the runs check

Run | Instance | Shows
--- | --- | ---
`bio` | 3 buffers, 4 blocks, 2 contents, at most 2 held | `Coherent` (with `NoAlias`), `Bookkeeping` (types, reference counts, list), `NeverOutOfBuffers`; `Bio` implements `BlockStore`
`fs` | 4 data blocks, files of 1 direct block and 1 entry in an indirect block, 2 cells per block, 2 names, 3 inodes, 1 crash | bitmap, addresses, directory and sizes are consistent on the disk in every state; dropping a copy of an inode between calls loses nothing; the disk implements `FileStore`, so other files are damaged only after a wild number was followed, and that only on a full disk or without a free inode
`vm` | 11 pages, pages of 2 bytes, tables of 2 entries, words modulo 13, 2 segments with any address and sizes | pages are exclusive, never freed twice (`PageInv`), never lost; the image of the process is complete; `exec` returns
`ide` | 2 blocks, 2 contents, both commands, read errors | the queue is exact, the disk serves its head, `iderw` returns in sync to the kernel thread
`file_table` | 4 entries of `icache`, 3 files, 2 descriptors, 4 paths | reference counts, one entry per inode, `open` opens what the path denotes, no null pointer
`file_calls` | 3 entries, 2 descriptors, all modes, both devices, `read`, `write`, `exit` | descriptors implement `FdTable`, offsets stay in files and directories are not writable (`DescriptorsValid`), every call on a path or a file returns (`CallsReturn`)
`console` | 2 rows of 2 cells, registers of 3 values, 3 keys, programs that print words, new lines and backspaces | the letters on the screen are those of the key buffer; only a key between two accesses that belong together loses the cursor; it comes back
`trap` | a process of 2 or 6 bytes, words modulo 12, ints of 2 bytes, 5 call numbers, any stack pointer and arguments, 1 wait per call, 2 interrupts of timer, keyboard or line 12 besides the disk's | `AckedWhenEnabled`, `StackBounded`, `TouchesInside`, `ReturnsIntact`; `SyscallEnds` and `InterruptsServed`
`mkfs` | up to 3 files of up to 10 cells, blocks of 3 cells, 1 direct slot, 2 indirect, 10 blocks | the image is consistent (`ImageConsistent`) and holds the files; the empty one is the initial state of `Fs`
`boot` | up to 2 program headers, sectors of 2 bytes, 14 bytes of memory | `KernelLoaded`
`fs_lost`, `ide_hang` | | disagreements, section 5

Why the bounds are enough to meet the interesting cases.

* `bio`: fewer buffers than blocks forces recycling; `fs.c` never holds more
  than two buffers (the indirect block across `balloc` in `bmap`, or across
  `bfree` in `itrunc`), so `MaxHeld = 2` is the bound of the code, and the third
  buffer is the one `bget` must find.
* `fs`: two blocks per file pass through the direct slot, the allocation of the
  indirect block and the allocation through it; writes of two cells start and
  end inside a block; two files, the directory and leaked blocks fill the disk,
  so `balloc` fails in every one of its three callers; one crash at any step is
  followed by any further calls.  The two contents of a cell are symmetric: cells
  are copied and never looked into.  With `RootEntries = 1` the directory grows by
  a block of its own.
* `vm`: the initial state leaves any number of free pages, so every `kalloc` is
  the one that fails in some behaviour; four user pages in two tables make
  `allocuvm` cross a table; segments may overlap, lie below one another, wrap,
  or reach the kernel's addresses.
* `console`: registers of three values can hold positions behind the screen of
  four cells, and neighbouring cells differ in both registers, as on the
  machine; three keys are capslock, a letter and return, so that each command is
  reached, or two keys that hit two different accesses of one print.
* `ide`: one request of each caller is all there can be, since both wait.
* `file_table`: `icache` has `NOFILE + 2` entries, the least that works (open
  files, working directory, the inode `namex` takes before it gives the last
  one back); the code has 50 entries for 16 descriptors.  `file_calls` has one
  less, which suffices for its paths, and lets descriptors share an inode.

* `trap`: six bytes hold three ints, so that a return address and two arguments
  fit and a third does not; with two bytes nothing fits.  The word is twice
  `KERNBASE`, as on the machine, so sums wrap and sizes are negative.  The calls
  are an unknown one, `exec` (string, `argv`), `mknod` (string and ints), `write`
  (descriptor, size, pointer) and `fstat` (pointer of fixed size): every kind of
  argument.  `forkret` waits for the disk once and each call may; two further
  interrupts meet the disk's in every order, nest in calls, and come while a
  program faults.  Line 12 has no handler.
* `mkfs`: with `.` and `..` one file fills the directory's block exactly, two take
  it into the indirect block; the longest file runs into the assertion, several
  files into the end of the image.
* `boot`: segments begin and end at every position of a sector, with and without
  bytes to clear, next to the header and to one another.

`CHECK_DEADLOCK FALSE` appears where the program may stop for good: `Fs` after
undefined behaviour, `Ide` when the keyboard handler spins for ever,
`FileTable` after `exit` when the null working directory is followed, `Console`
after `END`, `Trap` when an exception or an unknown interrupt ends in the loop of
`irq_handler`, `Mkfs` and `Boot` when they are done.

Fairness.  `Vm` and `FileTable`: weak fairness of the kernel's own steps; there
is no preemption, so the processor goes on executing the system call.  `Ide`:
weak fairness of each caller's steps (a caller that may run does), of the
controller (the disk ends a command it accepted), and of the disk's handler
while interrupts are on (the PIC keeps the request pending).  Nothing is assumed
of programs or of typing.  `Trap`: weak fairness of the processor (it executes
the next instruction or accepts the interrupt; an interrupt that is accepted
comes first, since the processor looks for one between two instructions), a
faulting program included, and of the disk; nothing of timer, keys or calls.
`CursorRecovers` needs no fairness: its premise is
that a program goes on printing.

## 4. What is proved

`BioProof` (for every `NBUF`, set of blocks, set of contents and bound on held
buffers, assuming `BioAssumption`):

* `Invariance`: `Spec => []IInv`.  `Coherent` alone is not inductive: a
  cached block found by `bget` is only known to agree with the disk if every
  buffer with a block number does, also those nobody holds, and the buffer taken
  for recycling is only free if reference counts equal the number of handles and
  the list contains every buffer exactly once.  `IInv` joins the properties of
  the run and adds three facts: every held buffer is assigned to a block, a
  buffer that is not assigned has no flags, and no more than `MaxHeld` handles
  are out.
* `CacheCoherent`, `CacheBookkeeping`: consequences for the
  properties TLC checks.
* `NeverExhausted`: as long as callers hold at most `MaxHeld <= NBUF` buffers,
  `bget` finds one.  A counting argument: before a `bread` there are fewer
  handles than buffers, so some buffer has reference count 0, and it has no
  `B_DIRTY`.
* `Refinement`: `Spec => BlockStore!Spec`; the latest content of a block is the
  one on the disk, since every store is followed by its `bwrite`.

`FsProof` (for every number and size of blocks, of direct and indirect slots, of
inodes, names and writes, and any number of crashes, assuming `FsAssumption` and
`NoneAssumption`):

* `Invariance`: `Spec => [](Sane => IInv)`: the invariant holds until a wild number
  is followed, and then the model stops (`Stuck`).  The properties speak of the
  disk, and none of them is inductive, because `bmap` looks at the copy of an inode in `icache`,
  which runs ahead of the disk while a `writei` is under way.  `IInv` therefore
  says what the kernel takes the inodes to be (`Views`: the copy, or else the
  disk): every block they name is marked, and none is named twice (`BlockInv`); a
  copy differs from the disk only in slots that are empty on the disk, and only
  for the inode of the running `writei` (`CopyInv`), so that a crash, which puts
  the disk in the place of the copies, keeps both facts; all cells below the size
  have an address, in the copy and on the disk (`HoleInv`); how far the `writei`
  is, with the block that `balloc` has marked and nothing names yet (`WriteInv`);
  the blocks of the root directory hold entries only (`RootInv`), each of an
  initialised inode and each name and inode once (`EntryInv`); and the inode that
  `create` has written is still in no entry (`CreateInv`).  One lemma for each
  action and one for each part that it can disturb.
* `UsedIsMarked`, `OneOwner`, `SizeCovered`, `CopiesClean`: the consequences for
  `BitmapCovers`, `NoSharedBlock`, `NoHoles` and `DropLosesNothing`.
* `DirectoryValid`: `EntriesValid`.  That `dirlink` finds a place for the entry is
  a counting argument: as long as `create` finds an inode free, some inode is in
  no entry, so the entries are fewer than the inodes, and `FsAssumption` says that
  the directory has room for as many.
* `RefinesFileStore`: `Spec => FileStore!Spec`.  A file is the sequence of its
  cells up to the size on the disk, so what a `writei` adds behind it is not seen
  until `iupdate` writes the size.  `StoreInv` is invariant beside `IInv`: a slot
  holds the -1 of a failed `balloc` only when no block is free, and the bitmap
  never shrinks, so it stays the mark of a full disk (`FullInv`); and the cells
  that the running `writei` has passed are those of its request or were lost to
  such a slot (`PlacedInv`).  Each step of `Fs` is then a step of the store:
  `WriteBlockStores` for a block of data, which `NoSharedBlock` keeps out of all
  other files; `BmapHidden` for the steps of `bmap` and `bzero`, which change only
  blocks that no cell below the size has; `IupdateFinishes`; `CrashEnds`, by
  `CopyInv`.  `FaultBreaks` shows that a wild number is followed only on a full
  disk, by `FullInv` (an indirect block or a directory block at -1), or when every
  inode is a file: that is when `FileStore` may break.  `NoneAssumption` keeps `None` apart from cells, files and requests,
  for which it stands when there is none.

`FileTableProof` (for every size of `icache`, `ftable` and `ofile`, any paths, modes,
devices and calls, assuming `FileTableAssumption`):

* `Invariance`: `Spec => []IInv`.  `RefsExact` counts; to know what a step does to
  a count, `IInv` adds what the locals of the running call are (`CallInv`), that
  open files and descriptors correspond one to one (`FileInv`: there is no `dup`),
  and that an entry of `icache` in use, and an entry of the directory, is one of
  an allocated inode (`EntryInv`).
* `ReferencesExact`, `OneEntry`, `ValidDescriptors`: `RefsExact`,
  `OneEntryPerInode`, `DescriptorsValid`.
* `RefinesFdTable`: `Spec => FdTable!Spec`.  Every step maps to a step on one
  descriptor or to a stutter; that a step on an inode or on an entry of `icache`
  changes no other descriptor rests on the one-to-one correspondence.
* `NeverWild`: under `Roomy`, `Spec => []NoWildPointer`.  `Roomy` says
  `NINODE >= NOFILE + 2`, that there are inodes and entries in the root directory
  for all names, and that the program does not call `exit`.  The code has 50
  entries of `icache` for 16 descriptors (`include/fs.h`, `include/file.h`).  The
  other two are needed: without a free inode `create` does follow a null pointer,
  and so does the next call after `exit` (section 5).  The argument counts:
  `icache` is full only if every entry is the working directory, or of an open
  file, or held by `namex`; the root is the only directory, so the inode in which
  `namex` and `create` look names up is the working directory, which leaves one
  entry more than there can be open files.
* `OpensDenoted`: under `NamesFit`, `Spec => []OpensWhatPathDenotes`.  `NamesFit` is
  the part of `Roomy` about the root directory; without it `dirlink` fails unseen
  and `open` opens a file that has no name.  `PathInv` says that the elements
  `namex` has passed lead from the root, through directories, to the inode it
  holds (`Walked`), and that the others are the end of the path.  That `create`
  keeps the elements before the last is because they are in the directory and
  the new name is not.  `Denotes` is recursive; `DenotesWalked` shows by the least
  element at which it would differ that it takes the same way.

`VmProof` (for every number of pages, page size, table shape and word size,
assuming `VmAssumption`):

* `MemorySafe`: `Spec => []PageInv`, which contains `Exclusive` and
  `NoDoubleFree`.  Neither is inductive alone: freeing a page is safe only if no
  other place holds it (`Exclusive`), and giving a page out keeps `Exclusive`
  only if no page on the free list is in use (`NoDoubleFree`).  Together with
  the types of the page-valued variables they are.
* `Invariance`: `Spec => []IInv`.  The properties of a finished `exec` hold because
  of how far an unfinished one is: `BuildInv` says, for each place in `exec`, that
  the new address space has exactly the pages from 0 up to the address that is
  reached, that segment and size fit each other, and that memory taken by `kalloc`
  and not yet mapped exists only where `allocuvm` gives up.  `PGROUNDUP` and the
  sums of sizes are shown not to wrap below `KERNBASE`.
* `NothingLost`, `TablesOutlive`, `SegmentMapped`, `ImageWhole`: `NoLeak`, `Backed`,
  `LoadFindsPages`, `ImageComplete`.

`IdeProof` (for every set of blocks and contents, assuming `IdeAssumption`):

* `Invariance`: `Spec => []IInv`.  `QueueExact` is not inductive, since a caller in
  the middle of its walk is about to write through `pp`.  `IInv` lists the four
  shapes of the queue (`QueueInv`), where each walk can stand (`WalkInv`: the
  keyboard's handler is not interrupted, and the kernel thread, which was, still
  finds the list as it left it, because the handler then never returns), that
  the controller works for a request that has passed the start of the disk
  (`DevInv`), and what the kernel thread will find in its buffer (`SyncInv`).
* `QueueIsExact`, `ServesHead`, `InSync`: `QueueExact`, `DeviceServesHead`,
  `ReturnsInSync`.

`BootProof` (for every sector size, memory size and image with `Linked`, assuming
`BootAssumption`):

* `KernelWhole`: `Spec => []KernelLoaded`.  The invariant says that the bytes below
  `pa` are loaded (`HeaderInv`, `SegmentInv`) and that what is loaded stays
  (`LoadedInv`).  It stays because `readseg` keeps to the sectors of its segment:
  `pa` is a multiple of the sector size, so a sector that begins before the end of
  the segment also ends with the segment's last sector (`WithinSector`), and by
  `Linked` no other segment, and not the header, is in these sectors.

`TrapProof` (for every size of machine words, ints, processes and `struct stat`,
every set of call numbers, exceptions and stray lines, and any number of device
interrupts and disk reads, assuming `ArgsAssumption` and `TrapAssumption`):

* `TrapInvariant`: `Spec => []IInv`, with one lemma per action or group of
  actions.  None of the three properties below is inductive.  `IInv` adds what
  they rest on: the frame of the program is at the bottom of the stack and leads
  back to it with interrupts on, an interrupt's frame can only be above it, with
  interrupts off, and `curproc->tf` is the program's frame (`StackInv`); between
  the entry of a trap and its last end-of-interrupt command the line in service
  is the one of the innermost frame, with the cascade line if it is one of the
  second controller's, and afterwards none is (`AckInv`); the buffer accepted by
  `argptr` and not yet copied lies in the process (`ArgInv`).
* `Acknowledged`, `StackFits`, `ArgumentsInside`: the consequences
  `AckedWhenEnabled`, `StackBounded` and `TouchesInside` that TLC checks.  The
  last rests on the lemmas `GetintInside` and `ArgptrInside` about the checks of
  `kernel/syscall.c`: an address below `KERNBASE` and a size that is not negative
  as an int cannot wrap, because `2 * KERNBASE <= WORD`.

* `RegistersComeBack`: `Spec => ReturnsIntact`, an action property.  `FrameInv` adds
  what is in the frames while code runs above them: a frame has the segments and
  the interrupt flag it was made from; the frame of an interrupt or fault has all
  its registers; that of a system call has them until the call ends and has the
  call's result afterwards, also while an interrupt is nested in between.  Only
  `trapret` takes a frame off the stack.

`ConsoleProof` (for every size of the screen and of the registers, every set of
keys, messages and characters and any command lines, assuming
`ConsoleAssumption`):

* `Invariance`: `Spec => []IInv`.  `OnlyTornLosesCursor` is not inductive, because
  the cursor is read and written in four steps.  `CursorInv` says for each of them
  which register the index port selects and what of the offset is already in it,
  as long as no key has come in between; `TypeInv` that the high byte alone leaves
  room for the low one.  The key handlers rest on `PrintedAllFacts`: whatever is
  printed, the cursor stays on the screen if it was there.  `PrintedAll` is
  recursive; that its recursion has a solution, and that every screen on the way
  has the property, is shown by the least position where it would not.
* `CursorKept`, `EchoKept`: `OnlyTornLosesCursor` and `EchoMatches`.  The second is
  inductive beside `IInv`; its core is `WrittenLetter`, which says that a letter
  and what stood before it stand in front of the new cursor, scrolled or not.

Only model-checked:

* liveness (`ExecReturns`, `MainReturns`, `CallsReturn`, `CursorRecovers`,
  `SyscallEnds`, `InterruptsServed`), which the prover does not reach;
* the image of `Mkfs` (`ImageConsistent`, `ImageHoldsFiles`, `EmptyImageIsInit`).  The
  first would need, for `iappend`, the parts of `FsProof!IInv` about blocks and
  holes; the second the content of each file written so far, as `PlacedInv` has it.
  The run covers every list of up to three files up to and beyond the largest
  size, and a loop of `mkfs` is the same for each file.  `EmptyImageIsInit` is about
  a single behaviour.

## 5. Disagreements

Shown by runs that expect a violation:

* `fs_lost`: on a full disk `balloc` returns -1, `bmap` stores it as an address,
  `writei` goes on, and `write` reports the full count.
* `ide_hang`: the disk commands of the command line never return; they spin, in
  a handler, on a flag that only another handler sets.

Met while modelling, and built into the models as the code has them:

* A failed read leaves a buffer marked `B_VALID` that was not read
  (`drivers/ide.c:116`); `ReturnsInSync` excepts it.
* `exit` is declared `noreturn` (`include/user.h:7`) and returns, without
  descriptors and without a working directory (`FileTable!exitReturns`); the next
  relative path, or the next `exit`, follows the null pointer (`EnterWild`).
  `CallsReturn` is about the other calls, and `NoWildPointer` about programs that
  do not call `exit`.
* When the indirect block of a file cannot be allocated, `writei` may write over
  other files, the bitmap or the inodes (`Fs!garbage`).
* Without a free inode `create` follows the null pointer that `ialloc` returns
  (`FileTable!createMakes`).
* `mkfs` rounds the size of a directory that fills its blocks exactly up to a
  block that does not exist (`ImageConsistent` says when); `bmap` allocates it
  while `dirlookup` reads.
* `registers_t` (`cpu/isr.h:85`) names the segments in the opposite order of the
  stub's pushes; the first return to the program loads `ds` and `es` of `uinit` into
  `gs` and `fs` (`Trap!FirstFrame`).  All later traps restore what they saved.
* A page fault returns to the faulting instruction for ever; interrupts are
  still served (`InterruptsServed`).  An unknown interrupt stops the machine, and
  for lines from 32 on its message is read from behind `exception_messages`.

## 6. What is not modelled

* `boot/start.S`, `boot/kernel_entry.S` and `kernel_main`: mode switches and
  calls in a fixed order, once, before anything is concurrent.
* `libc/string.c`, `libc/mem.c`: loops over bytes.  Two of them print numbers
  oddly (`int_to_ascii` drops the sign, `hex_to_ascii` prints `:` for the digit 10
  in all but the last place); nothing depends on it but messages.
* `itrunc` and `bfree`: `Fs!DropLosesNothing` shows that `iput` never reaches
  them, since no call removes a link.  The directory branch of `create` and
  `filedup` have no caller.
* A second process: nothing creates one, and the loop of `allocproc` looks at
  the first slot only.
* The user programs: their calls are the inputs of `FileTable` and `Trap`.
* Contents of a new stack, of messages, of names.  In `Mkfs` names are distinct;
  on a real command line `_x` and `x` would give two entries of one name.
* Lines longer than `key_buffer` (`MaxLine` stops below its size), and the byte
  before it that `backspace` of an empty line clears.  `TESTIDER` reports a read
  and writes block 1, the superblock: `Ide!user_input` models the write, no
  property is about it, since the command never returns.
* Inodes and blocks that a crash leaves marked and unnamed stay so: there is no
  log and no checker.  `BitmapCovers`, `NoSharedBlock`, `EntriesValid` and `NoHoles`
  show that a crash does no other damage, as long as no wild number was followed
  (`Fs!garbage`, section 2).
* Write errors of the disk: the handler clears `B_DIRTY` whatever the status is
  (`drivers/ide.c:116-121`), so a write that fails is lost unseen.  `Ide` has read
  errors only.
* More files on the command line of `mkfs` than inodes: `inoalloc`
  (`utils/mkfs.c:221`) has no bound and would write behind the table.
  `MkfsAssumption` says `MaxFiles <= NINODES - 2`; the code has 200 inodes.
* `sys_exec` prints `argv[0]` even when it is null (`kernel/calls.c:35`), which
  reads the program's own memory from address 0 on.

## 7. Plan

All safety properties and refinements that the runs check are proved, except
those of `Mkfs`.  `MkfsProof` is what is left: `ImageConsistent` from an invariant on
`freeblock` (every named block lies below it, and is named once), then
`ImageHoldsFiles`.
