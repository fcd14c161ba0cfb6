# Verification of the AGRV2K_go firmware

This directory holds TLA+ models of the firmware in `src/`: a bare-metal system for the
AGRV2K, a RISC-V microcontroller with an FPGA fabric on the same die. One core runs a
small preemptive kernel (XOS), a heap, drivers for an SD card and a USB host, a library
that reads FAT and NTFS volumes, and a shell. The fabric runs a bridge to an SRAM, a PSRAM
and an SD controller. `PROJECT.json` lists the runs, the mutants, the lines that each
definition models, the hazards and the theorems.

Checking a run: `tlc -config XosHeapTwo.cfg MCXosHeap`. Checking a proof: `tlapm
XosHeapProofs.tla`.

## 1. The system

Everything runs on one core in machine mode. Three sources of concurrency matter:

* **tasks** switch at `_task_switch`, in calls that block and after interrupts;
* **interrupt handlers** (timer, USB, SD) run to completion with interrupts off, and may
  give semaphores, hence make tasks ready and change the current one;
* **devices** (SD controller and DMA, EHCI schedules, USB devices, the AHB master of the
  FPGA) work on memory and flags that the handlers read.

`spin_lock_irq` masks interrupts; there is no other lock in the kernel. Tasks wait on
counting semaphores with room for *one* registered waiter.

### Inventory

| Component | Source | State | Operations | Interacts with | Hard parts | What makes it correct |
|---|---|---|---|---|---|---|
| XOS kernel | `main/xos_core.c`, `inc/xos.h` | ready/sleep/dead lists, TCBs, `g_ticks`, semaphores | create, exit, delay, yield, take, give, tick, reap, switch | everything: all blocking calls, all handlers | unlock before `_task_switch`; looks at `value` without the lock; state read after unlock; one waiter slot; `g_ticks` overflow | lists agree with states; sleepers wake, not early; no lost wake-up; priorities hold |
| Heap | `main/heap.c` | MBLK headers, free list | `xos_malloc`, `xos_free` | kernel (TCBs), FAT/NTFS/USB buffers | read before the lock; merges on two sides; list with one block | tiling, coalescing, exact acyclic free list |
| SD driver | `main/spi_sd.c` | controller registers, `cmd_resp`, `respp`, `sd_sem`, card state | command with DMA, identify, read/write sectors | kernel semaphore, DMA, VFS (`BLKDEV`) | completion racing the 100-tick timeout; stale semaphore count; split of transfers | an answer belongs to its command; every part of a request is transferred |
| EHCI driver | `cherryusb/usb_hc_ehci.c` | QH/qTD pools and lists, URBs | submit, kill, interrupt, frame list, buffer layout | hub and class drivers, controller hardware | completion racing timeout and kill; pools at their limit; doorbell | pools agree with use; a wait ends for its own transfer; nothing is left behind; endpoints polled in time |
| USB core, hubs | `cherryusb/usbh_core.c`, `usbh_hub.c`, `usb_osal_xos.c` | addresses, ports, class instances, reports | hub thread, enumeration, connect/disconnect, descriptors | EHCI, class drivers | disconnect during enumeration; one `current_hub` for a counting semaphore; shared descriptor buffer | addresses distinct; instances belong to ports; each hub is listened to; a gone device is released |
| Mass storage | `cherryusb/usbh_msc.c` | `g_msc_buf`, tags, capacity | getting ready, read, write | USB core, VFS | lost phases; one buffer for all disks | success means the command that was sent |
| HID | `cherryusb/usbh_hid.c` | - | - | - | not built by the Makefile | - |
| VFS | `tntfs/fs_util.c` | device table, partitions, mounts | init/remove device, find, list, open, read, mount | SD, MSC, FAT, NTFS | equal names, disks that come and go | the table has the disks that are there; partitions as the table says |
| FAT | `tntfs/fs_fat.c` | data and FAT buffers, found entry, position | mount, find, list, open, seek, read | VFS, block device | root sectors read over a cached cluster; names over two buffers; ends of chains | lookups and reads agree with the volume |
| NTFS | `tntfs/fs_ntfs.c` | record cache, run lists, position | mount, find, list, open, stat, seek, read | VFS, block device | stale record index; run list decoding | lookups and reads agree with the volume |
| Interrupts, UART, clocks | `main/cpu_agrv.c`, `main/start.S` | vectors, `in_isr` | dispatch, putc/getc | kernel, drivers | entry and exit around a task switch | each interrupt runs to its end |
| Shell, printk, string | `main/shell.c`, `main/printk.c`, `main/string.c`, `main/main.c` | line, history, `printk_buf` | edit, recall, numbers, formats, dump | UART, all printers | one buffer without a lock; escape sequences | lines as typed; messages whole; numbers read as printed |
| FPGA logic | `fpga/ulogic/*.v` | `ahb_start`, acks, slaves, PSRAM FSM | bus cycles | drivers through memory | a flag set and cleared by edges of two clocks | a read answers what was written last; each access ends |
| FPGA tools | `fpga/tools/` | - | - | - | build-time only | - |
| CoreMark | `coremark/` | - | - | - | vendored benchmark, not built | - |

## 2. The modules

| Module | Contents |
|---|---|
| `XosList` | the kernel's linked lists as sequences: `list_insert_order`, `list_remove` |
| `XosKernel` | the kernel: one action per stretch of code that interrupts cannot split |
| `XosSemaphore` | what a semaphore promises, with no list, scheduler or interrupt |
| `XosKernelContract` | the refinement mapping from `XosKernel` to `XosSemaphore` |
| `XosKernelLate` | the kernel with one history variable: which tasks are pointed at since the timer ended a take of theirs |
| `XosHeap` | the heap at the level of header words |
| `SdDriver` | the SD card driver over the contract `XosSemaphore`, with an external controller |
| `EhciLayout`, `EhciHcd` | what the EHCI driver computes for the controller, as functions; its threads, its handler and the pools |
| `UsbDescriptors`, `UsbHub` | parsing of descriptors, as functions; hub thread, enumeration threads, devices that come and go |
| `UsbMsc` | mass storage commands of several disks through one buffer |
| `FileCall` | what a call of the file functions is, for both file systems, and `strcasecmp` |
| `FatFs`, `NtfsRunlist`, `NtfsFs` | the file systems, one step per read of the disk |
| `Vfs` | the file functions on a mounted volume, composed of `FatFs` and `NtfsFs` |
| `BlkDev` | the table of devices and the partition tables, with disks that come and go in threads of their own |
| `Tpsram`, `AhbBridge` | the PSRAM controller, and the bus bridge composed with it |
| `CString`, `Printk`, `Shell` | strings, formats and the shared buffer, and the line editor composed with them |
| `XosKernelProofs`, `XosHeapProofs`, `SdDriverProofs`, `EhciHcdProofs`, `UsbHubProofs`, `UsbMscProofs`, `VfsProofs`, `ShellProofs` | lemmas and theorems (section 5) |
| `MC...` | the instances for TLC |

`SdDriver` uses `XosSemaphore`, which `XosKernel` implements. In `BlkDev` disks come and
go as in `UsbHub` and `UsbMsc`, and in `Vfs` reads fail as those of `SdDriver` and
`UsbMsc` do; there the modules are composed by their interface only, as one state space
would be out of reach.

In the models of this list a variable `fault` or `stopped` (or the place `"broken"`) marks
where the code leaves its own memory, works on what is no longer its own, or uses a null
pointer. The model stops there: the properties are about the time before, and do not catch
such a fault. Those that name faults say which cannot occur, or how one comes about. All
faults of the models occur in the runs; section 4 describes each, and `PROJECT.json` lists
them as hazards without a property.

### XosKernel

*State.* `ready`, `sleep`, `dead`: the three lists; `state`, `timeout`, `retv`: fields of
the TCBs; `current`: `task_current`; `ticks`: `g_ticks`; `value`, `waiter`: `sem->value`
and `sem->tcb`. `pc[x]` is where the agent `x` (a task, or `Isr`, the handler that runs)
is inside the kernel, and `call`, `target`, `result` are its locals. A list is the
sequence of the tasks it links. This loses nothing as long as no linked node is linked
again; the step that would do so sets `fault = "relink"` and the model stops, as the C
lists are cyclic from then on. `"freed"` marks the use of a TCB that has been freed and
`"nullHead"` a dispatch from an empty ready list.

*Steps.* A step is one locked section or one unlocked read of shared memory. Interrupts
arrive between steps: the handler then executes until it is `"off"` (traps run with
interrupts off). `TakeCheck`, `TakeFast`, `TakeRecheck`, `TakeWait`, `TakeSwitch`,
`TakeReturn` are the pieces of `xos_sem_take`; `Give`/`IsrGive`, `GiveCheck`, `GiveReady`,
`Switch` those of `xos_sem_give`. `Delay`, `Yield`, `Exit` end with `SelfSwitch`, outside
the lock, as the code does (lines 374, 396, 407, 480). `TickStart`, `TickWake`,
`TickDone`, `Switch` are the timer interrupt; `IdleBoot` and `IdleReap` are the idle task.

*Data.* `HalfTick` stands for 2^31. `Deadline` converts to `int`, `Expired` compares
unsigned, as C does.

*History.* `XosKernelLate` adds `late`. When the timer ends a take, nothing clears
`sem->tcb`; `late` holds the task for as long as a semaphore, or a give that has read one,
still points at it. The firmware's takes have timeouts, so that what holds of delays and
of the kernel's integrity can only be said with this set: `DelayNotEarly` and
`BreaksTwoWays` tell what a give does to a late task from what any other step may do.

*Called as in the firmware:* no `xos_task_delay(0)`; IDLE neither takes nor exits;
`xos_task_yield` has no caller in `src/` and is given to some tasks by the constant
`Yielders`.

### XosSemaphore and XosKernelContract

A semaphore is a number of tokens. A take succeeds by consuming one, waits only when there
is none, and fails only after a timed wait with none (or at once with timeout 0); a give
adds one. One thing the code does differently is part of the contract, so that users know
it: when a take times out, `sem->tcb` still names the task that gave up, and the next give
is spent on it (`LostGive`). The mapping: the tokens of `s` are `value[s]`, plus one while
a give has cleared `sem->tcb` and its waiter has not returned yet. The refinement needs
one taker per semaphore and one semaphore per taker, and, when takes have deadlines, that
a taker whom tasks wake is the most urgent task; section 4 says why.

### XosHeap

*State.* `blocks` (where blocks start), `used` (low bit of `next`), `next`, `prev`, `nf`,
`pf` (the header words, `Null` where there is no header any more), `live` (what callers
may free), and `pc`, `seen`, `size`, `cursor`, `fit` for the tasks in `xos_malloc`. The
unit is 8 bytes, half an `MBLK`: the unit of header of a block in use, and the granularity
of `xos_malloc`.

*Steps.* `MallocEnter` reads `head->nf` (line 83) before the lock that `MallocLock` takes;
a task switch fits in between. `Scan` is one turn of the loop, which ends with
`MallocFails`, `MallocSplit` or `MallocWhole`, or with `ScanStale` when it follows a link
out of a block that is not free. `xos_free` is one step in five cases: neither neighbour
free, next free, previous free, both free, and the write through NULL when the free list
is empty (`FreeAloneFails`, line 215). `FreeWithBoth` sets `fault = "apart"` when the code
merges into `p` as if the two free neighbours were adjacent in the free list (lines
199-208) and they are not.

The first block is the TCB of IDLE, which `xos_init` allocates and nobody frees. Therefore
a block that is freed never follows the head, and the branch for that case (lines 187-193)
cannot be reached. No caller asks for 0 bytes.

### SdDriver

*State.* `inten` and `flags` are the controller's registers; `cmd`, `dev` and `words` are
the external controller: the command it runs, how far it is, the response words still to
come. `respp` is the handler's count of response words. The semaphore `sd_sem` has the
variables of `XosSemaphore` (`Sem == INSTANCE XosSemaphore`), so that the driver is
checked against what the kernel is shown to promise in `Timer`, lost gives included. `dma`
is the length field of the DMA channel, 12 bits of words. `pc`, `seenFlags` and `retv` are
the task inside `sd_cmd`; `op` and `step` say what the task does, as a place in the
commands of `Script`; `start`, `size`, `buf`, `count` are the locals of `sd_read_sector`
and `sd_write_sector`, and `total` is what the caller asked for. `inited` is `sd_inited`.
Two variables are no state of the code: `moved` has the sectors that have been carried,
each with its place in the caller's buffer, and `spoilt` the places of the parts that
ended with the card's timeout.

*Steps.* `CmdStart`, `CmdIssue`, `CmdTake`, `CmdPark`, `CmdTaken`, `CmdFlags`, `CmdClear`
and `CmdEnd` are the pieces of `sd_cmd` between which the card may act and `sd_irq` may
run; `Irq` is one turn of the loop of `sd_irq`. `NextCommand`, `AskAgain` and
`IdentifyEnds` are the callers that send several commands; `Begin`, `NextPart` and
`SectorsEnd` the loops over the parts of a long transfer; `SdInit` is `sd_init`, and
`SdTest` is `sd_test`, which resets the controller and the semaphore only the first time
and identifies the card again at later calls. `DevWord`, `DevDone` and `DevTimeout` are
external: a word of a long response, the end of a command, the controller's own time
limit. Any of them may come at any time after the command, or never.

*Assumptions on the external side, read off the driver's use of the registers.* Writing 0
to `cmd` cancels the command, hence nothing is raised between the clearing of the flags
and the next command, and `CmdIssue` is one step. A long response has five words, each
announced by its own `RESP`. A data command that ends well has carried as many words as
`dma` says, from the start of its part. One task uses the card (the shell). Addresses are
counted in sectors; what the card says of its size and addressing is left out.

*Together with other users.* The contract asks that a task takes one semaphore only. The
shell also takes those of the USB stack: what section 4 says of stale waiters applies
there. Within the driver one consequence of the contract is visible: after a command that
has timed out without a late answer, `sd_sem->tcb` still names the shell, so that the
interrupt of the next command is spent on it when it comes before the take. That command
then times out although the card has answered (`LostGive` in `Irq`). It is reported to the
caller, so `OwnAnswer` holds.

A part that fails with the card's own timeout (a positive result) does not end the loop of
a long transfer: only the result of the last part reaches the caller. `PartsCover` says
what is left of a return of 0: every sector was carried to or from its own place, but for
such parts, and but for writes that the DMA's length field cannot hold; that
`sd_write_sector` makes these is shown by `SdWrite`.

### EhciHcd and EhciLayout

*State.* `linked` (the queue heads in the schedules), `iaad` (those that wait for the
doorbell, `bell`), `hcpriv`, `busy` and `waits` (fields of the URBs), the pools of queue
heads and descriptors with the URB that each belongs to, the semaphore of each queue head,
and `pc` and `victim` of the threads.

*Steps.* A submit is the search of a pool and its marking (two steps, as nothing locks
them), the locked linking, and the wait; a kill is the look at `urb->hcpriv` and the
locked section. The handler ends transfers (asynchronous ones by the doorbell), answers
the doorbell and handles a disconnection. The model stops at `reuse`, `null`, `stale` or
`freed`. The order of the schedule's lists and how well a transfer has ended are left out.

`EhciLayout` holds what the driver computes for the controller: the frame list of
`usb_hc_init`, the head and the microframes of an interrupt endpoint, and the cutting of a
buffer into descriptors and pages. `ScheduleRight` compares them with what they are for.

### UsbHub and UsbDescriptors

*State.* `plugged` is what is at the ports; `change`, `enabled` their status bits;
`connected`, `addr`, `driver`, `instance` the fields of the ports; `listening`, `intin`
and `bits` the hubs' reports; `enum` and `owner` the enumeration threads; the current hub
and the semaphore of the hub thread; the set of free addresses and the hint.

*Steps.* `HubReports` is a hub's report, `Replug` a device that comes or goes. The hub
thread is more urgent than the enumeration threads: what it does between two waits is one
step. A step of an enumeration thread ends with a transfer, where the hub thread may come.
`lost` remembers why a change may never be seen to. The model stops at `parent`, `freed`
and `replaced`.

`UsbDescriptors` is the parsing of descriptors and the search for a class driver, over a
buffer that holds an answer and what an earlier one has left behind it. An endpoint beyond
the size of `ep[]` is written outside of it (`Outside`), and then nothing counts as kept.

### UsbMsc

*State.* The shared `g_msc_buf` (what it holds, and of which command), for each disk the
stage of `usbh_msc_connect`, the place in `usbh_bulk_cbw_csw_xfer`, the command and
result; the disk's own view of the command. *Steps.* CBW, data and CSW, each with the
thread's wait: the transfer arrives, or is lost on its way there or back. A disk in the
middle of a command refuses another one. `alone` says that no other disk's thread has used
the buffer during a command.

### FileCall, FatFs, NtfsFs, NtfsRunlist

*State.* `FileCall` has the call (`pc`, `call`, `result`) and `trust`, which tells whether
reads have failed, and whether the code has noticed. `FatFs` has the two buffers, what
they hold and what the labels `data_cluster` and `fat_sector` take them for, the entry
found last and the position. `NtfsFs` has the record buffer with its label `mbuf_index`,
the record that the attribute pointers were set for, and the run lists that lie in the
buffer.

`make_dosname` makes eleven blanks of ".." and ".", since each dot begins the extension
(`Dosname`): no path leads through these entries, and they only take part in listings.

*Steps.* A step is one read of the disk with what the code does until the next one:
`FatFind` enters a look-up, `NextRootSector`, `NextDirCluster` and `ScanBuffer` are the
scan of a directory, `Lseek`, `Locate`, `Copy` and `Turn` the position and the loop of a
read; `FindInRoot`, `CountOn` and `FindInBlock` are the scan of an index. Any read may
fail, with a negative result or with the positive one of an SD timeout; the buffer is torn
then. `NtfsRunlist` decodes and walks run lists, as functions over bytes of `ByteValues`
values.

A volume is a record of directories, chains or runs and sizes; names are told apart only
as far as `strcasecmp` tells them apart: in the file system it compares a name with
itself, and finds it equal when its characters come in equal pairs, whatever was asked
for.

*References.* `FindRight`, `ReadRight`, `NtfsFindRight` and `NtfsReadRight` compare each
result with what the volume holds, looked up along a path, a chain or the runs in one go,
unless a read has failed without notice or one of the cases of section 4 applies, each of
which is named in the definition.

### Vfs and BlkDev

`Vfs` is a call of the file functions (`FileCall1`, and then `Step`) on one mounted
volume. Calls come one at a time, and the disk stays.

`BlkDev` is how a disk gets there. *State.* `devlist`; `sector_buf`, the one buffer of
`f_initdev`, by the disk whose first sector it holds; for each disk the thread that
registers it (`where`, `bdev`, `slot`), `msc_class->user`, its partition table, and of
each BLKDEV the partitions and whether a file system is mounted. *Steps.* The threads do
`f_initdev` and `f_mount` in pieces that others may come between: the search of a slot
(`Find`), the entry into it (`Store`), the read of the first sector (`ReadTable`,
`ScanSector`), the reads of the mount (`Mount`) and the entry of the file system (`Keep`).
`Stop` is `usbh_msc_stop`: the hub thread is more urgent and does not wait there, so it
is one step, between any two of the others. `Alloc` may give the memory of an earlier
stick's BLKDEV again. `SdInit` is what the shell calls, more than once. `ScanTable` is the
partition table. The model stops at `late`, `used`, `again` and `overwritten` (section 4).

### AhbBridge and Tpsram

*State.* The registers of `ulogic.v` and `tpsram.v`. `AhbEdge` is an edge of the AHB
clock; every `Ratio`-th is an edge of the bus clock too, and then the slaves (`Memories`,
`Registers`, `Psram`) step together. `ahb_start` is set and cleared by edges of other
signals, at once. External: the AHB master (`want`, `busy`), the SD controller's registers
and the SRAM block (a word each), and the PSRAM chip, which answers when the controller
expects it. `shadow` is what has been written last. `overlap` marks that a transfer was
put on the lines while another was under way: at `Ratio` 2 an access is then lost and the
bus stops, so the properties are about masters that do not.

### Printk, CString and Shell

*State.* `Printk`: `text`, `at`, `out` of each printer and the shared `printk_buf`.
`Format` and `Put` write and send one character; other printers may come between two of
them, except that no task runs in the middle of a handler's. `Shell`: the line (`buf`,
`n`, `esc`), the line before (`hbuf`, `hblen`), and `typed` and `last`, what they should
hold; and `arg_base`, in which `str2hex` reads, 10 or 16, as the commands `base10` and
`base16` set it. Each key (`Letter`, `Backspace`, `Escape`, `Recall`, `Enter`...) ends
with a printk of what the shell echoes. `Marks`: one printed mark for each character.
`ReadChar` is `str2hex`, and `Number` the conversions of `vsnprintk`; `PrintedIsRead` ties
the two: what `printk` writes of a value, in a format that it takes for a directive at all
(`Taken`), `str2hex` reads back as that value while `arg_base` is the base of the
directive, and `Dump`, the shell's dump of memory, shows each byte once, in its place.
Octal is printed in a base that no command can be read in, and is not claimed.

## 3. The runs

Distinct states in parentheses.

| Run | Instance | Checks | Shows |
|---|---|---|---|
| `Kernel` | a task that takes two semaphores, with timeout 0, 1 or for ever, and sleeps; a less urgent one and a handler give them, 4 ticks (1010210) | `KernelInv`, `ListsAgree`, `SleepersOnTime`, `NoLostWakeup`, `BreaksTwoWays`, `DelayNotEarly`, `PreemptsProperly` | lists and states agree under every placement of interrupts until the kernel breaks, for which the window of a blocking call and a give to a task whose take the timer has ended are the only ways; such a give is all that cuts a delay short; no give is lost between look and wait, and the most urgent task runs |
| `Timer` | `HalfTick = 4`, so that `g_ticks` and deadlines overflow within the 8 ticks; tasks of equal priority, takes with timeout 0 and 1 (277205) | `SleeperWoken`, `Contract` | sleepers wake across the overflow; the kernel implements `XosSemaphore` |
| `Heap` | 18 units, two tasks, requests of 1 and 2 units | `HeapTiled`, `Coalesced`, `FreeListGood`, `AllocationsHold` | the heap is sound until one of the three faults |
| `Sd` | transfers of 1, 16, 17 and 40 sectors from sector 3; `sd_init` and `sd_test` at any time (614861) | `OwnAnswer`, `NoTokenLeft`, `PartsCover`, `SectorsReturn` | late, early and missing answers never reach another command; a call that returns 0 has carried every sector, but for parts that timed out at the card and writes beyond the DMA's limit; every call returns |
| `Ehci` | a control, a bulk and an interrupt transfer over two queue heads and three descriptors (1160431) | `PoolsAgree`, `OwnTransferEnds`, `NothingLeftBehind`, `ScheduleRight` | completion, timeout, kill and doorbell in any order leak nothing and end only their own wait, until one of the cases of section 4 |
| `Hub` | a root port and an external hub of two ports, two enumeration threads, three addresses, two changes, one failure (379411) | `AddressesDistinct`, `InstancesAgree`, `HubListens`, `ConfigParsed`, `PortsReleased` | devices that go in the middle of their enumeration leave addresses and instances as they should be, and are released in the end |
| `Msc` | two disks with 5 and 2 commands, one failure (355371) | `OwnCommand`, `CommandsReturn` | a status is that of the command that was sent, and every command returns |
| `Files` | either one of six volumes and one failure; or two sticks and a card for two slots, two BLKDEVs in the heap, three tables for the first stick, `sd_init` twice (831352 together) | `BuffersHonest`, `FilesFound`, `FilesRead`, `RunsWalked`, `CallsReturn`; `DevicesListed`, `PartitionsScanned` | look-ups and reads agree with the volume after any history of calls and failures, but for the cases of section 4; until one of four faults the table has each disk that is there once, and a legal partition table is read as it is |
| `Bridge` | `Ratio` 2 as in `top.ve`; five sets of places (446176) | `ReadsRight`, `AccessesEnd` | across the clocks each read returns the bytes written last, each access to an address that answers ends |
| `Console` | lines of 3 characters, a buffer of 8, ints of a byte (693617) | `MessagesHold`, `LineHonest`, `PrintedIsRead` | messages are whole unless they overlap, lines are as typed until `hblen` is made too long, numbers in eleven formats and dumps are read as printed |
| `IsrGive` (violation) | three tasks of equal priority, no deadlines | `GiveIsIsrSafe` | `xos_sem_give` is not safe in an interrupt |
| `SdWrite` (violation) | as `Sd` | `DmaInLimit` | a part of a long write is longer than the DMA's length field |

### Bounds

*Kernel.* `MaxTicks` stops the timer, `MaxValue` stops gives; sizes of the instances are
in the `.cfg` files. Three or four tasks suffice for each pair (current, preempting) and a
third that waits or sleeps meanwhile; two delays give both orders of deadlines and ties.
In `Kernel`, one task that takes both semaphores suffices for a give of the one to end its
wait for the other, and a giver can be switched out behind its unlock while the taker
runs. In `Timer`, `HalfTick` is small so that both the signed and the
unsigned overflow happen. *Heap.* 18 units hold, behind the block of IDLE, up to four
blocks of the smallest size, so that all merges and both orders of neighbours in the free
list occur. *SD.* One sector (commands 17 and 24), exactly one part, a part and a
remainder of one, and three parts, 40 sectors, which a write asks of the DMA at once: more
than its 4095 words.

*EHCI.* Two queue heads for three URBs and three descriptors for five make both pools run
out; `MaxLate = 1` lets one submit follow an early end or the one disconnection. The
layout is checked for the driver's frame list of 1024 entries and eleven heads, pages of 4
and chunks of 16 bytes instead of 4096 and 16384, and all lengths and beginnings up to
`MaxLen`. *Hub.* Two ports behind the hub, two threads and addresses 2 to 4: one device
can wait while the other is enumerated, and the addresses wrap. Two changes are a device
that comes and goes, or is replaced, or goes with its hub. Descriptors: all
configurations, and remains, of up to three, two interfaces with one alternate setting and
one endpoint. *Msc.* Five commands are all of `usbh_msc_connect` and one of the file
system; two suffice for a second disk to overlap any of them. *Files.* Two-sector
clusters, FAT sectors of six entries, directories and files of up to three clusters over
gaps, so that each boundary is crossed, and a position behind two entries in different FAT
sectors; the FAT16 root has two sectors, and a path leads through two directories of more
than one cluster. NTFS: a table and an index in two runs, a record of each kind.
The devices share no variable with the files, and a behaviour of `MCVfs` is one of either
half. Three disks for two slots: one finds none while others come and go, and two find the
same one. Two places in the heap: one is used again while a thread still works with it.
Partition tables: none, with gaps, with an illegal entry; the theorem is about any four
entries. Run lists: all of one or two runs with lengths to 3, distances of -3 to
3 in one or two bytes of 8 values. *Bridge.* The sets of places have accesses of each size
to each slave and change between slaves. `Ratio` is that of the board (SYSCLK 200, BUSCLK
100); 1 passes as well, 3 does when the master does not overlap, 4 does not (section 4).
*Console.* A line of 3 is full after three letters; the buffer of 8 holds a message with
its Nul or just not; `MaxKeys = 3` and `MaxPrints = 1` bound the keys while others print,
keys alone (`quiet`) are not bounded. The eleven directives have each flag, a width and
none, in base 10 and 16; ints have all values of a byte; a dump of `MaxDump = 36` bytes
has two lines and a part.

Deadlock is checked in `Sd` and `Bridge`. Elsewhere a model may stop: behind a fault, when
the bounds stop changes, or when no device is there. Symmetry is not used: actors differ
by role.

### Fairness

`XosKernel!FairSpec`: strong fairness of `TickStart`, since the timer interrupt stays
pending until its handler moves `MTIMECMP` and other interrupts only delay it, and weak
fairness of the handler's own steps, since handlers run with interrupts off. No fairness
of tasks is assumed. `SdDriver!FairSpec`: weak fairness of the task's own steps. The task
runs when nothing more urgent does, and a timed take ends, which is what `SleeperWoken`
says of the kernel. Nothing is assumed of the card or its interrupt.

`UsbHub!FairSpec`: weak fairness of `SomeThread`, the processor runs a thread that can
run, whichever it is, and of `HubReports`, a hub that is there reports its changes.
`UsbMsc!Spec`: weak fairness of each disk's thread, since each transfer has a timeout.
`Vfs!Spec`: weak fairness of the steps of a call, which only one task makes.
`AhbBridge!Spec`: the clock runs. `EhciHcd` and `Shell` state safety only.

## 4. What the models and the reading show

The properties name the cases that they leave out, and the models stop at their faults:
what is listed below is not caught by a property of a passing run. It is what the models
and the reading have shown the code to do, partly otherwise than its comments say. For two
such comments a run has TLC find the contrary:

* **`IsrGive`.** `xos_core.c:422` says that `xos_sem_give` may be called in an interrupt.
  A blocking call unlocks before `_task_switch`; an interrupt there that wakes the very
  task which is about to switch makes it ready, and the switch at the end of the handler
  links it a second time. Without timeouts this window is the only way to break the
  kernel; with them, as in the firmware, there is one more, a give that works on a task
  whose take has timed out (next paragraph). `BreaksTwoWays`, checked in `Kernel`, says
  that there is no third.
* **`SdWrite`.** `spi_sd.c:131` says that one DMA transfer has at most 4095 words, and
  line 426 that the loop of `sd_write_sector` splits the transfer for that reason; line
  428 passes the whole rest, so that from 32 sectors on the length spills into the next
  field (line 158).

Three more comments say what the code does not do; here the properties follow the code:

* `fs_util.c:118` says of an illegal entry that there may be taken to be no partition
  table then. The entries before it are kept: the first of them is mounted, and not the
  whole disk. `PartitionsScanned` is about legal tables only.
* `fs_ntfs.c:451` says that `ntfs_find` looks for a file by its name. `strcasecmp`
  (`string.c:105`) takes both characters from the name asked for, so that what it says has
  nothing to do with the names on the disk: the name of a file is not found, or a name
  that is on none leads to the first entry. `FilesFound` is about the entries that the
  code takes for the one asked for.
* `printk.c:10-12` promises `%[[0]n]d`, `x` and `X`. The loop that reads the width (line
  130) ends at a 0: `%10d` is printed literally, and its argument stays for the next
  directive. `PrintedIsRead` is about formats that `vsnprintk` takes for a directive.


*Kernel.*

* `xos_core.c:255`: "high" is to be the most urgent task. With `self = 1` the current task
  is not compared with the head of the ready list: a task that an interrupt has preempted
  in the window and that was readied meanwhile is queued, and a less urgent one runs.
* A stale waiter: `sem->tcb` survives a timeout. A give of the old semaphore then ends
  that task's wait on *another* semaphore with success (line 448 promises a token), cuts a
  later `xos_task_delay` short (`DelayNotEarly` says that nothing else does), or follows a
  TCB that has been freed (the fault `freed`).
* A giver that is switched out behind its unlock, where it has found such a task waiting,
  links that task although the handler has made it ready in between (`relink` outside the
  window).
* A stale give: `xos_sem_give` reads `tcb->state` (line 441) behind its unlock. After a
  take has timed out a give still finds its task in `sem->tcb`. When that task gets the
  processor before the giver reads its state, and takes the same semaphore again without
  a deadline, the giver finds it in T_WAIT and makes it ready: the take returns 0 although
  nobody has given a token for it. TLC finds this with tasks of equal priority; it cannot
  happen when no take has a deadline, or when the taker is the most urgent task
  (`ContractKept`, section 5).

*Heap.* The block that `xos_malloc` has read before the lock (line 83) may have been
allocated by then: the scan follows what its owner has written (`ScanStale`). A free of a
block when the free list is empty stores through NULL (line 215, `FreeAloneFails`).
`heap.c:195` ("merge with the previous block, m into p"): when the block behind
`m` was free too, `m` has just taken its place in the free list (lines 175-180), and lines
199-208 remove that place as if it were next to `p`. Blocks stay listed, are lost, or the
list gets a cycle. The fit is only sought among blocks larger than the request.

*SD.* Besides `SdWrite`: a part that ends with the card's timeout does not
end the loop, and the call may return 0 without it. `sd_test` identifies the card again
without resetting the interrupt enable or the semaphore.

*EHCI.* Checking and marking a pool entry is not one step (`reuse`). A disconnection frees
queue heads that are linked. Two races end at a null pointer (`null`): a thread whose take
has timed out sees that `urb->hcpriv` is set, the transfer completes and the doorbell
clears it, and the locked part of the kill follows it; and a queue head that waits for the
doorbell loses its URB, to a kill or to a submit that has been given the queue head,
before the handler's loop follows `qh->urb`. A transfer that ends before its thread waits
leaves a token, against `usbh_core.h:190`; the next user takes it, and its URB is freed
while it is scheduled. A submit without memory leaves the URB busy for ever, and so does a
kill of an asynchronous URB; a killed queue head is freed without the doorbell, and one
removed behind the ringing of the doorbell is freed at the earlier answer. The intervals
of high-speed periodic endpoints are taken as frames when a head is chosen, and a long
full-speed interval is cut to 8 bits. A transfer of no bytes needs a descriptor that
nobody has counted.

*USB core and hubs.* A report of one hub overwrites that of another (`current_hub`); with
one external hub this happens only when that hub goes (`HubListens`). The loop that clears
a change never ends at a hub that is gone. A port that does not become stable ends the
loop over the ports. `usbh_allocate_devaddr` fails when the hinted address is taken, and
the enumeration then ends as if all were well; a failed SET_ADDRESS keeps its address;
address 127 is never free again. Two devices behind a hub may be at address 0. A reset
acknowledges other changes. An old enumeration thread goes on with a port that has a new
device (`replaced`) or no parent (`parent`), or fills in a class instance that has been
freed (`freed`); `usbh_msc_stop` frees a disk in use. The number of an endpoint is not
compared with the size of `ep[]` (`usbh_core.c:257`). A hub of more than four ports passes
the end of `child`. `parse_config_descriptor` adds the length of the wrong descriptor, so
that what lies behind the answer is parsed too, and an interface there is taken for one of
this device (`misled`); `wTotalLength` is not compared with the buffer; the result of the
first `parse_device_descriptor` is not used.

*Mass storage.* `g_msc_buf` has no lock: a disk may be sent another's command, or take its
status or capacity (`alone`). INQUIRY reads 36 bytes into 32 (`usbh_msc.c:211`). After a
failure in the middle of a command nothing resets the disk; tag and residue are not looked
at.

*FAT.* `strcasecmp` (`string.c:98-117`) reads both characters from its first argument.
Root sectors of FAT12/16 are read into the buffer of the clusters without clearing its
label, so that a second look-up scans the wrong sectors and a read of a cached cluster
returns a directory. `make_dosname` makes eleven blanks of "..", which is no entry's name:
no path leads back. Directories of FAT12/16 are scanned only in the first sector of each
cluster. `fat_read` takes the larger of two lengths; errors of `read_cluster`, and
positive ones, are not noticed; a failed read leaves a torn buffer under the old label.
The loop that locates a position (`fs_fat.c:465-467`) goes on with cluster 0 when
`next_cluster` has failed, and may get an entry of the sector that could not be read: data
of a foreign cluster without an error (`Vfs` finds it if `NextCluster` does not count this
as an error not noticed). The open file is `cur_dir`, so that any look-up replaces it. A
long name survives deleted entries and labels, and is taken for that of the next entry
(`Long`).

*NTFS.* With `strcasecmp` no path of two components is found. Distances of runs that are
negative are decoded as positive (plain `char` is unsigned on RISC-V). A seek into the
middle of a run leaves the cluster unset. A file may seem resident, as the run list lies
over the attribute. `mbuf_index` is set before the record is known to be good. Opening a
directory or a bad record uses a null pointer. Only the first sector's fixup is checked. A
partly valid block is returned as it is.

*VFS.* A disk whose partition table cannot be read stays registered. All USB disks are
named `usb0`. Mounting twice leaks; nothing is locked:

* two threads read the first sectors of their disks into the same `sector_buf`, and one
  scans the other's table (`mixed`, which `PartitionsScanned` excepts), or find the same
  free slot (`overwritten`);
* the hub thread stops a stick whose thread is about to enter its BLKDEV in the table, or
  the file system in the BLKDEV: what has been freed is entered (`late`); or the heap
  gives its memory to the next stick while the thread still works with it (`used`);
* each call of `sd_init` enters the card again and clears its BLKDEV, which is in the
  table and may be mounted (`again`). `DevicesListed` holds until one of these four.

*Bridge.* With a master that puts a transfer on the lines while another is under way, an
access is lost at `Ratio` 2, and the bus stops, or goes wrong at 3; at 4, reads are wrong
with any master. An address that no slave has never answers.

*Console.* `str2hex` adds the character `0` as 48 for a short "0x" number, and reads the
rest of the line as hexadecimal. A blank behind the fourth argument, or a fifth, writes
`hex[4]`. A full line writes one byte behind `cmd` and `hbuf`. A recall on a line longer
than the last one makes `hblen` longer than the history, later recalls bring old
characters back (`longer`, which `LineHonest` excepts), and a recalled line may grow
further. Numbers that are printed in octal are read in base 10 or 16; a left-adjusted
field loses its sign; a message of 256 characters has no Nul. `printk_buf` is shared
without a lock: messages that overlap are mixed, cut or put twice.

*Clocks.* The end of a `udelay` is compared as an unsigned number: near the wrap of
`MTIME_LO` it returns at once.

## 5. The proofs

TLAPS proves the following for all values of the constants (any number of tasks,
semaphores and ticks; any size of heap; any number of URBs, ports, disks, keys), under the
assumptions that the modules state about their constants.

| Theorem (module) | Statement | Extra assumption |
|---|---|---|
| `TypeCorrect` (`XosKernelProofs`) | `Spec => []TypeOK` | |
| `KernelAlwaysGood` | `Spec => []KernelInv` | `UptimeBelowWrap` |
| `ListsAlwaysAgree` | `Spec => []ListsAgree` | `UptimeBelowWrap` |
| `SleepersAlwaysOnTime` | `Spec => []SleepersOnTime` | `UptimeBelowWrap` |
| `WakeupNeverLost` | `Spec => []NoLostWakeup` | `OneTaker` |
| `PreemptsAlways` | `Spec => PreemptsProperly` | `UptimeBelowWrap` |
| `DelaysNeverEarly` | `LateSpec => DelayNotEarly` | `UptimeBelowWrap` |
| `BreaksNoOtherWay` | `LateSpec => []BreaksTwoWays` | `UptimeBelowWrap` |
| `ContractKept` | `Spec => Contract`: `XosKernel` implements `XosSemaphore` | `UptimeBelowWrap`, `OneTaker`, `OneSemaphore`, `TakesUntimed \/ GiversBelow` |
| `TypeCorrect` (`XosHeapProofs`) | `Spec => []TypeOK` | |
| `AlwaysTiled` | `Spec => []HeapTiled` | |
| `AlwaysCoalesced` | `Spec => []Coalesced` | |
| `AlwaysListed` | `Spec => []FreeListGood` | |
| `AllocationsAlwaysHold` | `Spec => AllocationsHold` | |
| `TypeCorrect` (`SdDriverProofs`) | `Spec => []TypeOK` | |
| `AnswersAlwaysOwn` | `Spec => []OwnAnswer` | |
| `TokensNeverLeft` | `Spec => []NoTokenLeft` | |
| `PartsAlwaysCover` | `Spec => PartsCover` | |
| `TypeCorrect` (`EhciHcdProofs`) | `Spec => []TypeOK` | |
| `PoolsAlwaysAgree` | `Spec => []PoolsAgree` | |
| `TransfersEndRight` | `Spec => []OwnTransferEnds` | |
| `NothingStaysBehind` | `Spec => []NothingLeftBehind` | |
| `SchedulesAlwaysRight` | `Spec => []ScheduleRight` | |
| `TypeCorrect` (`UsbHubProofs`) | `Spec => []TypeOK` | |
| `AddressesAlwaysDistinct` | `Spec => []AddressesDistinct` | |
| `InstancesAlwaysAgree` | `Spec => []InstancesAgree` | |
| `HubsAlwaysListen` | `Spec => []HubListens` | |
| `ConfigsAlwaysParsed` | `Spec => []ConfigParsed` | |
| `TypeCorrect` (`UsbMscProofs`) | `Spec => []TypeOK` | |
| `CommandsAreOwn` | `Spec => []OwnCommand` | |
| `DevicesAlwaysListed` (`VfsProofs`) | `BlkSpec => []DevicesListed` | |
| `PartitionsAlwaysScanned` | `BlkSpec => []PartitionsScanned` | |
| `BuffersAlwaysHonest` | `Spec => []BuffersHonest` | |
| `RunsAlwaysWalked` | `Spec => []RunsWalked` | |
| `FilesAlwaysRead` | `Spec => []FilesRead` | `FilesDecodable` |
| `FilesAlwaysFound` | `Spec => []FilesFound` | `FilesDecodable`, `IndexesDecodable` |
| `LinesAlwaysHonest` (`ShellProofs`) | `Spec => []LineHonest` | |
| `MessagesAlwaysHold` | `Spec => MessagesHold` | |
| `PrintsAlwaysRead` | `Spec => []PrintedIsRead` | |

`UptimeBelowWrap`: the model stops ticking before a tick count or a deadline passes 2^31
(248 days at 100 Hz). Beyond it `timeout > 0` no longer means "linked in the sleep list",
because a deadline can be negative as an `int` or exactly 0; `Timer` explores that region.
`OneTaker`: each semaphore has one task that takes it, which is all that one `sem->tcb`
can serve. `OneSemaphore`: a task takes one semaphore only. `TakesUntimed`: no take has a
deadline, so that no semaphore points at a task that has given up. `GiversBelow`: a
semaphore that tasks give is taken by the most urgent task, which never yields, and its
givers are more urgent than IDLE; semaphores that only handlers give may be taken by any
task. They are hypotheses of `ContractKept` (`OneTaker` also of `WakeupNeverLost`), and
each excludes a case of section 4 in which the code does not keep the property. The
instance of `IsrGive` satisfies all of them, with `TakesUntimed`; that of `Kernel` satisfies
`UptimeBelowWrap` and `OneTaker`. In `Timer` TLC finds `Contract` kept across the overflow
as well, as long as no take waits for ever.
`EhciAssumption` and `HubAssumption` ask for a finite set of descriptors and of external
ports, since they are counted. `LayoutAssumption` bounds the bytes of a descriptor by four
pages: with its five pointers it reaches them from any beginning. `ConfigsAssumption` says
what a device sends: descriptors with a length, no endpoint before the first interface, no
two interfaces of the same number and alternate setting. `RunListsAssumption` says what
NTFS writes: a run has clusters, their numbers are those of words, and a distance that is
not negative fits its bytes; the distances that the code decodes wrongly (section 4) are
excluded by `Decodable`, within the property. `FilesDecodable` asks the same of all files
on a volume, `IndexesDecodable` of its table of records and of its indexes; the volumes of
`MCVfs` satisfy both. `FormatsAssumption` says that the values are those of an int and
that `FullHex` (`%08x`) is a directive that shows all digits of a word; the formats are
any strings, and `PrintedIsRead` is about those that `vsnprintk` takes for a directive.
`BlkAssumption` has the card and its BLKDEV apart from the sticks and theirs.
`FatVolumesAssumption` and `NtfsVolumesAssumption` say what is written on a volume: an
entry of the FAT names another one, the chains of files and directories end, a file has
clusters for its size, the root has a place; an index names records, the table's own
record is good, each record has a cluster to itself, cluster 0 holds neither a record nor
a block of an index (it has the boot sector), and runs lie as in `RunListsAssumption`. All
that is called an assumption here is an ASSUME, which TLC evaluates for each instance; the
other names are hypotheses of the theorems.

*The kernel.* `TypeOK` alone is not inductive: unlinking needs the task to be in the list,
hence `TypeInv` (a positive timeout means linked in `sleep`; a give that has found a
waiter has a TCB). `ListsAgree` is not inductive either: at the switch one must know why
the current task is not `T_RUN`. `KernelGood` adds `CurrentRuns` (only between the unlock
of a blocking call and its `_task_switch`) and `GiveWakes` (what a give read of
`tcb->state` after its unlock still holds when a handler links the task; a give by a task
wakes another task). `SleepersOnTime` needs the order of the list, `SleepGood`;
`PreemptsProperly` needs `ReadyGood`. The module begins with the lemmas on the list
operators: membership, injectivity and order after an insertion or a removal.

`DelaysNeverEarly` and `BreaksNoOtherWay` rest on `LateInv`: for a task that is not late,
a semaphore points at it only while it waits for that semaphore, and a give between its
unlock and its read is the only pointer left to it (`WaitOf`). `WaitStep` shows that a
step keeps this for every task but one whose take the timer ends, which `Remember` makes
late, and which stays so until nothing points at it. `BreaksNoOtherWay` adds `WindowInv`:
where the handler is when the current task is linked, and that IDLE is ready whenever it
does not run, so that a switch always finds a task; and `HandlerGives`: nobody links the
task that a handler's give has found.

*The refinement.* The proof maps each step of the kernel to a step of `XosSemaphore` or to
a stutter. Most steps touch no variable of the mapping; the others (`SemAction`) are the
pieces of `xos_sem_take` and the locked section of `xos_sem_give`. The tokens of the
mapping count a give whose waiter has not returned yet; `AnswerInv` says what that waiter
will return, and that one who waits for ever is not woken before, `ValueInv` that counts
are not negative and that a semaphore points at its own taker. With deadlines the read of
`tcb->state` behind the unlock is the danger: `HeldInv` says that the task which a give by
a task has found stays asleep and out of every semaphore until the read, and `TopInv`,
which it rests on, that the most urgent task is dispatched as soon as it is ready, so that
it sleeps whenever another task executes.

*The heap.* `HeapInv` is `TypeOK` and, until a fault, `HeapGood`: `Tiles`, `Merged`,
`ScanFits` (the block that a scan has chosen is free and larger than the request, and only
one task scans) and `Listed`. `FreeListGood` itself is not inductive: two-way links alone
admit a free block that is linked to itself, and taking such a block out, or replacing it,
breaks the list. `Listed` therefore says that the blocks have *some* order along which
each link leads upwards, so that there is no cycle. The pure lemmas `CutTile`,
`SplitTile`, `SwapListed`, `DropListed` and `PushListed` speak of arbitrary functions;
each action is then one or two of them: a split is `SplitTile` and `SwapListed`, a merge
with the next block `CutTile` and `SwapListed`, a merge on both sides `CutTile` twice and
`DropListed`.

*The SD driver.* `SdInv` is the handshake between `sd_cmd` and `sd_irq`: an interrupt that
is still enabled has not given the semaphore, and outside the wait there is no token
(`Handshake`); a token in the wait was given for a signal that ends this command, and the
signals agree with what the controller has done (`AnswerHere`); the words of a long
response are still to come, announced or counted (`WordsCounted`); a late word of an
earlier command is not counted for a long one, since the script sends those only behind
commands without words left (`NoOldWords`). `PartsInv` is the invariant of the loop over
the parts; `MovedInv` adds that the sectors of the parts behind, and those of this part
once its data command has succeeded (`DataDone`), have been carried or are known to be
missing.

*The EHCI driver.* `PoolInv` is `Ownership` (a queue head is at one thread, in a schedule
or waiting for the doorbell) and, until a disconnection, `PoolsAgree` member by member.
`TransferInv` holds until a transfer ends before its thread waits: queue head and URB
point at each other, the waiter of a queue head is the thread of its URB, and a token
there is for a thread on its way to the take. Completion, kill and disconnection are
instances of one lemma on the URBs of a set of queue heads ending together (`Ends`).

*The frame list.* `ScheduleRight` is about what `usb_hc_init` and the two functions that
fill transfers compute, for any number of heads and any size of pages and descriptors.
`Hung` is the invariant of the loop over the heads, by the number of heads that are still
to be hung: a frame begins with the head of the longest interval that divides its place,
and each head links to the next shorter one (`HangIs`, `BuiltIs`, `ChainIs`, `LastIs`).
`PolledEnough` bounds the head chosen for an interval by the logarithm (`LogIs`),
`MicroframesRight` counts the microframes of a mask, and `ChunksAlwaysCover` adds up the
lengths of descriptors, each of which reaches all of its own bytes (`AllReached`). Powers
of two are a recursive function, whose defining equation `Pow2Def` is proved first; facts
about them are shown from a least counterexample.

*Hubs.* Addresses are distinct because a port *holds* the address it has and the one that
its thread is giving it, and what is held is not free (`HoldersApart`). That needs
`OwnerRuns` and `Begun`: the latest thread of a port works on that port, and the port has
no address, driver or instance before that thread gives it one. `Drivers` places hubs;
`Counted` and `Listened` tie the instances and the reports to the ports.

*Configurations.* `ConfigParsed` says that the parser, which moves its pointer before it
adds a length and so never counts the first descriptor, still keeps all that a device has
sent, unless the device sends more endpoints than `ep[]` has (`overfull`) or remains of an
earlier answer mislead it (`misled`). `BytesIs` gives the place of each descriptor in the
buffer as a sum of lengths, that grows along it; `Joined` says that the places in the
answer do not depend on what an earlier device has left behind it, and that all of that
lies further on. What the parser has counted is therefore never more than the answer's
length before its end, so that nothing sent is passed over; and `KeptApart` says that no
later descriptor goes to the entry of one that was sent.

*Mass storage.* `Undisturbed`: as long as no other disk's thread has used `g_msc_buf`
since a command began, the disk, the thread and the buffer agree on the command and on how
far it has come.

*Devices.* `BlkInv` adds to `DevicesListed` that threads work on different BLKDEVs
(`ThreadsApart`), that a device is not in the table before its thread has entered it
(`NotYetListed`), and that a thread whose sector nobody has replaced scans its own
(`BufferScanned`). `PartitionsScanned` compares the loop of `f_initdev` with a definition
by counting; `Scanned` is the invariant of that loop, for any entries.

*Buffers.* `BuffersHonest` is inductive with the types of what it speaks of.

*Run lists.* `RunsWalked` compares the walk and the search with the clusters written out
in one sequence, for any number of runs of any lengths. Each recursive function is shown
to exist (`Recursion`), and a statement to hold for all its arguments (`Reaches`), by the
least argument that is a counterexample. `UptoIs` and `ClustersAre` place each cluster of
the file in a run; `RoundsAre` says that the decoded start of a run is the written one,
since modulo a word the distances add up (`DistanceAdds`). After `m` steps the list stands
at the place of cluster `m` in its run (`OneStep`, `StepsAre`), which is the walk;
`SeekIs` is the search, and `SeekGoesOn` the step behind it at the start of a run.

*Reading files.* `FilesRead` has a part for each file system, and a volume stays what it
is. For NTFS, `NtfsInv` says that a read which still copies stands at the cluster of its
position: `SearchIs` shows that the search finds that cluster from whatever place an
earlier call has left the run list at. Since the code takes the larger of two lengths, a
round copies all that was asked for or leaves the buffers (`RoundIs`), so that one round
is the whole read. For FAT, `FatInv` says how far a read has come (`FatBegun`,
`FatCopied`, and `FatReading` for each place in the code) and that the kept cluster is the
one of the position while no read has failed (`Placed`). `NthIs` says that the clusters of
a file come one from another in the FAT, `NextIs` that `next_cluster` returns the next of
them, or that its failure was noticed or spoils the call, and `Unrepaired` that no step makes
good what has failed. What the buffer holds comes from `BuffersHonest`.

*Finding files.* `FilesFound` compares a look-up, which reads sector by sector and forgets
where it came from, with a reference that follows a path through whole directories. Its
invariant says where the look-up is on that way, and rests on `FatInv` and `NtfsInv`. For
FAT, `FatLookInv`: until a read fails there are `n` and `m` (`Looking`) such that the
first `n` names of the path have led to the directory that is scanned, `m` of its reads
(of a cluster, or of a sector where only the first is scanned) are passed without a hit,
the pending long name is that of the last entries passed (`LfnBeforeIs`), a listing has
counted what these sectors show, and the buffer, if it is trusted, holds the sector that
comes next. `JoinedIs` places the entries of a sector in the directory, `OnPathIs` unfolds
the reference, `HitsAre` that the first hit in a sector is the first in the directory when
no earlier sector has one. `LookFinds`, `LookPasses`, `LookNextRoot` and `LookNextDir` are
the steps of the scan; `LookFound` enters the next directory, and needs that no root
sector lies under the label of one of its clusters, which is the case that `FindRight`
excludes. For NTFS, `NtfsLookInv` says the same of records and index blocks
(`NtfsLooking`), and where the run list of the index stands; `RecordFound` says that the
search of the table finds the cluster of a record, from `SearchIs`, `Trusty` that the
buffer holds the record of its label. A failed read is noticed or spoils the claim in each
step, so that the cases of a failure in the property need no invariant of their own.

*The console.* `LineInv` adds that a line fits its buffer, that `gets` has a full line
only when one was recalled, and that `hbuf` has a Nul. `MsgInv` says that a printk which
is alone is the only one, and that what it has formatted and put is a beginning of its
message, and that the last place of `printk_buf` has a Nul until a message takes it. The
recursion in `WithReturns` is unfolded with `UptoDef`, whose function is shown to exist by
the least length that has none.

`PrintedIsRead` depends on no variable but `pc`: it is a statement about functions on
data, for every format, value and length of a dump. `Recursion` gives the functions that
`itostr`, `str2hex`, `Dump` and `Of` define step by step, `Reaches` is induction over
their steps. `Writes(s, base, h, m)` says that the digits `s`, read behind a number `h`,
make `m`: `ItostrWrites` shows it of what `itostr` writes, `WritesPadded` that zeros in
front change nothing, `FieldIs` that a field of `vsnprintk` has such a block of digits
between blanks. `BlockStep` takes `str2hex` through it character by character, `TwiceRead`
through a command with two of them, and `FullRead` through the one behind "0x", whose
stray 48 is shifted out of the word (`WritesBehind`, `WordsFilled`): `NumbersAreRead`. For
a dump, `Shown` is the invariant of the loop: what is out and what `sbuf` keeps are the
bytes so far, and `sbuf` holds whole words since the last multiple of 16 (`TurnMiddle`,
`TurnLast`). `DumpIs` is what a dump leaves, and `TwoAre` sets a second behind it:
`DumpsAreRead`. The upper-case digits of `%X` are those of `%x` here, as they are for
`str2hex`.

*Only model-checked:* liveness (`SleeperWoken`, `SectorsReturn`, `PortsReleased`,
`CommandsReturn`, `CallsReturn`, `AccessesEnd`), which is out of the prover's reach; and
`ReadsRight` of the bridge, which depends on `Ratio` and on the lengths of the PSRAM's
transfers, so that its invariant would list the states of the product of two state
machines. Every other property of a passing run is a theorem.

## 6. Not modelled

* **HID** (`usbh_hid.c`): the Makefile does not build it. **CoreMark**: a vendored
  benchmark, not built. **FPGA tools**: they run at build time.
* **Registers**: what `usb_hc_ehci.c`, `spi_sd.c` and `cpu_agrv.c` write to which register
  is kept only as far as it changes what may happen next; the context switch itself is the
  naming of the current task; start-up code and the UART's own registers are left out.
* **Data**: payloads, dates (`parse_ftime` compares `d > mdays` and shows the first of a
  month as the day behind the last), upper and lower case, code pages, logs and wording.
* **Shell commands** other than the dump: they read and write memory, or start a driver
  that has a module of its own. `sdrt` passes typed numbers to `sd_read_blocks`.
* **Isochronous transfers**, companion controllers and the parts of `usb_scsi.h` and
  `usb_def.h` that the driver does not use.
* **Joint state spaces**: `SdDriver` stands on the contract of the kernel's semaphore; the
  other modules meet at their interfaces (a transfer ends, well or not; a disk comes or
  goes; a read fails), since their product is out of TLC's reach. `EhciHcd` has its own
  copy of the semaphore because two threads may take one there, which the contract
  excludes.
* `sd_write_sector` is modelled although no caller in the VFS reaches it today
  (`write_cluster` is unused).

Components whose status is `partly` in `PROJECT.json` name what they leave out.

## 7. Plan

Done, in this order: `XosList`, `XosKernel`, `XosSemaphore` and `XosKernelContract` with
their proofs; `XosHeap` with its proofs; `SdDriver`; `EhciHcd`; `UsbHub` and `UsbMsc`;
`Vfs` with `FatFs` and `NtfsFs`, and `BlkDev`; `AhbBridge`; `Shell` and `Printk`; then the
proofs of section 5 about the drivers, the VFS, the console and the refinement of the
semaphore; those about the frame list, the configurations, the look-ups and what is
printed; last `XosKernelLate`, which replaced statements about untimed takes.

What remains is a disk that goes while a file call uses it, which needs `BlkDev` and `Vfs`
in one state space or a contract between them; several takers of one semaphore, as the
mutexes of the USB stack have; and a proof of `ReadsRight`, for `Ratio` 1 and 2 and the
memories other than the PSRAM first. When the code changes, the lines in `PROJECT.json`
lead to the definitions to compare.
