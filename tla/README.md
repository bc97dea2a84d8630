# TLA+ models of SacabambaspOS

SacabambaspOS is a UEFI application that loads an x86-64 kernel: a shell on a
framebuffer console, PS/2 and USB keyboards, and ring-3 programs from an
archive. This directory holds TLA+ modules of its parts, the TLC
configurations that check them, and TLAPS proofs of all their safety properties.
Paths below are relative to the repository root (`src/kernel/...`,
`src/efi/...`); every definition that models code is listed with its lines in
`PROJECT.json` under `map`.

## 1. The system

| Component | State it keeps | Operations | Talks to |
|---|---|---|---|
| UEFI loader, `src/efi/boot.c` | pool and page allocations, `bootinfo`, `ol_live`, `g_ebs_tried`, the memory-map key | `load_asset`, `load_file`, `kernel_load`, `draw`, `ol_init`, `exit_boot_services`, `efi_main` | firmware calls, each of which may fail; hands `bootinfo` to the kernel |
| Boot sequence, `kmain.c`, `src/init/INIT.RC` | none of its own | `kmain`, `run_initrc` | calls every init function once, then the shell |
| Heap, `kmain.c` (`dma_alloc` in `usb.c`) | `heap_at` | `kalloc`, `kalloc_page`, `dma_alloc` | page tables, user pages, console buffers, TRB rings; nothing is ever freed |
| Page tables, `paging.c` | the identity map, the user window | `paging_init`, `protect`, `vm_ensure_identity`, `vm_user_map`, `vm_user_unmap_range`, `vm_user_ok` | heap; processes |
| Processes, `proc.c`, `entry.S` | `img_lo/hi`, the saved kernel context, exit code | `proc_exec`, `elf_run`, `load_segment`, `syscall_dispatch`, `proc_fault`, `user_abort` | page tables, console, keyboards, ticks |
| Interrupts, `kmain.c`, `entry.S` | `ticks`, IDT, PIC and LAPIC set-up | `isr_common`: tick, IRQ1, faults | PS/2 driver, processes |
| PS/2 keyboard, `kbd.c` | ring `buf`, `ext`, `shift`, `caps` | `kbd_init`, `kbd_irq`, `kbd_poll`, `decode`, `kbd_trygetc`, `kbd_getc` | 8042, IRQ1, PIT; the USB key queue |
| xHCI rings, `usb.c` | `Ring`, event-ring dequeue pointer and cycle | `ring_push`, `poll_events` | the controller, through shared memory |
| USB keyboards, `usb.c` | `dev[]`, `pscan`, one waiter, key queue, `rep_usage` | `usbkbd_poll`, `handle_event`, `port_scan`, `enum_device`, `dev_drop`, `kbd_recover` | controller, ports, PS/2 layer |
| USB hubs, `usb.c` | `conn`, `nports`, `parent` and `route` in `dev[]`, `hubscan_at` | `hub_setup`, `hub_scan`, the rescan in `usbkbd_poll` | the same, and the hubs' own port states |
| Console, `console.c` | `cells`, `shadow`, framebuffer, cursor, colors | `con_init`, `con_putc`, `con_setxy`, `con_clear`, `con_cursor`, colors | loader's panel; shell; programs |
| Shell, `shell.c` | line, edit position, history | `read_line`, `render_line`, `shell_run_line`, builtins | console, keyboards, processes |
| User programs, `src/user/` | their own | `hello`, `primes`, `crash`, `snake` | syscalls |
| Tools, `tools/`, `scripts/` | none | file conversion on the host | - |

The kernel has one thread. What makes it hard is not threads but

* **interrupts**: IRQ1 and the tick run between any two instructions where IF
  is set, and `hlt` loops depend on them;
* **a device that shares memory**: the xHCI controller reads TRBs while the
  driver stores them, and posts events while the driver is waiting for
  another one, so that a report or a port change is handled in the middle of
  an enumeration;
* **the user**, who plugs, unplugs and types at any moment;
* **failure in the middle**: no memory halfway through a segment, a transfer
  that fails in the middle of an enumeration, a file that is cut short, a
  firmware that refuses; waits that give up while the answer is on its way;
* **long sessions**: programs run one after another on a heap that only
  shrinks, in a window whose mappings the previous program may have left;
* **tables under tables**: large pages are split while they map the code that
  splits them, from a heap that may refuse, and the processor keeps copies;
* **numbers from files**: what the headers of the kernel and of programs say is
  used as addresses.

What makes each component correct is stated as properties in its module; the
hazards they are aimed at are listed in `PROJECT.json`, each at its line.

## 2. Modules

| Module | Models | Notes |
|---|---|---|
| `KHeap` | `kalloc_init`, `kalloc`, `kalloc_page`, `dma_alloc` | addresses are integers modulo `AddrSpace` (2^64 in the code), so a sum that wraps is seen |
| `AddressMap` | nothing: the abstract specification of the page tables | one flat map from pages to translations |
| `Paging` | `paging.c` whole, in the order `kmain`, `usb.c` and `proc.c` call it; extends `KHeap` | tables are entries in heap pages; `Walk` and `tlb` are the processor; refines `AddressMap` |
| `Fifo` | nothing: the abstract specification of a ring | what is got is a prefix of what is sent |
| `RingSizes` | the constants of `usb.c`'s rings and their assumption | |
| `TrbRing` | `ring_init`, `ring_push`, and the controller that executes the ring | one action per store: body, cycle bit, Link TRB |
| `EventRing` | `poll_events` and the controller that posts events | ERDP as the controller last saw it; a full ring makes the controller wait |
| `XhciRings` | a command ring and an event ring joined: an executed command posts its completion | composes the two above |
| `UsbKeyboard` | everything `usbkbd_poll` does for keyboards on root ports | the event ring is the queue `EventRing` is shown to implement |
| `UsbHub` | `hub_setup`, `hub_scan`, the periodic rescan, with all of `UsbKeyboard`'s driver in larger steps | a transfer and its wait are one step, which may fail |
| `Ps2Keyboard` | `kbd.c` and the 8042, one byte at a time | includes `kbd_init`'s drain and the read of the command byte |
| `UserProc` | `proc_exec`, `elf_run`, `load_segment`, ring 3, the syscalls, faults, `user_abort`, and of `paging.c` `vm_user_map`, `vm_user_unmap_range`, `vm_user_ok` | page by page; pages have a writer, W and X, not contents |
| `Console` | `console.c`, cell by cell | `cells`, `shadow` and `screen` are separate, as in the code |
| `LineEditor` | `read_line`, `render_line`, the history, `shell_run_line` up to the choice of the command | the words of a line are found twice, as the code does |
| `KernelImage` | the numbers in `KERNEL.ELF`'s headers and the checks `kernel_load` makes of them | words of `AddrSpace` values, so that sums and differences wrap |
| `Boot` | every firmware call of `boot.c`, with its failures; `kernel_load` header by header; extends `KernelImage` | files have a size; the memory map has a version |
| `MC*` | constants for TLC | |
| `PagingProofs`, `XhciRingsProofs`, `UsbKeyboardProofs`, `UsbHubProofs`, `Ps2KeyboardProofs`, `ConsoleProofs`, `BootProofs`, `UserProcProofs` | theorems | section 5; `PagingProofs` has those of `KHeap`, `XhciRingsProofs` those of `TrbRing` and `EventRing`, `ConsoleProofs` those of `LineEditor` |

An action stands for the code between two points at which something else can
happen: another store for the rings, an interrupt for `Ps2Keyboard`, an event,
a port change or a key for `UsbKeyboard`, a firmware call for `Boot`. Where
nothing can come between (the console, the heap, a key of the line editor)
an action is a whole call, with the repaint at its end. `pc` variables name
the place in the code. Operators called `...Late`, `...Leaking`, `...BySum` and
the like stand beside the definition they distort: each is a plausible bug
with which some property fails, which shows that the property can fail. They
are not part of any specification. A module's `TypeOK` is in no run; those of
`KHeap`, `TrbRing`, `UserProc` and `Boot` are proved; `EventRing`,
`UsbKeyboard`, `UsbHub` and `Ps2Keyboard` have theirs in the proof module, as the
first part of the invariant.

Choices a reader may question:

* `UsbKeyboard`: only ports that need a reset (USB 2), and no hubs. The scan of
  all ports at start-up is covered by a plug before the first poll. A wait of
  the driver is a place from which events are handled until the answer comes or
  `MaxTimeouts` allows giving up. The allocations of `enum_device` succeed
  (`usb.c:367`, `428`), here and in `UsbHub`: no `dev_drop` follows from a dry heap.
* `UsbHub` repeats the driver with hubs and with coarser steps: a command or a
  control transfer and its wait are one step, with events handled between the
  steps. The finer interleavings are `UsbKeyboard`'s. Hubs stand on root ports,
  for the driver leaves a hub behind a hub alone (`usb.c:417`).
* `Paging`: a call is one action, for nothing runs between its stores; the
  functions are operators on the state of the heap and the tables. A loop is the
  recursive function `Over` on the sequence of its turns (`Steps` for a range of
  addresses), where the first turn that fails is the last. A table has
  `Fan` entries, at all four levels. The kernel's image, the boot
  information and the LAPIC are one record per machine. Frames keep no contents
  except where they are tables.
* `KHeap` has no run of its own: `Paging` runs its allocators under their real
  callers, and its theorems hold for every caller.
* `TrbRing` assumes that its callers keep at most `MaxInFlight` TRBs
  outstanding, fewer than the ring holds: `ring_push` does not check, its callers
  wait for each completion. A controller that never answers breaks the
  assumption only after as many timeouts as the ring has slots.
* `UserProc`: two segments that share a page are legal to `elf_run`; the later
  one gets a fresh zeroed page and the bytes of the earlier one are lost. The
  model keeps the permissions, which are the later one's, and not the bytes.
* `LineEditor`: the prompt ends at any column in `Prompts`, for what ran before
  may have left the cursor anywhere, and is on the bottom row. A recalled line
  that is too long for the rest of the row wraps and scrolls, after which `px`
  and `py` point into another row; the ghost `wide` marks that from there until
  Enter the row is not what the properties speak of. Programs and builtins
  that run between two lines are left out, and with them text that a program
  put beyond the prompt with the cursor moved: the row behind a prompt is bare.
  `Argv` is all the words of a line; `TooMany` says that they are more than
  `argv[]` holds, upon which nothing runs.
* `Boot`: a file's kernel headers may hold any numbers, but whether the magic is
  right, and where the header table ends, is one fact of the file each. What
  the scan of a dynamic table finds (`rela`, `relasz`) and the relocations there
  are facts of the header, since they are read from memory just written.

## 3. Runs

All runs use the constants in the `.cfg` of the same name; times are for two
workers.

| Run | Distinct states | What it asks |
|---|---|---|
| `paging` | 90,040, 100 s | the tables implement `AddressMap`; W^X and read-only text, kernel memory out of ring 3's reach, the kernel reaches what it uses, no stale translation, `vm_user_ok` is exact; blocks disjoint, and a refusal costs no page |
| `xhci_rings` | 2.1 M, 40 s | each ring implements `Fifo` |
| `user_proc` | 12,539 | W^X, guard pages, complete images, no leftovers of a program that ran, no kernel fault on a user pointer; `SYS_SLEEP` returns, the shell comes back |
| `usb_keyboard` | 4.2 M, 80 s | one TRB per keyboard, one device per port, no slot leaked, no repeat of a released key, hotplug |
| `usb_hub` | 958 k, 120 s | children have their hub, one device per place, only what is gone is dropped; keys arrive and what is gone is forgotten |
| `ps2_keyboard` | 3.5 M, 130 s | keys arrive once, in order, under the right modifiers, and at all |
| `console` | 4,816 | cursor and glyphs stay inside, the screen shows the cells |
| `line_editor` | 731,591, 40 s | the row shows the line; green means that the line runs, unless it has too many words |
| `boot` | 41,337 | failures free what they hold, the image is loaded inside its pages, the hand-over is true, nothing forbidden after `ExitBootServices`, boot ends |
| `usb_hotplug`, `console_ghost`, `paging_pak` | violations | section 4 |

Why the bounds are enough:

* `paging`: tables of four entries, so that a large page is four pages, "4 GiB" is
  one page directory of 64 KiB and the user window the last root entry. The heap
  (24 pages) lies above that, across two page directories and off the boundary
  of a large page. Two machines: everything but the screen low; everything
  high, with a screen that begins late in a large page. Text of a page and a
  half and data that ends in another large page make both roundings of
  `protect` show, one BAR crosses into another root entry, and up to
  three `kalloc`s and two DMA blocks of sizes below a page, of several pages and
  close to the whole space move the point at which memory runs out over every
  page the calls take. Three programs, one of which is refused at its second
  header, and two of which share addresses with different flags.
* `xhci_rings`: rings of three TRBs, five commands and seven events: more than
  two laps of each, so both cycle polarities and the Link TRB's toggle occur
  twice, with both rings full.
* `user_proc`: seven programs (good, to the edge of the guard, into it, W and X,
  below the window, without a segment, not an ELF file) and a heap for one of
  them and part of the next: exhaustion happens in every place. Write lengths
  cross page ends; exit arguments go beyond eight bits.
* `usb_keyboard`: two keyboards, two ports, two slots; three plug or unplug
  operations, two key changes, one pipe error, one timeout, in any order; a
  rollover is two keys where a report holds one, and the key queue holds one.
  Keyboards and keys are interchangeable (symmetry).
* `usb_hub`: one root port and a hub of two ports, two keyboards with one key,
  a slot for each and one entry more, two plugs or unplugs, one key
  change and one failing transfer, in any order: the hub pulled with
  its children while it is scanned, a keyboard moved between its ports or to the
  root, a failure in every step. Liveness, so no symmetry.
* `ps2_keyboard`: three strokes of a letter, a prefixed key and a shift, a
  mouse byte, and a ring that overflows; with and without IRQ1. Caps lock is left
  to the proof.
* `console`: grids of 1x2 to 2x2 cells with one pixel left over, so that wrap,
  scroll and both clips happen at once; a panel in the screen, one outside, one
  without memory, and a screen too small for a glyph.
* `line_editor`: a row of seven columns and a prompt that ends at column 2 or 4,
  so that three characters fit, or one and a recalled line wraps; letters, spaces
  and quotes give words, empty quoted words and unfinished quotes; a history of
  two is full after two lines. `argv[]` has room for one word, so that `a a` is
  one too many.
* `boot`: files of every size from 0 to the limit plus one, read two bytes at
  a time with short reads; two tries and two changes of the map; a heap size
  that can be halved twice. Addresses of eight bits and pages of eight bytes;
  the kernels are a good one, one at the very end of the address space, and
  ones wrong in one number each, so large that a careless sum or difference wraps.

`CHECK_DEADLOCK FALSE` is set where the surroundings run out of budget (the
ring, USB and PS/2 runs), where `con_init` may find no room for a glyph
(console) and where the machine really stops (boot).
`paging`, `user_proc`, `usb_hub` and `line_editor` check for deadlock.

### Fairness

* `UsbHub`: the kernel polls whenever it waits for a key (`kbd_trygetc` calls
  `usbkbd_poll`), the PIT ticks, a hub ends a reset it began, and the
  controller delivers due reports. Nothing is assumed of the user. `UsbKeyboard`
  has safety properties only.
* `Ps2Keyboard`: the reader goes on, the 8042 presents what it has, a pending
  IRQ is taken when IF is set, and the PIT ticks, which is what `kbd.c:11` relies
  on. IRQ1 itself may be dead.
* `UserProc`: the kernel's own steps and the tick. A program in ring 3 owes
  nothing.
* `Boot`: one processor, so the loader goes on; every firmware call returns. No
  failure is certain to happen, and none is ruled out.

## 4. Where the code does not do what it says

| Run | What happens |
|---|---|
| `usb_hotplug` | A keyboard swapped for another before the driver scanned the port is taken for the old one and never enumerated (`usb.c:545`). |
| `console_ghost` | A scrolling `con_putc` in full screen does not repaint the cell the cursor left: the last character of the row is missing and the cursor block stays (`console.c:236`). |
| `paging_pak` | A program archive that the firmware put above 4 GiB is not in the new map (`paging.c:142`); reading it faults. |

The passing runs check the same properties with exactly these cases set aside
(`HotplugWorksIfSeen`, `ScreenShowsCellsUnlessStale`, and machines without a
high archive in `paging`). `ScreenShowsCellsUnlessStale` sets a second case aside, a
windowed clear with a colored background; after either it says nothing until
the next clear that mends both.

Noticed while modelling, without a run of its own:

* a keyboard `kbd_recover` gives up on leaves its held key repeating
  (`usb.c:456`; `usb.c:201` says that a drop stops it). `RepeatHasKeyUnlessAbandoned`
  sets it aside;
* a port that changes between the read of PORTSC and the write that acknowledges
  it (`usb.c:538`) is not scanned again. `HotplugWorks` and `HotplugWorksIfSeen` set
  such a port aside;
* after a hub-port reset whose poll failed `C_PORT_RESET` stays set (`usb.c:480`),
  so that the next device on that port is looked at too early and given up
  (`usb.c:484`); a device swapped on a hub port between two sweeps, or a hub
  swapped between two scans, is not noticed. `KeysArrive` and `GoneForgotten` set
  these aside;
* a plug cycle of a keyboard costs about 18 KiB of heap, where `usb.c:25` speaks of
  about 12;
* `vm_ensure_identity` has no result: when the heap is dry the BAR stays unmapped
  and `usb.c:614` reads it. `KernelReaches` sets it aside;
* `paging_init` maps what `bootinfo` points at above 4 GiB, and not `bootinfo` itself;
* `boot.c:312` wants every table and relocation target inside `[lo,hi)`; `hi - a`
  (316, 326) and `r_offset + 8` (330) may wrap, which
  `ImageContainedUnlessWrapped` sets aside;
* a recalled line is not held against the width of the row (`shell.c:245`), although
  typing is, to "stay on one row" (`shell.c:257`); `wide` sets it aside;
* `proc.c:173` resets the foreground color only, where its comment speaks of
  "whatever colors" the program left;
* `boot.c` falls back to ConOut after the splash when there is no overlay, where
  the comment after `draw` says that ConOut is never touched again;
* `load_file` refuses a file of exactly `cap` bytes, which its comment allows;
* a quoted command name is drawn red and runs;
* a line of more than 16 words is turned down (`shell.c:279`, `285`) with its command
  drawn green: `render_line` counts no words. `GreenRuns` makes the exception.

## 5. Proofs

The theorems hold for every value of the constants that meets the named
assumptions of the module. Every invariant, action property and refinement that
a passing run checks is proved; only liveness is left to TLC.

| Theorem | Says | Argument |
|---|---|---|
| `PagingProofs!HeapSafe` | `BlocksSafe`: blocks in the heap, aligned, disjoint | `IInv`: the bump pointer is in the heap and every block ends at or below it. Without the bound on the pointer the rounding could wrap; `HeapAssumption` leaves a page between heap end and the top of the address space. One lemma covers every allocator, because all are a `Bump`. |
| `PagingProofs!HeapUse` | `heap_at` never passes the heap's end | part of `IInv`; the heap ends on a page, so rounding up stays inside |
| `PagingProofs!RefusalIsFree` | a refused request costs no whole page | rounding up to 16 or 4096 does not cross into another page |
| `PagingProofs!TlbIsFresh` | the processor holds no stale translation | `TlbInv` adds that it holds none outside a running program; while one runs no table changes, and its end flushes. This is why `vm_user_map` needs no flush |
| `PagingProofs!TablesServe` | the invariant `PInv` always holds | below |
| `PagingProofs!WriteExecuteNever` | `NoWriteExecute`: text and constants are read-only, and nothing is writable and executable with NX | `KernelMap` says what each page of the kernel maps to: `protect` has gone over the text, the constants and the data after the large pages were split; `UserPage` has it of the window, where `load_segment` refuses W with X |
| `PagingProofs!UserOkIsRight` | `vm_user_ok` accepts what ring 3 may access, and only that | `UserPath`: where the last entry of a walk has U the three above it do, because `next_level` sets U on every entry it passes on the way to a page of ring 3's, and no call takes it away |
| `PagingProofs!KernelIsPrivate` | ring 3 reaches its window only, on pages of its own | `KernelMap`: outside the window no last entry has U; `UserMap`: behind each page of the window is a block handed out for it, which is no table and no other page's frame |
| `PagingProofs!KernelReachesAll` | `KernelReaches`: `extra[]`, the tables and, while memory is left, the BARs are mapped to themselves, the tables writable | `KernelMap` again; the heap is in `extra[]`, every table is a page of the heap (`OwnPage`), and the heap does not meet the kernel's image |
| `PagingProofs!KernelHeapSafe`, `KernelRefusalIsFree` | the same of the heap with tables in it, under its real callers | every store of `paging.c` to the heap is a `kalloc_page`, so that `HeapOK` goes from call to call; what moves the bump pointer adds a block |
| `PagingProofs!TablesAreFlat` | `Paging` implements `AddressMap` | each action is a step of the flat map, or none: `paging_init` is `Build`, `vm_ensure_identity` is `Widen`, up to where the memory ran out; a program's segments are a `Load` up to the page that failed, its end an `Unload`. What an earlier segment left under a later one is the harder part (`Load` asks which segment was the last to have a page) |
| `XhciRingsProofs!RingTypes` | type correctness of a producer ring of any size | |
| `XhciRingsProofs!RingIsFifo` | a producer ring of any size implements `Fifo` | `CmdInv`: the controller is on the producer's lap, or one lap behind; every slot between the pointers holds the TRB it should, with the cycle bit the controller expects; a TRB being written and a Link TRB not yet turned are the two special places |
| `XhciRingsProofs!EventRingIsFifo` | an event ring of any size implements `Fifo` | `EvInv`, the same with the parts exchanged, and what makes the controller wait: the ERDP it last saw is at or behind the kernel's pointer, and what was posted since is less than a ring |
| `XhciRingsProofs!CommandsInOrder`, `EventsInOrder` | the two rings joined implement `Fifo` each | a step of the whole is a step or a stutter of each ring (`RingSteps`); a completion reports a command that was executed, so the event ring's producer is one its assumptions allow |
| `UsbKeyboardProofs!OnePerPort` | a port has one entry in `dev[]` | `PortOK`: the port being enumerated has none yet, and the scan that begins one has found none |
| `UsbKeyboardProofs!SlotsAreOwned` | no enabled slot is forgotten, unless a wait gave up | `SlotOK` gives each slot to an entry, or to the answer of the enable being waited for (`AnswerOK`) |
| `UsbKeyboardProofs!OneTrb` | a keyboard never has two transfers outstanding | `PipeOK`: armed, reported, to be recovered, or in recovery, never two of them; `QueueOK` and `CleanOK` keep commands a wait left behind from touching the pipe |
| `UsbKeyboardProofs!RepeatHeld` | only a key known to be held repeats, but for an abandoned keyboard | inductive with `TypeOK` |
| `UsbKeyboardProofs!HotplugSeen` | when nothing is left to do, the devices of a port are the keyboard plugged in there, unless a change fell where no scan could see it or a wait gave up | `HotInv` is added to the invariant: a port on which they differ owes a scan, noted, raised or under way (`Due`, `ChangeOK`, `GoneOK`, `ComeOK`); a keyboard that has an address is where the device of that slot is (`Lodged`); and a pipe is always in the state that its next command expects, so that no command of a bring-up or a recovery fails half way (`EndpointOK`) |
| `UsbHubProofs!NoOrphans` | the children of a hub are found through it | `PlaceOK` says where `hub_scan` is, `EntryOK` what a hub's record holds |
| `UsbHubProofs!PlacesAreUnique` | a place has one entry | `PlaceOK`: the place being enumerated is `Free` |
| `UsbHubProofs!OnlyTheGone` | a detach never drops a device that answers | `AddrOK`: what answers is where its entry says; `PowerOK`; `GoneOK`: what is being dropped does not answer |
| `Ps2KeyboardProofs!WhatIsTypedIsRead` | what is read is what was typed, in order and once, and all of it in the end | `IInv` takes the codes in the ring, in the output buffer and in the keyboard as one sequence: decoding it from what `decode` remembers leads to what the keyboard means (`Leads`). A stroke extends the run (`Extend`), `decode` shortens it (`Advance`), and no other step changes the sequence |
| `Ps2KeyboardProofs!NothingSticks` | shift, caps and E0 are right once all codes are decoded | the same run, of length nought |
| `ConsoleProofs!CursorSafe` | the cursor is on a cell | geometry of the grid is fixed after `con_init`, and `con_putc` and `con_setxy` clip |
| `ConsoleProofs!GridSafe` | every glyph lies in the screen and in the panel | `cols * FontW <= width`, from the division |
| `ConsoleProofs!SeenUnlessStale` | the screen shows the cells | a glyph is painted from its cell, and each operation paints the cells it changes and those the cursor leaves and enters, but for the two that set `stale` |
| `ConsoleProofs!RowShowsLine` | the row shows the line and nothing else, a column is left for the cursor | `LineInv` says it of each column with its hue. `Redraw`: a text that with its pad is no shorter than the old line, and fits, leaves nothing of it; each key is shown to pad enough |
| `ConsoleProofs!GreenWordRuns` | the first word, unless quoted, is green just when it runs or only the number of words is in the way | `ArgvIs` and `HueIs` show that the two recursive functions are defined on every line (`WordRecursion`: each word ends after it begins), so that they can be unfolded once; both then begin with the same word (`HueFirst`) |
| `BootProofs!BootTypes` | type correctness of the loader | `IInv` adds that a halved heap is no larger and that `exit` is reached with tries left |
| `BootProofs!FailuresFreeSafe` | whichever step of loading fails, no file and no image is left that the kernel is not told of, and no asset that was not read to its end | `IInv` ties each buffer to the place in the code and to the job |
| `BootProofs!ImageContainedSafe` | no byte beyond the file is read, none outside the image written or entered, up to the two wraps | `Image`, part of `IInv`, says that `lo` and `hi` bound every segment the first loop has passed (`ImageSpanned`) and still do when `lo` is rounded down (`FloorBelow`); the lemmas `CopyBytes`, `TableBytes` and `WordBytes` turn each check into the bound on the bytes that follow it |
| `BootProofs!QuietAfterExit` | only `GetMemoryMap` and `ExitBootServices` after the first exit | once `g_ebs_tried` is set `pc` is in the exit loop, or past it |
| `BootProofs!HandoverSafe` | what the kernel is told is so | the same `IInv` |
| `UserProcProofs!UserTypes` | type correctness of the process model | part of its `IInv` |
| `UserProcProofs!UserWX` | no user page is writable and executable | a page is mapped with the flags of an accepted header, or as stack |
| `UserProcProofs!GuardStays` | the pages on both sides of the stack stay unmapped | `SegmentPages`: a segment that ends at or below `USTACK_LO - 4096` rounds up to a page no later than the guard |
| `UserProcProofs!PointersSafe` | the kernel never faults on a program's pointer | `PointersHold`: each byte read is on a page the loop of `vm_user_ok` visited |
| `UserProcProofs!LeftoversRefused` | only refused programs leave pages behind | `Owned`: a page in the window is a refused program's, or the running one's and then in the image span, the segment being loaded, or the stack, which is what is unmapped |
| `UserProcProofs!ImageSafe` | a program starts with its whole image and stack | `Mapped(j)` follows the loader through header `j`; `TouchedPages` shows that its loop visits exactly the pages with bytes of the segment |

The page tables need the longest argument. None of their properties is inductive
alone: to say what one store into a table does to the map one has to know that no
other walk comes by there. So `Tree` gives every table one place, a level and a
number (`pos`), and every entry that points to a table the place below it; then
two walks that meet in a table share all that is above. On top of it `Sound`
says that the tables are pages of the heap that were handed out as such, that a U at
the end of a walk has U above it (`UserPath`), and that a split large page
outside the window is full (`Full`). Every function of `paging.c` takes
`Sound` tables to `Sound` tables, changes the map at the pages it was called for and at
no other, and takes only fresh pages, wherever in it the heap runs dry. A
loop repeats that, by induction on its turns: the turns at which the claim
fails, if any, have a least element (`TurnInduction`, from the library's
`WFMin`). `Serves` then says of the tables in use what `paging_init` made
of the boot info, what is in the window and which BARs are there. Tables that
`paging_init` gave up are not in use, and are only `Sound`: `vm_user_map` goes on to
edit them, which is why the invariant also says that not a page is left then.

Why the stated properties are not inductive by themselves, in three more hard
cases. Nothing in `OneTrbPerKeyboard` says what the controller still has to
execute: a Set Dequeue or a Disable Slot left over from a wait that was given up
would disarm or re-arm a pipe later. The invariant therefore follows every
command in the queue to the slot it names. `HotplugWorksIfSeen` speaks only of
the state in which nothing is left to do; the invariant has to say at every
place of `usbkbd_poll` who still knows of a change: its bit in PORTSC, the event
it raised, `pscan`, what `port_scan` just read, or the enumeration going on. Its
own reset raises the event that makes a failed enumeration be tried again. And
`KeysInOrder` compares two sequences between which a code may be in three
places, prefixed or not, under modifiers that are decoded much later than
they were pressed; only the whole run of states between the two is kept by
each step.

The assumptions say what the code's limits say, and no more. `ProgramAssumption`:
a program's headers are a sequence of headers with any address, size and
flags, and `None` is neither a program nor a page table entry. `UsbAssumption` and
`HubAssumption`: slots, entries and ports are numbered from 1, and the budgets of the
surroundings are numbers. `RingSizes`: a ring has a Link TRB and at least one TRB
more than callers keep outstanding. `Ps2Assumption`: the ring holds a byte.
`PagingAssumption`: the window begins at a root entry, ends on a large page and is above the first `Low` bytes; the stack is in
it, in whole pages. `ProgramsAssumption` is what `elf_run` has checked of a header
before it maps a page, with the addresses rounded. `PlacesAssumption`:
the firmware's ranges, the heap and the BARs lie below `USER_BASE` (112 TiB), which the code
takes for granted: `map_large` does not look. The three parts of the kernel's
image follow one another on page boundaries, as `linker.ld` has it, and
the heap is not in them, for the loader allocates it. `LineAssumption`: a prompt ends
in the row.

### What is model-checked only

* Liveness and `ENABLED`, which the provers do not do: `SleepReturns`,
  `ShellComesBack`, `KeysArrive`, `GoneForgotten`, `KeysReturned`, `BootEnds`.
* The violations of section 4.

Induction over data is out of the provers' reach as a general rule (the library's
induction theorems take an operator). Where a recursive function had to be
reasoned about, in `Paging` and in `LineEditor`, the proofs go by the least
counterexample among its arguments, which is a set.

## 6. Not modelled

* USB 3 ports, bringing up the controller, the key table and caps lock of USB
  keyboards.
* GDT, IDT, PIC and LAPIC programming and the panic screen: straight-line
  hardware set-up, run once.
* Builtins of the shell and `run_initrc`: they print, or call what is modelled.
* Glyphs, pixel formats, the serial mirror, log texts.
* User programs (`UserProc` lets a program do anything) and the build tools.

## 7. Plan

Done, in this order: heap, rings, processes, USB keyboards, PS/2 keyboards,
console, loader, line editor, with proofs for the heap, the producer ring,
the processes, the console and the loader; then page tables with their
refinement, hubs with liveness, the arithmetic of the kernel image with its
proof, and prompts that end anywhere; then the proofs for both rings and their
composition, both USB modules, the PS/2 keyboard, what the console shows, and the
processor's copies of the page tables; last the page tables themselves, their
refinement of the flat map, and the line editor.

Next, by importance:

1. `Snake` as a small module: the body never overlaps the food, the ring of
   cells does not overflow.
2. `LineEditor` on `Console` instead of a row, with `run_initrc` feeding it.
3. `UserProc` on the tables of `Paging`, instead of a set of pages.
