# TLA+ models of AWTK's fixed-block allocator and its neighbours

This directory holds TLA+ models of parts of this repository. TLC checks them.
`spec.md` makes the fixed-block (slab) allocator in
`src/src/tkc/mem_allocator_fixed_block.c` the core of the system, so it is
modelled first and in the most detail. The other sources are GUI widgets,
string and conversion utilities, a JSON config reader and writer, and
rendering back-ends. They are listed below along with the plan for the ones
that TLC can check.

## 1. Inventory

### 1.1 Fixed-block allocator (core): `src/src/tkc/mem_allocator_fixed_block.c`

**State.**
- The allocator holds `pools`, the head of a singly linked chain of pools, and `size`, the item size.
- Each pool holds `next`, `num` and the heads of two intrusive, doubly linked unit lists: `used_units` and `unused_units`.
- Each unit carries `prev` and `next` links, followed by the caller's payload.

**Operations.** The vtable has alloc, realloc, free, dump and destroy; there is
also `create`.
- `alloc` calls `extend` first. If every pool is full, `extend` pushes a new pool of
  `NUM_EXTEND(total) - total` units at the head. `alloc` then takes the head
  unit of the first non-full pool and moves that pool to the front if it is still not full.
- `free` locates the unit by address range and alignment (`unit_find`), then
  unlinks it from the used list.
- If that empties the pool while another pool is also empty, `free` calls
  `pools_merge` and does not recycle the unit. Otherwise it pushes the unit
  onto the unused list, and moves the pool to the front if the head pool is full.
- `pools_merge` keeps the first of the largest empty pools and frees the other
  empty pools. It pushes the kept pool to the front, grows it with `TKMEM_REALLOC`
  to the total capacity of the empty pools, and re-chains all of its units.
- `realloc(ptr)` returns `ptr` if `unit_find` accepts it, and
  `realloc(NULL)` is `alloc`.
- `destroy` frees every pool.
- `dump` only prints.
- `mem_allocator_fixed_block_clear` is a static inline function that nothing calls.

**Interactions.** The allocator is called by the generic `mem_allocator_t`
façade and, through it, by clients such as `slist` node allocation
(`slist_set_node_allocator`, `src/src/tkc/slist.h`). It calls the system heap
(`TKMEM_ALLOC`, `TKMEM_REALLOC`, `TKMEM_FREE`), and any of those calls can fail.

**Hard behaviours.** None of these is concurrency: the allocator is
single-threaded by contract (spec §5). The hard parts are:
- long sequences of pointer splices across two lists and a chain;
- the order of steps inside `free`, where the unit is unlinked before the
  merge decision;
- heap failure part-way through a merge;
- caller misuse that passes the range and alignment check (double free, stale
  pointer);
- the growth arithmetic at capacity 0.

**What makes it correct.**
- Every unit of a pool is on exactly one of its pool's two lists, and both lists are well linked.
- The client's blocks are exactly the used units.
- No block is handed out twice.
- At most one pool is empty between calls.
- Free and merge keep the capacity.
- alloc fails only when the heap does.
- The allocator implements an abstract block allocator.

### 1.2 Other components

The radio group, pages and wide string are modelled in sections 4 to 6, the
utilities and the default children layouter in section 7, the draggable in
section 8, the window animator in section 9, the list view in section 10 and
the JSON reader and writer in section 11. The others are not modelled.

| Component | Source | State / operations | What would make it correct |
|---|---|---|---|
| Radio group | `widgets/check_button.c` | `value` and `radio` per button. `set_value` unchecks same-type siblings and then checks itself. Each change dispatches a vetoable `VALUE_WILL_CHANGE`. | At most one radio in a parent is checked. A vetoed change leaves all values unchanged. |
| Pages | `widgets/pages.c`, `pages.h` | `active` (starts at 0xffffffff), `has_active`, three idle ids. Operations: `set_active` (vetoable), add/remove child, load, blur. | `active` stays a valid index after add and remove. Exactly the active page is visible. Idle ids are cleared on destroy. |
| Wide string | `tkc/wstr.c`, `wstr.h` | `str`, `size`, `capacity`, `extendable`. Operations: extend, insert, remove, push, pop, set and attach on a fixed buffer. | `size < capacity + 1` and the terminator stays inside the buffer. uint32 offset arithmetic does not wrap. |
| Singly linked list | `tkc/slist.h` (header only) | The API only. The implementation `slist.c` is not under `src/`. | Modelled from the header and `darray_test`-style contracts, marked spec_modelled. |
| Draggable | `ext_widgets/features/draggable.c` | Pointer down, move and up handlers, with the bounds top/bottom/left/right (modelled in section 8). | A drag keeps a target inside its parent; a press is bracketed by DRAG_START and DRAG_END with the grab held in between. |
| List view, scroll bar | `ext_widgets/scroll_view/list_view.c`, `list_view_h.c`, `scroll_bar.h` | The scroll view it hooks, the two scroll-bar slots with their handlers, and the event handlers and callbacks by the widgets they read (modelled in section 10); scroll offsets and bar values. | The scroll view is the last one added; no handler reads a destroyed widget; only slotted bars drive the view. |
| Window animator | `window_animators/window_animator_common.c`, `window_animator_slide_right.c` | `percent`, `time_percent`, start time, open/close (modelled in section 9). | `percent` moves one way and reaches its end; the last frame shows the whole window or none of it. |
| Layout | `base/layout.c`, `layouters/children_layouter_default.c` | Pure geometry from parameters (modelled in section 7). | hbox and vbox children follow each other spacing apart from the aligned edge; grid cells never overlap and are centred. |
| Progress circle | `ext_widgets/progress_circle/progress_circle.c` | `value`, `max`, angles. `set_value` dispatches a vetoable `VALUE_WILL_CHANGE` and stores the value unclamped; the rest is trigonometry for drawing (not modelled). | Drawing stays within the circle for `0 <= value <= max`. |
| JSON config | `conf_io/conf_json.c` | Recursive-descent reader and indenting writer of `conf_doc` trees (modelled in section 11). | Loading what was saved gives back the document, value types included (it does not: INT_MAX and quoted names); the reader returns on every text (it does not: `[1}`). |
| Utilities | `tkc/utils.c` | Pure algorithms: quick sort, merge sort, bsearch, wildcard match, bit streams, itoa/atoi. | Each agrees with a reference definition over bounded inputs. |
| Rendering, LCD, blending, font/image tools | `base/vgcanvas.c`, `vgcanvas/vgcanvas_cairo.c`, `lcd/lcd_sdl2.c`, `blend/*`, `tools/*` | Thin wrappers over Cairo, SDL and files. | These are outside TLC's reach (pure I/O and float geometry). |
| Misc headers | `main_loop_simple.h`, `csv_file_object.h`, `dialog_highlighter_default.h`, `style_const.h`, `fscript_ostream.h`, `ui_builder_default.c`, `widgets/row.c` | Declarations or trivial glue. | Nothing to check. |

## 2. Plan

Modules are listed in order of importance. Items 1 to 3 and 5 to 8 are built;
the rest are planned for later work.

1. **`BlockAllocator`**: the abstract allocator, a set of live blocks. Alloc
   adds a block that is not live, free removes a live one, and destroy ends it.
2. **`FixedBlockAllocator`**: the detailed allocator with its client. It
   refines `BlockAllocator` through `INSTANCE ... WITH live <- UsedUnits(allocator)`.
3. **`MCFixedBlockAllocator`**: the TLC instance, with pool addresses as a symmetry set.
4. A second allocator run starting from a pre-allocated pool (`InitialNum > 0`).
5. **`CheckButton`** (`check_button.c`): siblings under one parent, with a
   nondeterministic veto by event handlers.
6. **`Pages`** (`pages.c`): the active index under add, remove, set_active and veto.
7. **`WStr`** (`wstr.c`): the buffer and size arithmetic at uint32 width, and
   writes checked against the allocated length.
8. **`Sort`, `StrUtils`, `MemFill`, `MemCopy`, `StrEdit`, `Sscanf`,
   `ChildrenLayout`, `Utils`** (`utils.c`, `children_layouter_default.c`):
   pure algorithms as RECURSIVE operators, checked against reference
   definitions.
9. **`SList`** from the header contract (spec_modelled), and its use of
   `FixedBlockAllocator` as node allocator (a composition).
10. **`Draggable`** (`draggable.c`): the pointer handlers with the grab and
    the bounds, checked in one run with `Pages` (`MCWidgets`).
11. **`WindowAnimator`** (`window_animator_common.c`): create, prepare,
    update and destroy, checked in the same `MCWidgets` run.
12. **`ListView`** (`list_view.c`): the children bookkeeping, checked in
    `MCWidgets` and, for the stale-slot bug, in `MCListView`.
13. **`ConfJson`** (`conf_json.c`): the reader and the writer as pure
    operators, checked against each other in the `json_roundtrip` run,
    which finds the reader not giving back what the writer wrote.

## 3. The allocator model

### 3.1 State

| Model | Code |
|---|---|
| `allocator.pools` (sequence, head first) | `allocator->pools` and each `pool->next` |
| `allocator.num[p]` | `pool->num` (0: the address holds no pool) |
| `allocator.used_units[p]`, `unused_units[p]` | `pool->used_units`, `pool->unused_units` |
| `allocator.next[u]`, `prev[u]` | `unit->next`, `unit->prev` |
| unit `<<p, i>>` | unit `i` of the pool at address `p`, which is also the block address returned to the client |
| `held` | pointers the client holds (returned by alloc, not yet freed) |
| `ret` | the last call: its arguments, returned pointer, `ret_t` and whether a heap call failed |
| `alive` | the allocator has not been destroyed |

Pool addresses come from the constant set `PoolIds`. Every heap call that
creates a pool (`TKMEM_ALLOC`) may return any address not currently in use,
so address reuse after a merge is modelled. The model has these gaps:
- `TKMEM_REALLOC` in `pools_merge` keeps the address. Nothing live points into the pool it grows, because the pool is empty.
- Link fields of memory outside any live pool are kept at NULL, because nothing reads them before `pool_init` writes them.
- Item size and payload bytes are not modelled. The only size distinction kept is "the allocator's size or another".

### 3.2 Actions

Each C function that changes state is a helper that maps an allocator
record to an allocator record, in the order the code runs. Each action is
one whole client call:
- `AllocBadSize`: the size check fails.
- `AllocFromPool`: alloc when `extend` finds a non-full pool.
- `AllocExtend`: alloc after `extend` adds a pool.
- `AllocExtendFails`: `pool_create` returns NULL.
- `Free`: a pointer that `unit_find` accepts. This covers the local recycle,
  the promotion, and the merge with a successful or failed realloc.
- `FreeRejected`: NULL, or a pointer that `unit_find` rejects.
- `Realloc`: a non-NULL pointer.
- `Destroy`: the last call.

### 3.3 Properties

- **`WellFormed`** (invariant): the chain holds each pool once. Every unit
  `0..num-1` of every pool is on exactly one of its two lists. Both lists end
  at NULL without a cycle, and `prev` mirrors `next`.
- **`HeldAreUsed`** (invariant): the client's pointers are exactly the units on used lists.
- **`AtMostOneEmptyPool`** (invariant): the merge trigger bounds empty pools to one.
- **`AllocFailsOnlyOnHeapFailure`** (invariant): an alloc of the right size
  returns NULL only when a heap call failed. This catches any growth rule that
  creates zero units.
- **`NoAliasing`** (action): alloc never returns a block the client already holds.
- **`FreeKeepsCapacity`** (action): a free, merging or not, keeps the total unit count.
- **`ImplementsBlockAllocator`** (refinement): the model implements
  `BlockAllocator`, with the used units as the live blocks.
- Checked only by violation runs:
  - **`ReallocValidatesOwnership`**: spec §4.6.

Each property of the passing run is confirmed to fail when a "fault variant"
replaces the helper it checks. The variants are defined in the module just
before those helpers (PROJECT.json, "mutants").

### 3.4 Runs

| Run | Config | Expect | Shows |
|---|---|---|---|
| `allocator` | `MCFixedBlockAllocator.cfg` | pass | All seven properties hold. Pool creation may fail; merge's realloc succeeds. |
| `merge_oom` | `MCFixedBlockAllocator_merge_oom.cfg` | violation | When merge's `TKMEM_REALLOC` fails and the kept pool is the one just freed from, that pool loses a unit: the unit is on neither list. |
| `realloc_stale` | `MCFixedBlockAllocator_realloc_stale.cfg` | violation | `realloc` returns a freed pointer as if it were live. |

**Double free (observed, not a run).** With `ClientMisuse = TRUE` and
`PROPERTY NoAliasing`, TLC shows a double free pushing the unit onto the
unused list twice. The unit becomes its own successor, and the next two allocs
return the same block. spec.md does not say what a double free does, so no run
asserts either outcome.

**Bounds.**
- The client holds up to `MaxLive = 4` blocks, starting from `create(size, 0)`.
- The chain then grows through capacities 0, 1, 2 and 4, in pools of 1, 1 and 2 units.
- Merges happen between pools of 1 and 1, 1 and 2, and 2 and 2 (after a
  merged pool is reused), with three or more units on one used list (checked
  with TLC probes).
- Four pool addresses are enough: at most `MaxLive` pools can be non-empty or
  newly created at once.
- `MaxUnits` is derived, not chosen: it is the largest capacity reachable,
  `NUM_EXTEND(MaxLive - 1)`.

The passing run reaches 2,955 distinct states and fires every action.

**Fairness and liveness.** No fairness is assumed, because every call is a
synchronous, bounded step and nothing waits. Deadlock checking is off because
`Destroy` is the allocator's last call. Before `Destroy`, `FreeRejected`
(free(NULL)) is always enabled.

### 3.5 Not modelled

- `dump`, which only prints. It divides by a total that is 0 when the chain is empty.
- `clear`, which nothing calls.
- Pointer alignment arithmetic. A misaligned pointer takes the same path as a foreign one.
- spec.md §4.3 and §8 describe growth as adding `NUM_EXTEND(c)` units
  (0, 1, 3, 8). The code uses `NUM_EXTEND(c)` as the new total (0, 1, 2, 4, 7),
  which is what the model follows. No run checks the spec's wording.
- uint32 overflow of `NUM_EXTEND`. It needs more than 2^31 units, which no heap can hold.
- Concurrent use, which spec §5 excludes.

## 4. The radio group model (`CheckButton`, `MCCheckButton`)

`CheckButton.tla` models the `N` check and radio buttons under one parent
(`src/src/widgets/check_button.c`).

**State.**
- `value`, `indeterminate`, `pressed` and `state` are per-button copies of
  the widget fields.
- `radio` stands for both the `radio` flag and the vtable it selects.
  `check_button_set_radio` always changes the two together.
- `last` records the last call, its target and which of its changes were vetoed.

**Vetoes.** Every value change dispatches `EVT_VALUE_WILL_CHANGE`. An
application handler may answer `RET_STOP`. The buttons in `Vetoing` have such
a handler. On each call the model chooses the set `stop` of buttons whose
change is vetoed; a button outside `Vetoing` is never in it.

**Actions.**
- `SetValueCall` is `check_button_set_value`. For a radio set to TRUE, `SetValue`
  runs the sibling loop: every other child with the same vtable goes through
  `set_value_only(FALSE)`, each vetoable on its own. Then the target's own
  `SetValueOnly` runs.
- `Click`, `PointerDown`, `PointerDownAbort`, `PointerUp` and `PointerHover`
  are the branches of `check_button_on_event`. `PointerUp` clicks only when
  the button was pressed and the pointer is released inside it (a
  nondeterministic `inside`).
- `SetRadio` and `SetIndeterminate` are the setters. `SetIndeterminate`
  refuses a radio button.

**Properties and runs.**

| Run | Config | Expect | Shows |
|---|---|---|---|
| `radio_group` | `MCCheckButton.cfg` | pass | `UnvetoedSelectionIsExclusive`: a radio selection with no veto leaves it the only checked radio, and `get_checked_button` finds it. `SideEffectsOnlyUncheckRadios`: a call changes another button's value only to uncheck a radio sibling of a radio. |

**Vetoes inside a radio group (observed, not a run).** With radio 2 checked,
selecting radio 3 while 2's uncheck is vetoed leaves both checked. Vetoing the
target's own change instead leaves none checked. `set_radio` on a checked check
button can also make a second checked radio. Nothing in the repository says
what a veto inside a group should do, so no property forbids these states.
`UnvetoedSelectionIsExclusive` checks that the next unvetoed selection repairs them.

**Bounds.** There are three buttons, with one of them vetoing. Every
combination of radio and check types is an initial state, so the pass run
covers a radio group next to a check button, and `set_radio` changing the
group. It reaches about 670,000 distinct states.

**Not modelled.** `get_prop`, `set_prop` for other names, painting and the
style-state strings are read-only or cosmetic.

## 5. The pages model (`Pages`, `MCPages`, `MCWidgets`)

`Pages.tla` models one `pages` widget (`src/src/widgets/pages.c`) and its
children. The children are model values from `PageIds`.

**State.** One record `ui` holds:
- the `children` in order, and `children_array`, the framework's array as the
  handlers see it;
- `active`, `has_active` and `auto_focused`;
- each page's `visible` flag;
- the idle ids held (`ids`) and the idle callbacks registered (`idles`);
- `loading`, `alive`, and the count of `EVT_PAGE_CHANGED` events dispatched
  (`page_changed`).

**Framework order.** `widget_add_child` and `widget_remove_child` are not in
the repository. The model follows the order the comments in `pages.c` rely on.
- On add, `on_add_child` runs, then the child is appended, then
  `EVT_WIDGET_ADD_CHILD` is dispatched.
- On remove, `on_remove_child` runs, then the child is removed, then
  `EVT_WIDGET_REMOVE_CHILD` is dispatched.

**Actions.** The actions are:
- loading from XML: `LoadAddChild`, `LoadSetActive` and `Load` (`EVT_WIDGET_LOAD`);
- `AddChild` and `RemoveChild`, with the child-event fix-up;
- `SetActiveCall` (`pages_set_active_by_name`) and `SetAutoFocused`;
- the idle callbacks `IdleInit` and `IdleFocus`;
- `Destroy`.

`SetActive` is `pages_set_active`. It dispatches a vetoable
`VALUE_WILL_CHANGE`. The constant `VetoMayStop` says whether a handler may
stop it.

**Runs.**

| Run | Config | Expect | Shows |
|---|---|---|---|
| `widgets` | `MCWidgets.cfg` | pass | With no vetoes, three invariants and one liveness property hold through loading, adds, removes and destroy (4,706 distinct states of the pages widget, in the same run as the draggable of section 8 and the window animator of section 9). `ShowsOnlyActive`: only the active page is visible. `ActiveValid`: a loaded widget with children has a valid active index. `IdlesOwned`: the registered idles are exactly the ids held, and none outlive destroy. `PagesIdlesRetire` (`IdlesRetire` of `Pages` in the behaviours where the pages widget runs): every idle callback registered is eventually run or removed. |
| `pages_page_changed` | `MCPages_page_changed.cfg` | violation | `ShownChangeNotified` fails. Removing the active page when it is not the last shows the next page, and no `EVT_PAGE_CHANGED` is sent. `on_remove_child` compares the active child before the removal takes effect. |

**Vetoed repair (observed, not a run).** With `VetoMayStop = TRUE` and
`INVARIANT ActiveValid`, TLC shows a handler stopping the child event's
`set_active(0)`. That leaves a widget with a child and no active page. pages.h
says one page is active, but nothing says what a veto of this internal change
should do.

**Bounds and fairness.** There are three pages. Deadlock checking is off
because `Destroy` is the last step. `FairSpec` adds weak fairness on
`IdleInit` and on each `IdleFocus`. The main loop's contract for `idle_add`
(base/idle.h, outside the repository) is that a registered idle runs on a
later iteration. A callback that returns `RET_REMOVE` is then dropped, and
`IdleDone` models that drop. With this fairness, `IdlesRetire` checks that no
idle the widget registers stays registered forever. It would fail if a
callback kept its id, for example if `IdleDone` were dropped. The pages are
not a symmetry set in this run, because TLC does not support symmetry
together with liveness checking.

**Not modelled.** The saved focus target (`default_focused_child.inc` is not in
the repository), `EVT_BLUR`'s save and keyboard focus moves. Painting is not
modelled either.

## 6. The wide string model (`WStr`, `MCWStr`, `MCUtils`)

`WStr.tla` models one `wstr_t` (`src/src/tkc/wstr.c`).

**State.**
- `str.buf` is the memory, and `<<>>` stands for NULL. Element `i` is `buf[i + 1]`.
- `size`, `capacity` and `extendable` are the struct's fields.
- Memory `realloc` adds holds `Junk`.
- `fault` records an access outside the buffer or through NULL. After a
  fault the behaviour is undefined, so no further call is taken.
- `last` records the call and its arguments for the properties.

**Arithmetic.** `uint32_t` arithmetic is computed modulo `2^W` (`U`). With
`W = 4`, the wrap-around the code meets at `2^32` is met at 16, with buffers
TLC can enumerate. Pointer sums such as `p + offset + nr` are not wrapped,
because they are 64-bit address arithmetic in the code.

**Actions.** The initial states are `wstr_create`/`wstr_init` for every
capacity up to `MaxCap` that the heap grants, and `wstr_attach` to a zeroed
buffer. The calls are:
- `ExtendCall`, `Shrink` and `SetWithLen` (`wstr_set` passes `0xffffffff`);
- `Clear` and `RemoveCall`;
- `InsertCall`, which uses the back-to-front copy loop `CopyDown`;
- `ModifyWchar`;
- `AppendCall`, which covers both `wstr_append` and `_with_len`;
- `Push`, `Pop` and `Reset`;
- `NormalizeCall`, whose loop `NormalizeLoop` translates the two pointers
  `s` and `d`.

Every call that grows the string goes through `Extend`. `Extend` fails
beyond `HeapLimit` elements and for an attached buffer.

**Properties and runs.**
- `MemorySafe`: no access outside the memory owned or attached.
- `WellFormed`: the representation every call restores. The text is followed
  by a terminator, and the buffer length matches the capacity.
- `TextSemantics`: each successful call leaves the text its documentation
  gives, and each failure leaves it unchanged. `Meaning` states this on
  sequences, independently of the buffer code. `NewlinesAs` is a declarative
  reference for `normalize_newline`.

| Run | Config | Expect | Shows |
|---|---|---|---|
| `utils` | `MCUtils.cfg` | pass | All three hold for every sequence of calls with texts of up to two characters, removes of 1 or 2, and a heap of five elements. `MCUtils` instances `WStr` beside the utility routines (section 7): each behaviour steps one of the two, so this part adds 17,277 states of its own. |
| `wstr_remove_wrap` | `MCWStr_remove_wrap.cfg` | violation | `wstr_remove(s, 1, UINT32_MAX)` on a two-character string wraps `offset + nr` below `size`. The clamp is skipped and `memmove` reads outside the buffer. |

**Observation (no run of its own).** `wstr_normalize_newline` reads `*s`
without checking that a buffer exists, unlike every other `wstr` call. A
string from `wstr_create(0)` or after `wstr_reset` has a NULL buffer, so
normalizing it dereferences NULL. The `utils` run leaves this call out
(`NullNormalize = FALSE`). With `NullNormalize = TRUE` in a copy of
`MCWStr_remove_wrap.cfg` with `RemoveCounts = {1, 2}`, TLC finds the violation in one step
from the initial state `wstr_create(0)`.

**Bounds.**
- Capacities go up to 4 and the heap grants up to 5 elements.
- That lets an insert move a two-character tail, which is the overlapping case
  of its copy loop.
- Attached buffers reach the capacity limit.
- The characters are `a`, `\r` and `\n`, enough for every branch of
  `normalize_newline`.
- Deadlock checking is on: `Clear` and `Reset` are always enabled, unless a
  fault stops the model.

**Not modelled.**
- The UTF-8, integer and float conversions (`set_utf8`, `from_*`, `to_*`,
  `push_int`, `trim_float_zero`, `to_fix`, `add_float`) go through
  `printf`/`strtod` formatting.
- `wstr_eq` and `wstr_equal`, `count_char` and `get_utf8` only read.
- The `wstr_insert` wrap of `size + nr + 1` needs a text of about `2^32`
  characters, which the model's texts cannot be.

## 7. The utility algorithms and the default children layouter

Modules: `Sort`, `StrUtils`, `MemFill`, `MemCopy`, `StrEdit`, `Sscanf`,
`ChildrenLayout`, `Utils` and `MCUtils`.

`utils.c` holds pure routines. So does the layout function of
`layouters/children_layouter_default.c`, once its widget calls are taken as
given. Each routine is an operator, RECURSIVE where the code loops, and
follows the C code loop by loop. `Utils` is a caller with a single variable,
`call`, which records one call: the routine, its inputs, its result and its
`ret_t`. From the idle state, one step calls one routine on inputs drawn from
small sets, and `Return` brings the caller back to idle. The invariants
compare each result with a reference definition written independently of the
code.

| Module | Code | How it is modelled |
|---|---|---|
| `Sort` | `tk_quick_sort_impl`, `tk_qsort` | `ScanRight` and `ScanLeft` are the two inner loops. `Partition` is the hole-filling outer loop. `QuickSortImpl` stores the pivot and recurses on each side. |
| `Sort` | `merge`, `tk_mergesort_impl`, `tk_mergesort` | `MergeRuns` is the three copy loops, taking the left element on a tie. `Merge` leaves the runs as they are when its `TKMEM_ALLOC` is in the failing set. `MergeCalls` lists the merge calls a sort makes. |
| `Sort` | `tk_strs_bsearch` | `BsearchLoop` uses int32 `low`, `high` and `mid = low + (high - low) / 2`. |
| `StrUtils` | `tk_wild_card_match`, `tk_strrstr`, `tk_itoa` → `tk_itoa_simple` | `WildLoop` walks both strings, and `SkipTo` is the skip after a `*`. `StrrstrLoop` scans down from the last character. `need_len` counts the sign, the digits and the terminator, and the result is NULL when `len <= need_len`. |
| `MemFill` | `tk_memset16`, `tk_memset24`, `bits_stream_get/set`, `tk_bits_data_from/to_bytes_data` | The alignment loop, then the 16- or 12-byte blocks, then the tail. `Store` writes bytes into a small memory and flags a store outside it. A bit is bit `index % 8` of byte `index >> 3`. |
| `MemCopy` | `tk_memcpy`, `tk_memcpy_by_align_4`, `tk_pixel_copy` | The byte prefix up to the 4-byte boundary. Then the switch's fall-through chains of int, short and byte stores (`TinyCopy`) below 64 bytes, or one memcpy. The alignment asserts are recorded as a flag. |
| `StrEdit` | `tk_skip_chars`, `tk_str_trim_left/right`, `tk_str_append`, `tk_strncpy(_s)`, `tk_str_start/end_with`, `tk_levelize`, `tk_strtol` (`HAS_NO_LIBC`) | A destination is a buffer of cells with a fault flag. The result text is what precedes the first NUL. `tk_levelize` takes its levels as the `%d-%d` entries `tk_sscanf` reads. `StrtolLoop` reads at most ten digits. |
| `Sscanf` | `tk_vsscanf_simple`, `str_skip_int/xint/float` | `ScanLoop` tests the format character and then the input character, and sets `overread` when either test passes a terminator. `WidthConv` covers `%<n>d/x/u/s`. `PlainConv` covers `%d %u %x %p %f %ld %lu %lf`. |
| `ChildrenLayout` | `children_layouter_default_create`, `_set_param`, `_layout` | `Configured` applies `set_param` for each parameter to a created layouter. `Lines` gives rows and cols from counts, or from a row height or column width, flexible or not (`tk_roundi` is `RoundDiv`). `HBox`, `VBox` and `Grid`/`GridLoop` are the three branches, with the uint8_t margins, spacing and counter `c` (`U8`). |

Strings are sequences of model values or one-character strings. Reading at
the length yields `NUL`, as C's terminator does. An array element is
`<<key, id>>`. The comparison sees only the key, so the id makes stability
and permutation checkable. A layout child is a rect `[x, y, w, h]`.

The layout model takes `widget_get_children_for_layout` and
`widget_get_prop_int` as given: the children passed in, and `layout_w` and
`layout_h`. These calls are widget-framework code outside the repository.
Children with a self layouter, and `auto_adjust_size`, are not modelled.

**Properties.**
- `QsortSorts`, `MergesortSortsStably`: the result is a sorted permutation of
  the input. Merge sort also keeps equal keys in order.
- `BsearchFinds`: on a sorted array, the search finds an element with the key
  exactly when one is there.
- `WildcardPrefixPatterns`: the match agrees with shell-style `Glob` for
  patterns whose only `*` is the last character.
- `MemsetFillsExactly`: exactly `size` pixels from `buff` are written, for
  every alignment, and no store falls outside.
- `BitsStreamSemantics`, `BitsRoundTrip`: set and get accept exactly the
  indices inside the buffer, and set changes one bit. Bytes stored as bits
  read back as 0 or 1, and bytes past the bit buffer are left untouched.
- `MemcpyCopies`: for every pair of alignments and every length up to 70,
  `tk_memcpy` and `tk_pixel_copy` write exactly the `len` bytes at `dst`, with
  the source's values. No access falls outside, and the asserts hold.
- `TrimStrips`: trimming removes exactly the leading or trailing characters of
  the set, the empty string included.
- `AppendFits`, `StrncpySTruncates`: the append and the bounded copy store only
  inside the buffer. They leave the whole string, or the longest prefix that
  fits, with its terminator.
- The harness also calls `tk_itoa`, `tk_strrstr`, `tk_str_start_with` and
  `tk_str_end_with`. No property checks their results: one call of each on
  a fixed input shows as much.
- `LevelizeFindsLevel`: on ascending ranges, the result is the first range not
  entirely below the value, and unreadable entries still count.
- `StrtolParses`: after spaces and a sign, the result is the longest run of
  digits of the base (up to ten), with its end.
- `SscanfAgreesWithScanf`: on formats of `%d`, `%u`, `%x` and literals,
  wherever C's `sscanf` makes every conversion, `tk_sscanf_simple` makes the
  same ones. It reads nothing past a terminator.
- `BoxLayoutTiles`: hbox and vbox children keep their own width (height) and
  get the inner height (width). They follow each other `spacing` apart. An
  hbox row starts at `x_margin`, ends at `layout_w - x_margin`, or is centred
  to within 1, as `align_h` says.
- `GridCellsDisjoint`: grid cells never overlap and start inside the layout,
  and hidden children are moved to `(0, 0, 0, 0)`. With a column count, the
  grid of `cols` cells per row lies inside `layout_w`, centred to within 1.

| Run | Config | Expect | Shows |
|---|---|---|---|
| `utils` | `MCUtils.cfg` | pass | All sixteen properties hold, with the three of the wide string (section 6): 90,848 distinct states, about 15 s. |
| `mergesort_oom` | `MCUtils_mergesort_oom.cfg` | violation | `MergesortSortsStably` fails. When `merge` cannot allocate, it logs and returns with the runs unmerged. `tk_mergesort` then returns `RET_OK` on `<<2, 1>>`. |
| `wildcard` | `MCUtils_wildcard.cfg` | violation | `WildcardIsGlob` fails. `*a` matches the empty string, because after the loop the code accepts any pattern left at a `*`. The skip after `*` goes to the first occurrence of the next character and never backtracks, so `*a` does not match `aa`. |

**Bounds.**
- Sorting and search: arrays of up to six elements over three keys. This
  covers duplicates, every partition shape and merge trees three levels deep.
- Strings: up to four characters over two letters, plus `*` and `?` in
  patterns.
- `tk_itoa`: zero, one-, two- and three-digit values of both signs, with
  buffer lengths 1 to 6.
- Fills: 0 to 10 pixels from each alignment.
- Bit buffers: one or two bytes, with indices up to 17.
- Copies: up to 70 bytes, which crosses the 64-byte switch, from every source
  and destination alignment.
- Append and copy: buffers of 1 to 6 cells.
- `tk_levelize`: levels strings of up to three entries.
- `tk_strtol`: numbers of up to three characters over spaces, signs, digits
  and letters, plus ten- and eleven-digit numbers.
- `tk_sscanf_simple`: every input of up to four characters against twelve
  formats.
- Layouter: 80 parameter lists with margins 0 to 4 and spacing 0 or 1.
  - hbox in each alignment, and vbox;
  - grids of 2 or 3 columns and 1 or 2 rows;
  - grids of a column width or row height, flexible or not.

  The widget is 9 or 20 wide and high, and has up to five children of size 3
  or 5. Together these reach children too wide for an hbox, remainders to
  centre, hidden grid children, a flexible count rounding to 0 and empty
  areas (`RET_SKIP`).

**Observations (evaluated, no run).**
- `tk_memcpy_by_align_4` returns `dst + len` for copies under 64 bytes, while
  memcpy returns `dst`. `tk_memcpy` passes that result on.
- `tk_strtol_internal`'s ten-digit cap lets a ten-digit number overflow a
  32-bit `long`. With no digits, `end` points past the skipped spaces and
  sign, where C's `strtol` returns `str`. A `0x` prefix is not skipped in
  base 16.
- `tk_atoi` calls `tk_strtoi`, which only the libc branch defines.
- `tk_sscanf_simple` differs from C's `sscanf` in several ways:
  - `"%2d-%d"` on `"1"` reads past the input's terminator (`str += n`);
  - on `"1-5"` it assigns only one value, because the width consumes `-`;
  - `%lu` counts two assignments;
  - a conversion with no digits assigns 0 and counts one;
  - `%l` at the end of a format reads past its terminator.
- `tk_wstr_select_word`: when the left scan stops at index 0 on a separator,
  `left` is 0 and the separator is selected.
- The layouter's grid stores `(layout_w - w) >> 1` in a uint8_t `x_margin`.
  When twice `x_margin` plus the division remainder reaches 512 (`x_margin`
  255 and at least 3 columns), the stored margin wraps
  and the grid is no longer centred. `set_param`'s case `'a'` has
  no `break` and falls into `'k'`.

**Not modelled.**
- The float, path, escape, locale and string-building routines format through
  libc.
- `tk_lltoa` passes a `uint64_t` to the `int64_t` of `tk_itoa_simple`.
- `children_layouter_default_get_param`, `to_string` and `clone` only read or
  copy the parameters. `base/layout.c` and `widgets/row.c` dispatch to the
  layouters.

## 8. The draggable model (`Draggable`, `MCWidgets`)

`Draggable.tla` models `src/src/ext_widgets/features/draggable.c`. A draggable
sits in a parent widget inside a window. It handles the parent's pointer
events before the parent's children do.

**State.**
- `d`: the `draggable_t` fields. These are the bounds `top`, `bottom`, `left`
  and `right` (`UNSPEC` is `DRAGGABLE_UNSPECIFIED_NUM`), the flags,
  `drag_parent`, `pressed`, the press point `down` and `saved_position`.
- `enable`: the widget's enable flag.
- `pos`: the positions of the two possible targets, the parent and the window.
- `nwpos`: the native window's position.
- `button`: the physical button. Presses and releases alternate.
- `grab`: the grandparent's grab count of the parent, from `widget_grab` and `widget_ungrab`.
- `last`: the last event dispatched, and whether the release sent `EVT_POINTER_DOWN_ABORT`.

**Actions.**
- `SetProp(name, v)`: `draggable_set_prop` with its setter.
- `SetEnable`: the application calls `widget_set_enable` at any time.
- `PointerDown(p)`, `PointerMove(p)` and `PointerUp`: the three handlers,
  each with its `widget->enable` test.
- `GetTarget`, `Limits` and `MoveTarget` are `draggable_get_target` and
  `draggable_move_target`. The tree is parent, then window, then window
  manager. `drag_parent > 0` therefore reaches the window, and
  `draggable_get_target` stops there.

**Framework.** The widget framework is outside the repository. It supplies
`widget_grab`, `widget_move`, the native window and event dispatch. The model
counts grabs, never below 0, and a move sets the position.

**Run.** The draggable shares the `widgets` run with the pages widget, the
window animator and the list view (`MCWidgets`). The four widgets share no state, so
`MCWidgets` does not interleave them, which would multiply their state
spaces. Instead, each behaviour chooses one widget in its initial state
(`which`) and steps only that one. Every behaviour of each widget is
checked, and the state space is the sum: 606,470 distinct states in about
50 s. The pages idles
keep their weak fairness. The draggable's events come from the user and the
application, so they get no fairness.

| Property | Kind | Says |
|---|---|---|
| `DragBracketed` | invariant | While `pressed`, the last event dispatched is that press's `EVT_DRAG_START` or an `EVT_DRAG`, and the grab is held. This holds through set_prop and enable changes. |
| `DragStaysInside` | action property | With the default bounds, a drag never moves a target that is smaller than its parent out of that parent. After a set_prop of `drag_window` mid-drag, the offset is added to the other target's saved position, and only the clamp keeps the new target inside. |

**Bounds.**
- The parent is 4 x 4 inside a 5 x 5 parent.
- The window is 10 x 10 inside an 11 x 10 screen.
- Pointer events happen at two points, 4 and 2 apart. A drag therefore
  overshoots the clamp on both axes.
- `set_prop` is called with `drag_window`, `allow_out_of_screen` and
  `drag_native_window`, each true or false.
- Positions are followed up to |2| (`MaxCoord`). A move beyond that is not explored.
- Grabs are followed up to 2 (`MaxGrab`).
- The mutants show these bounds are large enough to matter:
  - a clamp to `max_x + 1` breaks `DragStaysInside`;
  - an up that leaves `pressed` set breaks `DragBracketed`.

**Observations (evaluated, no run).**
- *Disabled mid-drag.* `pointer_up` does nothing while the draggable is
  disabled. TLC gives this six-step trace:
  1. press;
  2. the application disables the draggable;
  3. release;
  4. the application enables it again;
  5. move, and the target follows the pointer with no button held;
  6. the grab taken at the press is still held.

  The checked formulas were `~button => grab = 0` and
  `[][~button => pos' = pos]_vars`. No document says what a disabled
  draggable should do with a drag in progress.
- *Equal sizes.* A target exactly as wide (or high) as its parent is never
  clamped on that axis, because `min < max` is strict. In the run, the
  10-high window in the 10-high screen moves freely up and down.
- *Native window.* With `drag_native_window`, the native window moves, but
  `pointer_up` compares the target widget's position with the native
  window's saved position. Whether the press is aborted then depends on
  where the native window was, not on how far it was dragged.
- An up with no press taken while enabled still sends `EVT_DRAG_END`, and
  still ungrabs.

**Not modelled.** `get_prop` and the vtable only read. `attach_parent` and
`detach_parent` register and remove the three handlers, and the model has
them registered throughout. `draggable_on_paint_self` and `on_event` do
nothing.

## 9. The window animator model (`WindowAnimator`, `MCWidgets`)

`WindowAnimator.tla` models one window animator of
`src/src/window_animators/window_animator_common.c`, as the window manager
drives it when a window opens or closes: create, prepare, one update per
paint until an update returns `RET_DONE`, then destroy. The slide animators
(`window_animator_slide_right.c` and its siblings) supply a vtable whose
`draw_curr_window` is one of the four `window_animator_to_<dir>_draw_curr`
and whose `update_percent` is NULL, so the default applies.

**State.**
- `wa`: the `window_animator_t` fields the update reads and writes: `open`,
  `duration`, `start_time`, `time_percent`, `percent`, the draw direction,
  the last result, and a phase (`none`, `created`, `running`, `destroyed`).
- `clock`: the window manager's `time_now_ms`.
- `currWin`: whether `curr_win` is still alive.
- `frame`: the destination rect the last update drew for the current window.
- `painted`: whether the paint at the current clock has updated the animator.

**Actions.**
- `Create(open, dir, dur)`: `window_animator_create` through a slide
  creator, with a duration from the creator's args or none (0).
- `Prepare`: `window_animator_prepare`; a duration of 0 becomes 500.
- `Update`: `window_animator_update`. A `start_time` of 0 is taken as unset
  and set to the clock. `time_percent` is the elapsed share of the duration,
  capped at 1. Then `update_percent_default` (the cubic-out easing, or one
  minus it when closing) and its clamp, and the draw of the current window.
- `WADestroy`: `window_animator_destroy` after `RET_DONE`; closing destroys
  `curr_win`.
- `Tick(gap)`: the clock moves on between two paints.

**Arithmetic.** `time_percent` and `percent` are `float_t` in the code. The
model keeps them as exact rationals, so the checks are about the algorithm,
not about float rounding. `tk_roundi` rounds half away from zero.
`easing.c` is outside the repository; the model uses its cubic-out formula,
`(t - 1)^3 + 1`.

**Framework.** The window manager is outside the repository. The model
assumes it updates the animator once per paint, lets the clock move on only
between paints, and destroys the animator once an update returns
`RET_DONE`. The window manager's paint loop justifies the weak fairness on
`Prepare`, `Update`, `WADestroy` and `Tick`.

| Property | Kind | Says |
|---|---|---|
| `PercentMonotone` | action property | From the first frame on, an opening animation never draws less of the window than before, and a closing one never draws more. This holds through the start-time sentinel and the clamps. |
| `FinishesOnTarget` | liveness | Every prepared animator reaches `RET_DONE` and is destroyed. Its last frame shows the whole window when opening and nothing when closing. |

**Bounds.**
- All four directions, opening or closing.
- A duration of 100 or the default 500.
- The animator is created at clock 0, which exercises the unset start-time
  sentinel, or at clock 7.
- Frames are 100 or 150 ms apart.
- The window is 7 x 5 at (2, 1). Its odd sizes make the rounding matter.
- The clock is followed up to 800. That is 150 + 500 + 150: a re-based
  start, the longest duration and one more gap. Every animation can
  therefore run to its end.
- The mutants show these bounds are large enough to matter:
  - closing with the opening formula breaks `PercentMonotone`;
  - a `to_top` variant that places the image by `percent` instead of
    `1 - percent` breaks `FinishesOnTarget`.

**Observation.** An animator whose first update comes at clock 0 keeps
`start_time` 0, so its next update re-bases the start. The animation then
lasts one frame longer than its duration. The clock is 0 only right after
boot, and TLC finds no effect on either property.

**Not modelled.**
- `draw_prev_window`, the overlap default and the dialog highlighter only
  draw the previous window.
- `begin_frame` and `end_frame` only draw.
- The build without the animator cache (`WITHOUT_WINDOW_ANIMATOR_CACHE`)
  paints the window translated, instead of drawing a cached image.

## 10. The list view model (`ListView`, `MCListView`, `MCWidgets`)

`ListView.tla` models how a list view
(`src/src/ext_widgets/scroll_view/list_view.c`) keeps track of its children.
It takes one child as its scroll view and sets that child's `on_scroll`,
`on_scroll_to` and `on_layout_children`. It keeps up to two scroll-bar
children in `scroll_bars[2]` and registers
`list_view_on_scroll_bar_value_changed` on each of them.

**State.**
- `children`: the children, in order.
- `dead`: the children destroyed so far.
- `sv`: `list_view->scroll_view`.
- `hooked`: the scroll views whose callbacks point at the list view.
- `bars`: `scroll_bars`.
- `handlers`: the number of value-changed registrations on each bar.
- `isOver`: `list_view->is_over`.
- `touched`: the widgets the last handler dereferenced. What the handlers
  compute (offsets and bar values, in floats) is set through
  `scroll_view.c` and `scroll_bar.c`, which are outside the repository. The
  model keeps only which widgets each handler reads or writes.

**Actions.**
- `LVAddChild(c)`: `widget_add_child` through `list_view_on_add_child`. A
  scroll view replaces the previous one, and the previous one is unhooked.
  A scroll bar goes through `list_view_on_add_scroll_bar` (`OnAddScrollBar`).
  With both slots full, that drops the first slot and removes its handler.
- `LVRemoveChild(c)`: `widget_destroy` of a child, through
  `list_view_on_remove_child`. The current scroll view falls back to the last
  other scroll-view child. A scroll bar goes through
  `list_view_on_remove_scroll_bar` (`OnRemoveScrollBar`).
- `LVReinit`: `list_view_reinit` with `list_view_scroll_bars_reinit`.
- `LVPointerUp`: `EVT_POINTER_UP` or `EVT_KEY_UP`. This reads each bar in a
  slot.
- `LVPointerOver(over)`: `EVT_POINTER_ENTER` or `EVT_POINTER_LEAVE`. This
  sets `is_over`, then for each non-NULL bar
  `list_view_is_play_auto_hide_scroll_bar_animation` reads the bar and the
  scroll view. With no scroll view it returns at once.
- `LVWheel`: `EVT_WHEEL`. While `is_over` is set, this reads each bar in a
  slot.
- `LVKeyDown(key, mod)`: `EVT_KEY_DOWN`. Without a modifier, the page keys
  scroll the scroll view. With `KeyboardNormal`, so do the arrow keys.
  `LVKeys` has one page key, one arrow key and one other key.
- `LVBarValueChanged(b)`: `list_view_on_scroll_bar_value_changed`, emitted
  by a live bar that holds the handler. This reads the bar and the scroll
  view.
- `LVViewScroll(h)`: `on_scroll` or `on_scroll_to`, called by a live scroll
  view `h` that is hooked. This reads `h`, each bar in a slot, and the list
  view's scroll view.

**Framework.** `widget_add_child`, `widget_destroy` and the emitter are
outside the repository. The model assumes:
- a child is passed to `on_add_child` and then appended;
- a destroyed child is passed to `on_remove_child` while it is still a
  child, and is then removed and freed;
- `widget_off_by_func` removes every registration and ignores NULL.

The children come and go at the application's will, and events come from
the user, so no fairness is assumed.

| Run | Config | Expect | Property | Says |
|---|---|---|---|---|
| `widgets` | `MCWidgets.cfg` | pass | `ScrollViewIsLatest` | The scroll view is always the last scroll-view child, or NULL. |
| `widgets` | `MCWidgets.cfg` | pass | `HandlersOnlyOnSlots` | The value-changed handler is registered only on bars in a slot. A dropped bar never scrolls the view. |
| `listview_dangling` | `MCListView_dangling.cfg` | violation | `NoDanglingUse` | No handler or callback of the list view dereferences a widget destroyed before it ran. |

**Bounds.** `MCWidgets` uses two scroll views and three scroll bars.
`MCListView_dangling.cfg` uses one scroll view and three scroll bars. Both
set `KeyboardNormal` to TRUE, so that every key branch is taken. Every
child is added once and destroyed at most once. Three bars are enough to
fill both slots with one left over, which a removal can then refill. The
mutants show the bounds matter:
- a removal that does not look for another scroll view breaks
  `ScrollViewIsLatest`;
- an eviction that keeps the dropped bar's handler breaks
  `HandlersOnlyOnSlots`.

**Finding (`listview_dangling`).** TLC finds `NoDanglingUse` violated in
five steps:
1. add scroll view `sv1`;
2. add scroll bar `sb1`, which takes slot 0;
3. call `list_view_reinit`, which re-adds `sb1` without clearing its slot,
   so both slots hold it;
4. destroy `sb1`: `on_remove_scroll_bar` clears only the first slot holding
   it;
5. the pointer leaves the list view, and `list_view_on_pointer_leave` reads
   the freed `sb1` from slot 1.

The pointer-up, wheel and scroll handlers, and a later add that evicts the
slot, read it just the same. Without reinit the bar is left in a slot by
four steps:
1. add `sb1`;
2. add `sb2`;
3. destroy `sb2`: `on_remove_scroll_bar` re-adds the last other scroll bar,
   `sb1`, which is already in slot 0;
4. destroy `sb1`.

**Observations (evaluated, no run).**
- *Hooks on the removed scroll view.* `on_remove_child` picks the right
  fallback scroll view, but sets the callbacks through `scroll_view`, which
  still points at the child being removed. `list_view_reinit` makes the same
  mistake when it changes the scroll view. With
  `hooked = IF sv = NULL THEN {} ELSE {sv}` as the invariant, TLC gives a
  three-step trace:
  1. add `sv1`;
  2. add `sv2`;
  3. destroy `sv2`.

  Afterwards `sv1` is the scroll view but has no callbacks, so scrolling it
  leaves the scroll bars behind. The freed `sv2` still holds the callbacks.
  `list_view_h_on_remove_child` (`list_view_h.c`) has the same pattern.
- *One past the array.* `list_view_scroll_bars_reinit` starts `j` at
  `ARRAY_SIZE(scroll_bars)`. Its first compare therefore reads, and its first
  write clears, the word after `scroll_bars[1]`. This is undefined behaviour.
  The header is not in the repository, so the model cannot say what that
  word is. The model takes it to differ from the bar: no scroll bar the list
  view holds lives there. So each bar is added again. Starting at `j = 1`
  would re-add it just the same, so the finding does not depend on this
  choice.

**Not modelled.**
- Offsets and bar values: the handlers compute them with floats and set
  them through `scroll_view.c` and `scroll_bar.c`, which are not in the
  repository. Only the widgets each handler dereferences are modelled.
- The layout and paint callbacks set on the scroll view only lay out and
  draw.
- `set_prop`, `get_prop` and the setters only store or read values.
- `list_view_h.c` lays its children out through the children layouter.

## 11. The JSON reader and writer (`ConfJson`, `Utils`, `MCUtils`)

`ConfJson.tla` models `src/src/conf_io/conf_json.c` as pure operators.

**Reader.** `conf_doc_load_json` is a recursive descent that moves one cursor
over the text. Each routine is an operator of the same name:
- the cursor movers: `SkipToChar`, `SkipToValueEnd`, `SkipSpaces`,
  `SkipComment` with its loop `CommentEnd`, and `SkipAllComments`;
- the value parsers: `ParseName`, `ParseString`, `ParseBool`, `ParseNumber`
  (with `tk_atol` of `utils.c`), `ParseNullString`, `ParseObject` with its
  loop `ObjectLoop`, `ParseArray` with its loop `ArrayLoop`, and
  `ParseValue`.

A parser returns `[ret, cur, node]`:
- `ret` is `"ok"`, `"fail"` for any error return, or `"hang"`;
- `cur` is the cursor;
- `node` is the current node as far as it was built.

The text is a sequence of one-character strings. The cell at its length reads
as the terminator. Every loop iteration and nested call spends one unit of
fuel, starting from `2 * Len + 2`. Every iteration on well-formed text uses
up at least one character, so `"hang"` means the C loop does not return.

**Writer.** `SaveJson` is `conf_doc_save_json_ex`, `SaveChildren` is the two
`save_node_children` routines, and `SaveNode`, `SaveNodeValue`, `SaveSimple`
and `WriteIndent` are the routines of those names. Indent 4 is
`conf_doc_save_json`.

**Framework.** `conf_node.c` and `str.c` are not in the repository. The
model assumes:
- `conf_doc_create_node` gives an object without a value;
- `conf_node_set_value` makes a node simple, and fails when there is no node;
- children are appended in order;
- `str_append_json_str` quotes a string and escapes `"` and `\`;
- `str_unescape` turns a backslash and the next character into that
  character;
- `str_append_int` writes decimal.

An integer keeps its type: `IntValue` is the reader's choice of int32 when
`INT_MIN < n < INT_MAX` and int64 otherwise, and the writer writes both in
decimal. Doubles (written `%.4f`) are left out. The JSON harness of `Utils`
(`JsonNext`, run alone by `JsonOnlySpec` of `MCUtils`) calls
`JsonRoundTrip(doc, indent, pre)`: it saves the document, puts one of four
comment prefixes in front, and loads the result.

| Run | Config | Expect | Property | Says |
|---|---|---|---|---|
| `json_roundtrip` | `MCUtils_json.cfg` | violation | `JsonLoadsSaved` | Loading what was saved gives back the same tree: node types, names, order, values and value types. |

**Bounds.** There are 10,370 documents, each written at indent 0 and 4 and
read after each of four prefixes: none, `/**/`, `//\r\n` and `// \n`.
- Roots: an object or an array of up to two children.
- Children: a simple value, or an empty or one-child object or array.
- Simple values: -1, INT_MAX, both bools, and the strings `"` and `\a`.
- Member names: `a`, `\` and `"`.

These bounds reach both escapes inside strings and names, nesting, empty
containers, the int32 boundary, and the newline and indent the writer puts
before every closing bracket. They also reach both branches of
`skip_comment`'s line-comment end.

**Findings (`json_roundtrip`).** TLC finds `JsonLoadsSaved` violated in one
call, in two ways:
- *INT_MAX changes type.* `[[2147483647]]` with an int32 leaf is written as
  that text and read back with an int64 leaf. `conf_json_parse_number`
  (line 208) keeps `n` as int32 only when `INT_MIN < n < INT_MAX`, so
  INT_MAX and INT_MIN, which fit an int32, become int64. This is the trace
  of `MCUtils_json.cfg`.
- *Names are read without escapes.* With `JsonScalars <- MCJsonScalarsInside`
  (INT_MAX left out) in a copy of the cfg, TLC's trace saves
  `[{"\"":false}]` and reads the member back named `\`. The writer escapes
  the quote, but the name loop of `conf_json_parse_name` (line 53) stops at
  the first `"` whatever comes before it.

Strings with quotes and backslashes, and names with a backslash, do come
back: with names `a` and `\` and without INT_MAX, the round trip holds for
all the documents.

**Observations (evaluated, no run).**
- *The reader can loop for ever.* After an array element,
  `conf_json_parse_array` steps over `,` and stops at `]`. On any other
  character it logs and goes round again without moving the cursor. On
  `[1}`, each round parses an empty number at `}` and appends another node:
  `LoadJson(<<"[", "1", "}">>)` is `"hang"`. In C the loop ends only when
  `conf_doc_create_node` fails for lack of memory. `conf_json_parse_object`
  steps over the unexpected character instead.
- *A missing value is 0.* `{"a":}` reads as `a = 0`: the number parser takes
  the empty text before `}`.

**Not modelled.** `conf_json_load`, `conf_json_save_as`,
`conf_json_save_to_buff` and the other wrappers from line 553 on. They only
move bytes between the reader or writer and data readers, data writers and
`tk_object_t`.
