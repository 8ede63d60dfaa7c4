# A verification of refterm-x11 in TLA+

refterm-x11 is a terminal emulator for X11. One thread reads the output of a
child process from a pty into a circular buffer, cuts it into segments, lays
the segments out on a grid of cells and hands the grid to OpenGL. This
directory holds TLA+ modules of its logic, TLC configurations that check them
on small instances, and TLAPS proofs for every instance.

## Inventory

| part | source | state | operations | what makes it correct |
|---|---|---|---|---|
| circular buffer | `refterm_example_source_buffer.c` | `RelativePoint`, `AbsoluteFilledSize`, memory mapped twice | `GetNextWritableRange`, `CommitWrite`, `IsInBuffer`, `ReadSourceAt`, `ConsumeCount` | the last `DataSize` bytes can be read, contiguously, at the address the head gives and at the address they had when they arrived |
| input, cursor, segments | `main.c:107-165` | `sg`, `SegmentCount`, cursor | `ProcessInput`, `AdvanceRow`, `AdvanceColumn` | the result depends on the stream, not on where reads split it; the loops end |
| drawing | `main.c:86-104, 122-130, 180-219` | `screen`, `render` | `clear_screen`, `SetCell`, `CursorBack`, `Render` | the screen shows the bottom of the stream; nothing stays undrawn |
| window | `window.c`, `ogl.c` | window size, `tw`, `th`, `screen` | `map_window`, `resize`, `set_terminalsz`, `resize_screen`, `keypress`, `cmessage` | `screen` always has the size of the tty; a resize is followed by a redraw |
| main loop | `main.c:351-467` | `pselect` results, `errno`, X queue | the order of the above in a turn | committed before processed, processed before drawn; never asleep over an event; keys and output pass each other |
| pty, child | `tty.c` | `pid`, the pty, SIGCHLD | `ttynew`, `execsh`, `sigchld` | a child that ends is reaped; what it wrote last is drawn |
| glyph cache | `refterm_glyph_cache.c` | hash chains, free chain, LRU list in one array | `PlaceGlyphTableInMemory`, `FindGlyphEntryByHash`, `UpdateGlyphCacheEntry`, `GetAndClearStats` | an LRU cache of `EntryCount - 1` hashes; a glyph keeps its tile |
| emoji scanners | `emoji_scanner.c`, `emoji_presentation_scanner.c` | scan position, last match | `scan_emoji_presentation`, `itemize_emoji` | the longest emoji sequence is found, at the end of a text too; runs make progress |
| itemisation, shaping | `itemize.c`, `shape.c` | text, levels, glyph places | `itemize_script`, `itemize_embeddings`, `fontsystem_shape`, `render_segment` | each codepoint is in one run, of one direction and script; glyphs stay in the buffer |
| atlas | `freetype.c` | pixels of 100 tiles | `render_ascii`, `render_cursor`, `load_font` | each tile holds its character, on the baseline, and nothing of its neighbours |
| textures, shader | `main.c:218-340`, `grid.f.glsl` | active texture unit, two textures, the size uniform | uploads at start-up, at a resize and in `Render`; `ComputeOutputColor` | a frame shows, pixel for pixel, the text in its cells, at any size of the window |
| emoji tables | `emoji_table.h`, `emoji_scanner.c:8-118` | constant intervals | `bsearch_interval`, `EmojiSegmentationCategory` | each codepoint has the category of its interval, at both ends too |
| scaling | `scaling.c` | none | `area_averaging_scale` and others | not modelled: arithmetic on floating-point pixels |
| escape sequences | `vt.c` | `InputState` | `ProcessChar` | not modelled: included by `main.c:65`, called by nothing, and does not compile |

How the parts meet: the main loop handles the X events (callbacks from a table
indexed by event type, among them `resize`), gets a range from the buffer,
lets `read()` fill it in several pieces, commits it, gives it to `ProcessInput`
and draws if `render` is set. Segments keep raw pointers into the buffer. The
only asynchronous code is the SIGCHLD handler. The glyph cache and the shaping
code are compiled with `shape.c`, a program of its own today, in which the calls
to the cache are commented out (`shape.c:369-381`).

`vt.c:74` lacks a comma, and `main.c` includes the file, so the program as it stands
in the repository does not build until the line is mended or the include removed. The
modules are of what the rest of the source says.

What is hard: pointers kept across wraps of a buffer that goes on being
written; text and line ends split at read boundaries; a resize between two
turns; loops whose end depends on what each branch consumes; three linked lists
threaded through one array; texture uploads that
go to whatever unit is active. `PROJECT.json` lists these at their lines under
`hazards`.

## Modules

`SourceBuffer` models the buffer and the loop that fills it. Memory is one
array of `DataSize` cells; pointers are offsets into the double mapping and
`Mirror` is the mapping. A byte is represented by its position in the stream, so a byte read
through a stale pointer shows. Actions: `BeginRead` (the range is taken),
`ReadTty(n)` (one `read()`), `EndRead` (commit). `MaxFilled` bounds the stream.

`Terminal` models the main loop around it (`Ring == INSTANCE SourceBuffer`, whose
actions it composes with its own). `pc` is the place in the loop: `events`
(`HandleResize`, `EventsDone`), `tty` (`BeginRead`, `ReadTty`, `EndRead`,
`NothingToRead`), `process` and `scan` (`ProcessInput`, one action per branch of
its loops), `draw`. `Rendered` is the screen that `clear_screen` and `Render`
produce, as a function of the segments, the cursor and the size: `GroupEnd`
follows the outer loop, `StartSegment` the do-while, `LastCell` and `GroupByte`
the two inner loops. Bytes are `glyph`, `CR` or `LF`. `stream` records the kinds
of the bytes that were read, `shrunk` whether a resize took cells away; neither
is state of the program.

`TerminalText` adds a reference layout that looks at `stream` only (lines,
columns, rows, cells) and the properties of the terminal. `MCTerminal` gives the
instances.

`LRUCache` says in a page what the header of the glyph cache promises: the
hashes in order of use, the two values stored for each, the statistics.
`GlyphTable` is the implementation: one action per call, composed of operators
from table to table that follow the C functions in order (`LeaveLRU`,
`RecycleLRU`, `PopFreeEntry`, `InsertHash`, `BecomeNewest`). It is sequential
code, so a call is one step. `Walk` follows a list for at most `EntryCount`
links, so a cyclic list shows as one with repetitions. `Memory` is the set of
values an unset word may hold; one of them is chosen for all unset words.
`GlyphTableProofs` has its theorems.

`EmojiTable` is the tables of `emoji_table.h`, interval by interval. `EmojiCategory` is
what the scanner takes a codepoint for: the tests of `EmojiSegmentationCategory` in their
order, and the binary search that most of them end in. `EmojiAutomaton` is the generated
scanner of `emoji_presentation_scanner.c`: its tables, the choice of a transition, the
actions and the transitions at the end of a text, as operators without state (`Scan` is
one call). `EmojiScanner` calls it over a text of codepoints, call by call, and states
what it is compared with: the category of a codepoint by plain membership in the intervals,
and the grammar of emoji sequences (Unicode Technical Standard 51). The grammar is not
in the repository, which has only the generated file.

`Itemize` is the loop of `fontsystem_shape` with the three itemizers nested in it;
a codepoint is its embedding level, its script and its category, as FriBidi,
HarfBuzz and `EmojiCategory` report them. `Shape` extends it with `render_segment`: a step is one run,
found by the itemizers, shaped, and drawn. HarfBuzz is external (`Shaped`): one glyph
per codepoint, in visual order, with the start of its grapheme as cluster; which
glyphs the main font lacks (`notdef`) and which marks have no advance (`flat`) is
chosen freely. `GroupStarts` and `GroupGlyphs` are the loops over glyphs, the
second with the call that shapes missing ones again (`FallbackRange`); `DrawGlyph` is
the body of both inner loops, which are the same. A glyph is drawn when it is
added to `drawn`, with its place; what it looks like is not modelled.
`glyph_count` is never reset by the code, and a text is shaped once.

`EventLoop` models the main loop again, with less of what it computes and all of what it
waits for: `pselect` with its timeout, its failures and the test of `errno`, the X
events still with the server and those already in Xlib's queue (`fetched`), the
handlers of events up to `keypress`'s blocking write, the reading loop with read errors,
and the start-up in `ttynew`. Around it run the child (`ChildStarts` to
`ChildStops`), the X server (`XSends`) and the SIGCHLD handler, whose three steps
(`Deliver`, `sigchld`, `HandlerReturns`) may come between any two of the loop,
which then stands still (`handling`). Bytes are counted, not stored. Modelled from use: the
master side of the pty blocks when full; `signal()` restarts an interrupted `write()`
or `read()`, not `pselect()`; after the child has gone what it wrote can still be
read, then `read()` fails with `EIO`. A key is the `KeyBytes` bytes that
`XLookupString` makes of it; `left` of them are still to be written, and an interrupted
`write()` that has written some returns without the rest, which the code does not look
at; events that Xlib filters or
that have no handler do less than the `resize` modelled. `timeout`, `y` and `errno`
are reset where the program does not look at them again, to keep equal states equal.
`ttynew` goes on when `openpty` fails (`die` returns) and hands out descriptors that were never set
(`opened`); the model takes them for numbers that nothing has open, so that every call on them
fails, which is the likely outcome and not the only one.
`early` and `died` are history.

`Display` models the way from the window's size and the text to the pixels. The font
is `Ascent`, `Descent`, `Advance` and a `Bitmap` for each character; `Atlas` is what
`render_ascii` and `render_cursor` leave in the array of texels, computed through the same
`INDEX`. A texel is the pixel of the character it came from, not a shade. The actions
are the start-up (`Prepare` up to the request to map the window, `MapWindow` for the loop that
waits for it and handles sizes meanwhile, `Upload` for the second
`set_terminalsz` and the two textures) and the turn of the loop as far as the display
goes (`HandleEvent`, `Read`, `Draw`). `glTexImage2D` acts on `tex[unit]`, whichever unit
is active; `glTexSubImage2D` fails when the texture is not large enough. `resize` and
`set_terminalsz` follow `window.c`. The X server gives the window sizes, takes away
what it shows (`XExposes`) and queues events. `ComputeOutputColor` is the shader: cell
and place in it from the pixel's position, the tile from the cells' texture, the texel from the
atlas. A frame (`shown`) records what OpenGL had when it was drawn, and the text,
so that properties can say what each of its pixels should be.

`SourceBufferProofs`, `TerminalProofs` (about `Terminal` and `TerminalText`),
`EventLoopProofs`, `DisplayProofs`, `GlyphTableProofs`, `ScanProofs` (about `EmojiAutomaton`),
`EmojiScannerProofs` (about `EmojiTable`, `EmojiCategory` and `EmojiScanner`) and
`ShapeProofs` (about `Itemize` and `Shape`) hold the theorems.

In every component module, the operators marked `Mutant` are plausible wrong
versions of the definition that follows them; each property is checked to fail
with one of them in its place.

## Runs

| run | instance | what it shows |
|---|---|---|
| `ring` | 5 bytes, 17 read: three wraps and more | window kept, ranges read back, pointers inside the mapping |
| `terminal_text` | 6 bytes, 8 read, 2x2 cells, reads that split lines and line ends | cursor, segments and screen are those of the stream; only committed bytes are processed |
| `terminal_resize` | 3 bytes, 4 read, windows of 2x1, 1x2 and 2x2 cells, with lone `\r` | types and sizes in step, nothing undrawn, every byte read is drawn in the end |
| `terminal_return` | 3x3 cells, 4 read | finding: an empty segment that ends no line |
| `glyph_table` | 4 entries, 2 slots, 4 hashes, two texture layouts, zeroed memory | list invariants, clean entries, separate tiles, one entry per glyph; implements `LRUCache` |
| `glyph_null_tile` | one layout | finding: tile 0,0 is given out |
| `glyph_memory` | memory of zeros or ones | finding: the table relies on zeroed memory |
| `emoji_scanner` | all texts of up to 3 codepoints, one of each of the 15 categories; all of 5 over the joining and over the tagging ones; every end of an interval of the tables and the codepoints beside it, alone and before a selector, a modifier or a flag letter | every call takes the longest sequence of the grammar, or one codepoint; the lines that "should not be reached" are not |
| `shape` | all texts of up to 4 codepoints: letters of two scripts and directions, a mark, emoji (wide), selectors, joiners; every choice of missing glyphs; 4 places | runs are non-empty, cover the text, have one direction and one script, and one kind where emoji are single codepoints; all that is drawn is drawn at places that are counted and in the buffer, but for the second place of a wide character at the last one; clusters have places of their own, no codepoint of a run of plain clusters is lost or drawn twice |
| `event_loop` | ranges of 2 bytes, a pty of 1 byte each way, keys of 2 bytes, 2 bytes of output, 2 X events, 1 stop of the child; with and without a pty and a child | types; no sleep over a fetched event; no output lost on the way; only a signal breaks a key; output drawn, keys delivered, closing obeyed, child reaped |
| `display` | a font of 5x5 texels a cell with high, low and empty glyphs; windows of 1, 2, 3 and 4 cells; 2 resizes, 1 exposure, with and without a window manager; printable, unprintable and negative bytes | types; screen, textures and shader of one size; whole cells; each pixel of each frame is that of the text; a new size is drawn |
| `event_loop_die` | the same, smaller | finding: the terminal outlives `die` |

Why the bounds are enough. The ring's behaviour depends on the head and on the
length of a read; every head position meets every length, before and after
several wraps. On 2x2 cells the 8 bytes of `terminal_text` fill the screen twice
over, so lines wrap, the cursor is clipped, and lines leave at the top; with 6
bytes of buffer the visible text has been overwritten around the wrap. 6 is also
the least buffer the instance can show correctly: `Render` never asks
`IsInBuffer`, so the buffer must hold whatever is visible (the program's is 2 MiB
or so, far more than a screen). With three usable entries and three hashes
in one slot, entries are first, last, both and in the middle of every
list, and eviction meets hits of each. `MaxCalls` bounds the statistics only:
`GetAndClearStats` resets them, so behaviours go on.
In `display` the sizes differ in width only, in height only, and in both, and leave rests of
several lengths beside the cells; a resize can come before the window is mapped, together
with another, and while a frame is pending. The tiles used are the first, the last,
the ends of a row of ten, and the cursor's. The theorems cover every font and size.
The automaton has 12 states, and after the marks `te` and `act` nothing of the
past: three codepoints over all categories take every transition from ten of the states
(the other two are reached only after three codepoints), and five of the joining and tag
categories leave those two too, take the cycles (joined elements, tags) around once
and break them off at each place. In four codepoints a run of each itemizer can end
inside, at, or before the end of another's; four wide codepoints need twice the 4
places there are, and the buffer fills within a group, between groups and between runs.
In `event_loop` a capacity of one makes the pty full and empty in turn, in both
directions at once; two bytes of output and a range of two let a visit read once or
twice, fill the range or fall short; two events let one come while the other is
handled; a key of two bytes is twice what the
pty holds, so its write is broken in the middle; one stop and one end of the child are the least that make a second signal
meet a running handler, and further ones find the same states.

`CHECK_DEADLOCK` is left on where the code goes on for ever: the main loop, the
display and the cache. It is off in `emoji_scanner` and `shape`, where a text comes to its
end, and in `event_loop`, where a closed window ends the program.

## Fairness

`LiveSpec` (run `terminal_resize`) assumes weak fairness of the loop's steps
apart from resizes: the loop is one thread and none of these steps
blocks. `EventsDone` is among them: X events stop arriving for long enough once
in a while. The code has no bound for this (`while (XPending(d))`), which is
listed as a hazard. `EndRead` is justified by the 36 ms limit of the reading
loop. New reads and resizes are not assumed to happen. Leaving `draw` is stated
as fairness of `pc`, not of `Draw`, because TLC would otherwise evaluate the
whole screen in an ENABLED; the two say the same, as `Draw` is always enabled at
`draw` and is the only step there.

`LiveSpec` of `EventLoop` (run `event_loop`) assumes weak fairness of the program's steps
and of the handler's (the scheduler runs the process, and the kernel delivers a
pending signal), and of a child that starts or that waits to write into a pty with
room. The child need not begin to write, nor read, nor end, nor be stopped;
the server need not send. `MainStep` is one fair action and not one per step: `pselect`
may fail as often as it likes. `OutputDrawn`, `KeysArrive` and `CloseExits` carry
the condition `Unstuck`: no wait of `keypress` for a full pty lasts for ever. `Stuck` is
every such wait, whether the child is blocked on its own output, or runs and does not
read (`sleep`), or was never forked: `write()` to the pty's master blocks
(`window.c:251`), nothing in the program ends it, and a window that is asked to close
meanwhile does not. No comment of the code excludes it, so it is a condition of the
properties and not an assumption of fairness. That the child reads again and again
(`ChildListens`) is the premise of `KeysArrive` alone, which is about nothing else.

`LiveSpec` of `Display` (run `display`) assumes weak fairness of the program's steps and
of the server's answer to the request to map the window. Resizes and exposures need not happen.
`WindowCatchesUp` holds for a size that another one follows only as far as the last.

## Findings

1. A read that ends in `\r` on an empty line leaves an empty segment that ends no
   line. `Render` takes it for one that does (`main.c:206` "Purely a newline only
   segment") and goes up a row, so the lines above are drawn a row too high until
   the `\n` arrives. In the trace of `terminal_return` (`\n`, a character, `\n`, `\r` in 3x3
   cells) the cursor is in row 2, and the character, typed in row 1, is drawn in row 0.
   With the cursor in row 0 the branch is not reached (`main.c:199`), so the property
   looks only at groups that have a turn, above which another one draws something.
2. The last entry of the glyph table is never given a tile and has 0,0, "never
   used" (`refterm_glyph_cache.c:328-337`).
3. The table is usable only in zeroed memory, while the header shows `malloc`
   and says "Everything else is done for you" (`refterm_glyph_cache.h:81-95`).
4. `tty.c:17` explains that `die` uses `_exit`, so that the handler can end the
   terminal at any point; `die` (`main.c:37-43`) no longer ends anything, and after a child
   that failed the loop goes on over a hung-up pty.

Behaviour that no statement of the repository contradicts, met while modelling: a `\r`
without `\n` drops the rest of the range it is in (`main.c:149-151`), so such
output depends on how the kernel split the reads; a line whose length is a
multiple of the width takes one more row, since the column wraps when it is
full (`main.c:117`); a line of `th * tw` characters or more in several segments is
laid out from its middle with shifted rows (`main.c:205`); a window narrower
than a cell and at least two high divides by zero (`main.c:208`), and without a
`ConfigureNotify` before `MapNotify` (no window manager) there are no rows and no columns and nothing is drawn
until a resize; after a resize to a smaller window the cursor is outside the screen until the next
character (`main.c:111`, `window.c:231-244`); an `Expose` has no handler, so what was
covered stays lost until there is output (`window.c`'s table of handlers); the byte DEL
is shown as the cursor (`main.c:86-104`); `itemize_emoji` ends a run one codepoint
before the end of the first sequence of the other kind (`emoji_scanner.c:147`),
which is its start only if it is a single codepoint, so a longer emoji after text
is divided and its last codepoint shaped by itself (the condition of
`RunsOfOneKind` excludes such texts); segments are never given back and
never counted against `MAX_SEGMENTS` (`main.c:138`); in `render_segment` a mark
without advance at the end of a cluster makes the next cluster be drawn over it
(`shape.c:569`), the range shaped again with another font loses the rest of its last
cluster (`shape.c:513`), and a wide character in the last place takes a place behind the
buffer (`shape.c:582`); a terminal blocked in `keypress` (`window.c:251`) waits for ever for a child that
does not read, for one blocked in its own `write` too, and neither draws nor closes; and a signal may break a key in two there, of
which the rest is never written; `load_font` reads `font.ascent` in the initializer of `font`
itself (`freetype.c:159`), which relies on the order in which the compiler fills it in;
the LCD branch of `render_ascii`, taken with a scalable font, writes 1 in place of every fourth
subpixel, which is lost (`freetype.c:110-117`); `area_averaging_scale` multiplies an index with a pitch that already counts
four floats by 3 (`scaling.c:117`). The properties about the
screen state their conditions accordingly.

## Proofs

All theorems hold for every value of the constants that satisfies the modules'
assumptions: a buffer of at least one byte, reads of at least one byte, windows
that show at least one cell, keys of at least one byte, glyphs that fit into their cells.

The ring (`SourceBufferProofs`). `ReadBack` is not inductive: it speaks of
committed bytes only and does not say where reads in progress go. `IInv` adds
that the range being filled is the current one (`RangeCurrent`) and that the
last `DataSize` bytes, committed or not, lie behind the head (`WindowIntact`).
One lemma per action preserves it; `ReadTty` is the one with content, where
the new bytes overwrite exactly the oldest. `ReadBackCorrect` and
`PointersStayMapped` follow by arithmetic on `Wrapped`. `WindowStaysIntact` states the
second half of `IInv` by itself.

The terminal (`TerminalProofs`). `TInv` joins the ring's invariant with the
types, "bytes are in flight only in the reading loop", the places of the
segments (`SegmentsInPlace`: a segment's pointer is congruent to its stream
position, and its bytes are committed), the same of the rest of the range
(`RestInPlace`), and the cursor's bounds. Each action's part that concerns the ring is a
step of `SourceBuffer`, so the ring's lemmas are reused as they stand.
`OnlyCommittedProcessed` joins the ring's window with `RestInPlace` and `RestCurrent`, that the rest of
the range ends where the committed bytes end (`RestRead`);
`SegmentsStayReadable` combines its window with the
places of the segments; `CursorStays` needs the sizes to be positive.
`NothingStaysUndrawn` says that the screen is the one `Render` would produce, or `render` is
set. It is not an invariant of the drawing alone: `Rendered` is a function of the segments,
the bytes they point to, the cursor and the size (`LayoutKept`, `RenderedKept`), so each action has to
leave these alone or ask for a redraw (`RedrawAsked`), and a read that is in progress
asks when it ends, which `RedrawKept` carries through the reading loop.

The segments against the stream. `SegmentsCovered` is about whole
turns of the loop, and the reads cut the text anywhere, so its invariant speaks of every
place of the scan: `Handled` is the position of the stream that `ProcessInput` has come to,
and `Covered` says that the segments hold exactly the characters before it, in order, with as
many line ends before each as the stream has line feeds. One lemma for each thing the scan
does extends `Covered` by a character, a line end of one or two bytes, a carriage return at the end of
a read, an opened segment or more of the stream. What the scan reads through the range's
pointer is the stream there (`KindRead`), by `RestRead` again. The property's
premise `OnlyLineEnds` is used once: without it a carriage return drops the rest of the range.

The cursor against the stream. `CursorFollowsStream` carries `AtEnd` along the same steps
(`ScanMoves` says what each meets, for both invariants): the cursor is behind the characters of the last
line handled, below the rows of the lines before it. `BehindNext` is the arithmetic of a wrap,
`LinesNext` says what each kind of byte adds to the lines and their texts, and
`RowsAboveIs` that the rows that `AtEnd` adds up step by step are those of the
property's recursion. Its hypothesis is that no resize changes the window (`xw' = xw`): a
resize moves the text to other rows and leaves the cursor alone, so without it the property
is false.

The screen against the stream. `ScreenFollowsStream` takes the turns of `Render` one after the
other and shows that each is a line of the stream. `GroupEnd` and `GroupRow` are recursive
functions, and so is the property's `BottomRow`; each has a solution (`RecursionSolved`) and is
reasoned about by the sets of `UpTo`. `CountTo`, `LinesTo` and `LengthTo` count characters and line
ends of the stream before a position, and `SegmentText`, `LineNumbers` and `TextOfLine` say that the
characters of consecutive segments, and the lines they belong to, are such counts. With this
`GroupIsLine` says that a turn's segments are those of one line, when that line is shorter than
the screen; `TurnsMeetLines`, by induction over the turns, that turn n starts in the line's bottom
row; `LastLineText` that an empty last line, for which there may or may not be a segment, takes no
row either way. `CellIs` computes the cell of a character, which is the one the turn draws it in;
`CellsDiffer` says that two characters never ask for the same cell. What is left is that the
byte read for a cell is still that character: `BytesCounted` and `TurnsFill` bound the bytes
from a visible character to the end of the stream by the cells of the screen and two bytes for each
row's line end, and if the buffer holds as many, `SegmentsReadBack` applies (`ShownInBuffer`).
`DrawnIsStream` puts the cells together, and `NothingUndrawn` says that the screen is what was drawn.
Two facts had to be added to the invariants above: `TailUsed`, that between scans a last
segment without text that ends no line was opened for a carriage return, the last byte handled, and
`CursorInSizes`, that the cursor's row is one of a screen of some size in `Sizes`: after a resize it
may be below the present screen, but never by more than that.

The theorem's hypothesis, `BufferHoldsScreen`, is that the buffer holds a screen of any of the
window's sizes with two bytes more for each row. `main` maps two megabytes (with 4 KB pages), so
that it holds of every window in practice, and the program never compares the two. It cannot be left
out: with a smaller buffer the top rows would show newer bytes. The run `terminal_text` has a buffer that
is two bytes short of it (6 for a screen of 2 by 2), and the property holds there too, because
without resizes the cursor's row is never full.

The event loop (`EventLoopProofs`), for every capacity of the pty and every bound on what
its neighbours do. `TypeOK` is inductive and is shown in two parts,
`PlacesOK` (where the program, the handler and the child are) and `CountsOK` (that reads fit
the range and queues their capacity), one step per action each.
`NoSleepOverEvents` adds `SleepsOnlyIdle`, which only `Top`, where the timeout is
computed after `XPending`, has to establish and every action at `select` to keep.
`NoOutputLost` is the count of bytes in the pty, in the range and processed; the
three actions that move bytes each move as many as they take.
`KeysStayWhole` is about the other direction. Its invariant (`KeysInv`) ties what is
`Missing` to the stops: each stop the child was sent accounts for the rest of one key, and while a
signal is pending, which may still break off a `write()`, one of these is held back.

The display (`DisplayProofs`), for every font of bitmaps that fit into their cells and
every set of window sizes. `IInv` says of each place in `main` which unit is active and which
texture has which size; `resize` before `Upload` overwrites the cells' texture only because
`prepare_glcontext` left that unit active, which is what the invariant has to carry
(`TexturesStayInStep`). `CellsStayWhole` is the arithmetic of the border. `AtlasShowsGlyphs` is about
the atlas alone: two texels with one index are one texel (`TexelsApart`, from quotient and
remainder by the row length and the tile width), so no write of `render_ascii` disturbs another tile, and
reading back a tile gives its glyph. `FramesAlwaysShowText` combines the two: `FrameInv`
says that a frame was drawn with textures in step, and the shader's division finds the cell, the
tile and the texel (`PixelShown`), or the margin (`MarginShown`).

The emoji scanner (`ScanProofs`), for every text over the categories. A scan is a recursive
function over the characters, and so are the actions of a transition (`Take`); both are
reasoned about by sets of numbers (`UpTo`), after it has been shown that the recursion has a
solution (`RecursionDefined`). The tables are constants: what a transition does is read off
them row by row (`OneActionIs`, `TwoActionsAre`, `TransitionTyped`), and what is left is the
state between two characters. `Scanning` says that the first state is held at the start
only and that the states that may come back to an earlier match know one; it is kept by each
transition (`TakeScanning`), and at the end of the text every state returns an end behind the
start (`ScanAdvances`). `ScanSeesLess` compares two calls, one of which sees the text end
earlier. A state stands for a match (`Mark`, `IsEmojiMark`): the one that would be
returned if the text ended here. From character to character this mark never goes back, and
where it stays it stands for the same kind (`MarksGrow`).

The emoji scanner against the grammar (`EmojiScannerProofs`), for every text over any
codepoints. `LongestTaken` joins three results. The first is about the tables:
`SearchFinds` shows, by induction over the size of the range, that the binary search finds what is in a table
whose intervals are in order (`Sorted`); the four Unicode tables are, because each interval
ends before the next begins (`TablesStepwise`). `CategoryIs` then says which class of the grammar each
category stands for. The tests are made one after the other, so this needs facts about the data:
what is shown as emoji is emoji, and so is what a modifier may follow (each interval lies within one
of the other table, and the lemmas name which), no codepoint that an earlier
test takes is among the emoji (`NoEmojiInTable`), and the keycaps and the flag are (`SingleEmoji`).
The second is about the automaton: `RowIs` unpacks the compressed tables (keys, ranges,
default, indices) into 12 rows, which are then used in their place. The third is the argument:
`ReadsTo` says what the characters read so far are in each state (a chain of elements and joiners,
tags behind a flag, an element that may go on, half a flag...), and
`Answers` what a transition says of the sequences: whether the characters up to this one are a sequence and of
which kind, and, where it returns, that no longer text is one (`NoneFrom`). One lemma for each
state (`FromState0` and so on) shows that its row answers rightly and leads to what the next
state reads. `KnowsBest` adds the marks: the mark is at the longest sequence read so far, and no
sequence lies between it and the present character. It is kept by each transition
(`TakeKnowsBest`), begins with the first character (`BeginKnowsBest`), and at the
end of the text or of the scan gives `ScanFindsLongest`. `WordSeen` carries this
from categories to the codepoints of `IsEmoji`, and `CallIsLongest` to the property. The only assumption is that
texts are sequences of natural numbers (`TextsAssumption`). The run `emoji_scanner`
looks at short texts over a few codepoints; the theorem covers texts of any length, so chains of
joined emoji and of tags however long, and every codepoint in every place.

Runs (`ShapeProofs`), for every text, any set of levels and scripts. An itemizer's end is
a least element, which `MinIsLeast` gives; for the emoji run, `ScanAdvances` says that
the scan that differs ends behind one that ended in the run, so that one codepoint
before its end is still not before the start (`EmojiEndFound`). `RunsTileText` and `RunsAreUniform`
follow step by step. `RunsAreOfOneKind` needs `ScanSeesLess`: the property speaks of a
codepoint seen alone, the run was found by calls that saw all of it.

Drawing (`ShapeProofs`), for every run, buffer size and choice of missing glyphs. `GroupDrawn`
and `SegmentDrawn` carry a family of sets of states along the two recursive functions of
`Shape`: what each glyph keeps, a group keeps, and a run. `GlyphDrawn` is what one glyph does:
it is left out for lack of a place, takes a new one, or shares the last. `GlyphsAtTakenPlaces`
rests on `Kept`: before any place is taken the first glyph is bound to take one.
`ClustersApart` is not inductive by itself: places are counted, clusters are not, so
`Places` adds that the clusters come in order, that all places are below the
count, and that the last place is the last cluster's. That a group shaped again stays in order between its neighbours
(`GroupInOrder`) is where the two directions and `FallbackRange` come in, with what HarfBuzz gives
(`ShapedInOrder`: clusters never go back). `AllDrawnOnce` carries `Complete`: the first m
codepoints are drawn, or the places are used up, which the count, as it only grows, still
shows at the end of the run.

The glyph table (`GlyphTableProofs`), for every number of entries, slots and hashes.
`Walk` follows links, so the proofs speak of sequences instead: `IsList` says that a
sequence without repetitions is what the links from a start give, and `WalkIsList` that `Walk`
then returns it. Induction over the links is made by sets of numbers (`Induction`, from least
elements), since the induction theorems of the library cannot be instantiated. The
lemmas `ListPushed`, `ListDropped`, `BackPushed` and `BackDropped` say what a change of one or two
links does to a sequence; the `...Fields` lemmas say which links each function of the
code changes; `ChainLeft`, `Recycled`, `FreeFound`, `Inserted`, `TakenOut` and `PutInFront` join them,
one function each, and `HitFound` and `MissInserted` give the table after a lookup.
The inductive invariant `IInv` is that the three lists exist and divide the entries
(`Sound`), that no two entries in use have the same hash, that free entries are
empty, that the user's `glyph_state` is the newest entry's, and that tiles are where they were
placed. The list properties alone are not inductive: that an evicted entry is found
in its chain needs the chains to hold exactly the entries in use, and that a hit is unique
needs different hashes. `CacheImplemented` maps each step to one of `LRUCache`: the
hashes along the LRU list are `recent`, and a list is full exactly when no entry is free
(`FullWhenNoneFree`, by counting). `TilesStayApart` numbers the tiles row by row
(`TilesInOrder` solves the recursion of `TilePoints`) and shows that the packed index gives the
number back. Two assumptions are the user's to keep: `Memory = {0}`, that the block handed in holds
zeros (finding 3 is what happens otherwise), and, for the tiles, `TilesFit`: no more rows than the 16
bits of a packed point tell apart, since `Y << 16` in 32 bits (`refterm_glyph_cache.c:44`) makes
row 65536 row 0 again. That a row has at most 65536 columns is an assumption of the
module (`PackingAssumption`).

Only model-checked: liveness, which is beyond these provers, and the findings. Every
invariant and every action property that a passing run checks is a theorem.

## Not modelled

`scaling.c` and the blending of `copy5`, `copy2` and `copy1` (floating-point pixels);
scalable fonts and the LCD branch of `render_ascii`; the shader's colours, which are
constants; compiling and linking shaders, and the choice of a framebuffer configuration
(`ogl.c`), which is handed on unchecked; `vt.c` (called by nothing); colours and segment
properties (never set); writes of `SetCell` past the end of `screen`, which the modules leave
out and which the cursor outside the screen (above) leads to; in the shaping code, the decoding of UTF-8 with its cut at 512 bytes,
ligatures (its loops count codepoints where there are fewer glyphs, `shape.c:487`), and the
drawing of bitmaps.

## Plan

In the order of what the system rests on:

1. `SourceBuffer`, with proofs. Done.
2. `Terminal`, `TerminalText`, with proofs. Done.
3. `GlyphTable` as a refinement of `LRUCache`, with proofs of all of its properties. Done.
4. `EventLoop`, with proofs of all of its safety properties. Done.
5. `EmojiAutomaton`, `EmojiScanner`, `Itemize`: the scanner against a grammar, and
   the runs of the nested itemizers, with proofs. Done.
6. `Shape`: the groups, fallback ranges and places of `render_segment`, with proofs. Done;
   left: the cut of the input at 512 bytes and ligatures.
7. `Display`: start-up, sizes, textures, atlas and shader. Done, with proofs; left: scalable
   fonts.
8. `EmojiTable`, `EmojiCategory`: the scanner over codepoints, with proofs. Done.
