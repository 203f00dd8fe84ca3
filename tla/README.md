# Specifications of lcthw

`lcthw` is a C library of containers and string routines (exercises after *Learn
C the Hard Way*) and a few programs built on it. The program with state and
concurrency is `bin/stats_server`: ten threads that read requests from TCP
clients through a ring buffer each, and run them under one mutex on a shared
ternary search tree of URLs and their statistics. Around it are a client that
relays through two rings, a package installer that keeps files between its runs,
two programs that read tables of numbers, and the containers and the string
library they use.

This directory holds TLA+ modules for these programs and for the library, with
the TLC configurations that check them, and TLAPS proofs of what holds for every
size. Source names below are relative to the repository (`src/` there is its
library); `PROJECT.json` maps every definition to the lines it models and lists
the hazards line by line.

1. [Inventory](#inventory)
2. [Modules](#modules)
3. [What each run checks](#what-each-run-checks)
4. [Fairness](#fairness)
5. [What is proved](#what-is-proved)
6. [Where code and documentation part](#where-code-and-documentation-part)
7. [What the models leave out](#what-the-models-leave-out)
8. [Plan](#plan)

## Inventory

```
 client --TCP--> recv / read_some --> RingBuffer --get_all--> process_request --> send
                 (src/server.c)       (ringbuffer.c)          (proc_request.c)
                 one thread per slot, one ring per thread        | under one mutex
                 (bin/stats_server.c)                            v
                                             one TSTree (tstree.c), Stats at its delimiters

 user ---read_some--> RingBuffer --write_some--> server      bin/netclient.c: one select
 user <--write_some-- RingBuffer <--read_some--- server      loop and a ring each way

 devpkg -F / -B / -I / -S --shell commands--> /tmp, /usr/local/.devpkg
```

| Component | State | Operations | Hard behaviour | Correct when | Status |
|---|---|---|---|---|---|
| Ring buffer, `src/ringbuffer.c`, `src/lcthw/ringbuffer.h` | `start`, `end`, `looped`, `buffer` | write, read, gets, get_all and the commit macros | wraps, rewinds, exact fits at the end of the array | a bounded FIFO; every copy inside the array | modelled |
| Double-mapped buffer, `RB_init`, `RingBuffer_write1/read1` | `start`, `end`, one set of pages mapped twice | write1, read1 | stepping both indices back by a lap | a bounded FIFO; every copy inside the mapping | modelled |
| Statistics server, `bin/stats_server.c`, `src/server.c` | threads, each with its socket, ring and `errno`; the mutex; `*root` | accept, read_some, get_all, process_request, send, close; create and join in `main`; write_some | interleavings on `*root`; requests cut or joined by recv; clients that close, half-close or reset; an error's -1 used as a count; blocking calls | one request at a time on the tree and none lost; bytes processed in order; threads of clients that left end, then the process | modelled but for the set-up calls |
| netclient, `bin/netclient.c` | two rings, what select reported, the loop's place | read_some, write_some, the round of `main` | a block is committed whole whatever came in | what either peer sends is relayed whole, in order, some day | modelled but for the set-up calls |
| URL store, `src/proc_request.c`, `src/tstree.c` | the tree's nodes: splitchar, low, equal, high, value, stat | create, read, update, delete, list | order of inserts; nodes that are not URLs; nodes freed while pointed to; statistics carried up the tree | a set of URLs; a delimiter's statistics are those of what is below it | requests modelled; text parsing left out |
| Ternary search tree, the rest of `src/tstree.c` | the nodes | insert, search, search_prefix, possible_match_by_prefix, delete, traverse, destroy | deletes that leave nodes without a value; walks that leave the tree | a map of words; a prefix finds a word | modelled |
| Stats, `src/stats.c` | sum, sumsq, n, min, max | create, sample, mean, stddev | unsigned `n` | counts and sums follow the samples | `sum` and `n`, inside the URL store |
| DArray and algorithms, `src/darray.c`, `src/darray_algos.c` | contents, end, max, expand_rate | push, pop, set, get, remove, expand, contract, clear, sorted push, binary search, the three sorts | capacity at its limit, partly cleared memory, a sort that shrinks the allocation | a push always has a cell; what is in use is what was pushed; sorted is a permutation | modelled |
| Hashmap, `src/hashmap.c` | buckets (DArrays), each searched by halves | create, set, get, delete, traverse, destroy | a bucket's order between delete and get; arrays that grow and shrink | a finite map; each node in one cell | modelled, with the default compare function |
| Hash functions, `src/hashmap_algos.c` | none | fnv1a, adler32, djb, default_hash | overflow | no two keys of one length one byte apart share a hash | modelled, `my_hash` left out |
| List, queue, stack, `src/list.c`, `src/lcthw/queue.h`, `stack.h` | first, last, count, prev/next | push, pop, shift, unshift, remove, clear_destroy, destroy | links at the ends; an iteration macro that stops early | both directions agree with `count`; each list is a sequence | modelled but for List_clear |
| List algorithms, `src/list_algos.c` | none | bubble sort, insert_sorted, two merge sorts | the same macro | a list stays a list | modelled, Merge_sort of two lists |
| RadixMap, `src/radixmap.c` | contents, end, max, temp | add, find, delete, sort | partial re-sort from where a search stopped | sorted; find finds what was added | modelled within max |
| BSTree, AVLTree, `src/bstree.c` | nodes with parent, and height in an AVLTree | create, set, get, delete, traverse, destroy; rotations | parent pointers, the root, equal keys, balance after delete | a bag of entries; parent and child agree; heights are right | modelled |
| String search, `src/string_algos.c` | a static skip table; a scanner's haystack, needle and its table | find, scan | a table built for another needle; a match at the end | the first place of the needle | modelled, needles below byte 128 |
| devpkg, `devpkg/*.c` | the build directory, two archives, the database, the running program | -I, -F, -B, -S | any command fails, the program is killed between any two | a record means an install; records and fetched files are kept | modelled; -L prints only |
| reporter and proc, `reporter.c`, `proc.c` | arrays of characters and numbers, columns | one pass over a file | the last number, arrays at their size, digits left from before | the numbers of the file, in their columns | modelled |
| bstrlib, strings, `src/lcthw/bstrlib.c` | slen, mlen and the cells of a bstring | every call on one string; compare, search, split, join | aliasing; growth, refused or granted in part; write protection | the text is what the call says; the `\0` is inside the cells | modelled, bstrList's allocation left out |
| bstrlib, streams, same file | the core stream, the buffer, the flag for its end | bread, bgets and all `bs` functions | reads that give less than asked for; what was read too early | every byte once and in order | modelled |
| Suffix tree, `src/suffix_tree.c` | - | - | - | - | not modelled: unfinished |
| urlor, `bin/urlor.c` | - | - | - | - | not modelled: command-line I/O around modelled calls |
| `stat_server/*.c` | - | - | - | - | not modelled: drafts no build rule uses |

How they interact. `main` passes each thread the address of its own `root`;
`client_process` gives its socket and ring to `read_some`, which calls `recv` on
the ring's memory and the commit macro on its result. `RingBuffer_get_all` turns
what is unread into a bstring for `process_request(&root, data)`. That calls one
of the request functions, which walk the tree recursively or in loops, collect
the delimiters they pass in a List, and hand that list to `update_tracer`. The
reply goes out by `send` with `MSG_NOSIGNAL`; `errno`, per thread, is what tells
the loop to end. `netclient` has one thread, and its two directions take turns
in a round of `select`. `Hashmap` keeps its nodes in DArrays; `devpkg` starts a
shell command for every step and keeps its database with bstrlib, so that each
run of it finds what the run before left in files. Two habits of the `check`
macro matter in many places: when it fails it sets `errno = 0`, so any layer can
clear what the server's loop tests; and it expands to `if((!A))` with its
condition unparenthesised, so that `check(x == 0, ...)` works by accident and
`check(rc != -1, ...)` always fails.

## Modules

| Module | Stands for | Builds on |
|---|---|---|
| `RingLayout` | `struct Ringbuffer`, its macros and the bodies of its functions, as operators on a record | - |
| `ByteQueue` | what a ring promises: a FIFO of at most `Capacity` bytes | - |
| `RingBuffer` | one ring under every call | `RingLayout`; implements `ByteQueue` |
| `MirrorBuffer` | the double-mapped buffer under every call | implements `ByteQueue` |
| `SocketRing` | `read_some` and `write_some` of `server.c` as the two ends of one ring | `RingBuffer`; implements `ByteQueue` |
| `NetClient` | `netclient.c`: the select loop on two rings between two peers | `RingLayout` |
| `StatsServer` | `main`, the threads, their clients and TCP | `RingLayout` |
| `TernaryTree` | the shape of the tree of `tstree.c` and the walks through it | - |
| `UrlMap` | what the requests promise: a set of URLs | - |
| `UrlStore` | the requests on the tree and its statistics | `TernaryTree`; implements `UrlMap` |
| `TSTree` | the functions of `tstree.c` that no request uses | `TernaryTree` |
| `DArray` | `struct DArray` and the calls Hashmap makes on it, as operators on a record | - |
| `ArraySorts` | `darray_algos.c` and the binary search, on sequences | - |
| `ArrayCalls` | one array under every call | `DArray`, `ArraySorts` |
| `KeyMap` | what a Hashmap promises: a finite map | - |
| `HashMap` | the map: its buckets and nodes under every call | `DArray`; implements `KeyMap` while its buckets are in order |
| `HashAlgos` | the hash functions on words of `W` bits | - |
| `EntryBag` | what a tree and a RadixMap promise: a bag of entries | - |
| `BSTree` | both trees of `bstree.c` under every call | implements `EntryBag` |
| `RadixMap` | the radix map under every call | implements `EntryBag` |
| `Deques` | what each call on lists promises: sequences open at both ends | - |
| `LinkedList` | several lists under every call of `list.c`, `queue.h`, `stack.h`, `list_algos.c` | implements `Deques` |
| `StringSearch` | `String_find` with its static table, and the scanner | - |
| `BstringSearch` | the functions of bstrlib that only look: compare, search, split, join | - |
| `Texts` | what the calls that change a bstring do to its text | - |
| `Bstring` | one bstring, its cells and its allocation, under every call | `BstringSearch`; checked against `Texts` |
| `ByteStream` | what each call on a bStream promises: what it takes, gives and loses | - |
| `BStream` | a bStream over a core stream that reads short | `BstringSearch`; implements `ByteStream` |
| `Reports` | `reporter.c` and `proc.c` as functions of the file they read | - |
| `Devpkg` | `devpkg`: its commands step by step over the files that stay | - |
| `RingLayout_proofs` | lemmas on the operators of a ring | `RingLayout` |
| `RingBuffer_proofs` | theorems on the copying ring, the socket ring and netclient | `SocketRing`, `NetClient`, `RingLayout_proofs` |
| `StatsServer_proofs` | theorems | `StatsServer`, `RingLayout_proofs` |
| `UrlStore_proofs` | theorems on the URL store and the plain tree | `UrlStore`, `TSTree` |
| `MirrorBuffer_proofs`, `HashMap_proofs`, `Devpkg_proofs`, `LinkedList_proofs` | theorems | the module before `_proofs` |
| `MCStatsServer`, `MCUrlStore`, `MCDevpkg` | constants for TLC | the module after `MC` |
| `MCRings` | the rings and netclient, side by side | `RingBuffer`, `MirrorBuffer`, `SocketRing`, `NetClient` |
| `MCTernaryTrees` | the URL store twice and the plain tree | `MCUrlStore`, `UrlStore`, `TSTree` |
| `MCTables` | the map and the two trees | `HashMap`, `BSTree` |
| `MCContainers` | arrays, lists and the radix map | `ArrayCalls`, `LinkedList`, `RadixMap` |
| `MCPrograms` | devpkg, the string libraries, hash functions, reporter and proc | `MCDevpkg`, `StringSearch`, `Bstring`, `BStream`, `BstringSearch`, `HashAlgos`, `Reports` |

The five modules at the end put components that share nothing side by side. A
variable `part`, chosen in the initial state, says which one a behaviour is
about; the others keep their initial state. So each part is explored exactly as
it would be alone, and no product of state spaces is built.

**Ring buffer.** A ring is the record `[start, end, looped, buffer]`. A call is
one action. Copies are modelled by the cells they touch: a load past the
allocation returns `Junk`, which is what `RingBuffer_read` does on its first copy
of wrapped data (the second copy covers it) and what `RingBuffer_gets` may return.
The macros keep their C conditions, so `Rewound` tests emptiness while `AfterRead`
compares the indices, and `GetsBytes` picks its copy by the test of line 116.
Callers ask for up to `MaxRequest` bytes, more than fit included.

**Double-mapped buffer.** `file` is the pages, offset `o` of the mapping is byte
`o % Length`. `Length % PageSize = 0` is an assumption, since `RB_init` returns
NULL otherwise.

**Sockets on rings.** In `SocketRing` the network chooses the data that arrives
and how much of each piece `recv` and `send` take, and may fail either. Nothing is
said of a ring after a failure here, because `StatsServer` has that case with all
that goes with it. `NetClient` has the rounds of the loop: `select` waits until a
descriptor is readable, the user's is read before the server's, and both rings are
emptied before the next `select`. `Filled` commits all the free space whatever
came in; the bytes behind what came are `Junk`, which is what `malloc` left, and
`written` is what was written without them.

**Server.** `pc[t]` names the call thread `t` is about to make: `accept`, the one
or two `recv`s of `read_some`, `getall`, `lock`, `call` and `back` (what
`process_request` does first, reading `*root`, and last, storing it), `unlock`,
`send`. So another thread may step between any two calls that share state or
block. `th[t]` is the thread's socket, ring, data and `errno`. `peer[c]` is the
client and the server's end of its connection: bytes sent and received, whether
the stream has ended (`fin`), was reset, and the pending socket error. The
clients connect, send, close one or both directions, or abort at any time. `recv`
returns any count the stream allows, so a request arrives in pieces or with the
next one. A byte is its position in the stream, which lets a property say that
data are the *right* bytes. The tree here is only the set of URLs, with the one
detail that matters to concurrency kept: a create that saw `*root == NULL` makes
a tree of its own.

`recv`, `send`, `accept`, TCP and the clients are external: they are modelled
after POSIX as the code relies on it (a closed socket answers data with a reset;
a reset sets a pending error which the next `recv` or `send` reports once; later
sends give EPIPE).

**Ternary tree.** A node is named by the characters that lead to it, so a pointer
is a name; a name not in `DOMAIN heap` is a freed node. `Walk` is the search loop.
In `UrlStore`, `Inserted` is the recursive insert with its list of delimiters,
`Traced` is `update_tracer`, `DeletedLeaf` and `DeletedDelim` the two branches of
`TSTree_delete_all_subnodes`. The `debug()` calls are modelled, since they are
compiled in and dereference nodes: every request first looks up `a/b/c`
(`DebugUrl`), and an update ends by printing the sum of `a/b/` (`DebugParent`).
Undefined behaviour sets `fault` to what was met and ends the behaviour:
`dangling` (a freed node followed), `null`, `recycled` (a new node after a free,
whose uninitialised fields may be an old node's). In `TSTree` the nodes are the
same and the values arbitrary; `words` and `gone` record what the calls put in
and took out.

**Hashmap.** A bucket is the record `[end, max, contents]` of `DArray`, with the
array's cells, used or not: after an expansion the ones that the short `memset`
misses hold `Junk`, and a store past the allocation is lost. `HashOf` gives a key
its hash; `Hashmap_get_node` is the search by halves on the bucket as it is, in
order or not. A key is a number, which is its place in `bstrcmp`'s order. A node
is the number `malloc` names it by; `Fresh` is always the least unused one, since
no call depends on which it is. `HashMap` adds no assumption on the order of
calls: a map may be destroyed and created again.

**Arrays.** `ArrayCalls` puts every call of `darray.c`, `darray.h` and
`darray_algos.c` on one array. `fault` is the undefined behaviour met and ends a
behaviour; `resized` and `merged` record what went before it, so that a property can
say which faults there are. The sorts are recursive functions that do what the C
loops do, the heap's sift-down and the index that `merger` forgets included.

**Trees.** The two halves of `bstree.c` differ in names, in the side larger keys
go to and in the rotations, so one module models both and `kind` says which tree
it is. A call is one action; `SetPath` is the recursion down, `Rotated` the
rotations on the way back up, in the order the code makes them. `rotate` works on
the heap field by field, as the code does: `right_rotate` sets six pointers and
two heights. A set of a key that is there adds a second node, as in the code.

**Lists.** `mem` is what `malloc` handed out, nodes and lists, and `held` the lists
callers still know of; which node or list a call gets does not matter, so both are
symmetric. Every call moves the pointers the code moves. `LIST_FOREACH` is
modelled as it expands: its body runs once on a list of one element and never on a
longer one, which decides what the sorts, `clear` and `destroy` do.

**RadixMap.** The elements in use are a sequence; a key has `Digits` digits to
the base `Radix` (4 and 256 in the code), and each pass of the radix sort is the
counting sort of the code. `add` re-sorts from the place its search stopped at.

**String search.** A skip table is named by the needle it was built for, since
that determines it; `NoNeedle` is the static table before its first use. `Hangs`
is a call that never returns.

**bstrlib.** `Bstring` works on the cells of the allocation: a store outside them
sets `over`, a cell that was never written holds `Junk`, `mlen` and `slen` are the
fields of the struct, negative for a protected string. `Mem` is how an allocation
goes: in full, with the smaller size the code falls back to, or not at all. `Texts`
is the reference, on sequences, with no cells and no allocation. `BStream`
works on what is in the buffer and in the core stream; the grain of a call is the
most that one read of the core gives. Of a string that is read into it keeps
what it has been allocated, as that decides whether a read goes through the
bStream's buffer or straight into the string: a split's own string has grown
after its first chunk, and from then on is read into straight. `BstringSearch` is pure: one operator per
function, with the unrolled loop of `binstr` and the jumps of the splitting
functions as they are.

**devpkg.** A step is one shell command or one use of the database, in the
order `commands.c` makes them; each may fail, and the program may be killed before
any of them. `tree`, `archive`, `dbDir` and `db` are the files that stay; the line
`fwrite` holds until the program exits is `buffered`. `installs` records the
builds that got through their install command, in this run or an earlier one. Any number of runs follow one
another, up to `MaxRecords` installs.

**reporter and proc.** Each is a fold over the characters of the file, with
`fgetc`'s EOF arriving as one more character before `feof` is seen. A number is
the sequence of its digits, which tells 12 from the 1 and the 2 it is made of.

## What each run checks

| Run | Properties | Distinct states |
|---|---|---|
| `rings` | `TypeOK IndicesOrdered CountFollowsCalls IsByteQueue OthersAreByteQueues Relayed ReachesTheOther` | 42,408 |
| `ring_gets` | `GetsLength`, violated | - |
| `server_store` | `MutualExclusion Serialized InStep RingsInBounds` | 859,066 |
| `server_live` | `GoneIsReleased SentIsAnswered ServerEnds` | 54,656 |
| `server_slots` | `FreeSlotAccepts`, violated | - |
| `ternary_trees` | `StoreIsSound SafeUntilFreed StatsFollowChildren WordsAreFound` | 53,288 |
| `url_dangling` | `DeletedIsGone`, violated | - |
| `tables` | `RoomForPush NodesInPlace IsMapInOrder TreesFitTogether TreeIsEntryBag SetKeepsBalance` | 84,776 |
| `hashmap_lost` | `StoredIsFound`, violated | - |
| `containers` | `ArrayIsSound ArrayIsKept ListsWellLinked ListsAreSequences RadixIsEntryBag` | 64,411 |
| `programs` | `FilesAreKept RecordsFollowInstalls FindsFirst Terminated StoresAreKnown DoesToText IsByteStream SearchesAgree OrdersAgree OneByteApart TablesAreSampled` | 122,182 |
| `devpkg_install` | `InstallInstalls`, violated | - |

Some of these are conjunctions of properties that the component's module states
one by one, under names of their own; the MC module says which, or the component's
where the conjunction is proved.

**rings.** All sequences of calls on a ring of 4 bytes over 2 byte values,
requests up to 5; the same for a double mapping of two pages of 2 bytes; and all
that `recv` and `send` may do to a ring of 3. There is no bound on the number of
calls: the state spaces are finite and explored completely. Four cells give room
for data that wraps, that ends exactly at the array's end, a full ring at every
offset and requests one past the limit; two byte values tell reorderings from
repetitions, and the proofs cover every other length.

`CountFollowsCalls` relates the indices of the copying ring to what callers were
told, over every call. `IsByteQueue` says that each *sound* call is a step of
the FIFO **whatever calls came before it**. Two calls of the copying ring are not
sound: `gets` of wrapped data (unless it asks for exactly the bytes before the
array's end), whose copy is chosen by the wrong test; and a read of 0 bytes on a
full ring with `start > 0`, where `start == end` makes the rewind of line 81 turn
the contents round. In both the count stays right (`CountFollowsCalls` covers
them) and the bytes do not. For the double mapping, and for the two ends of a
socket ring up to the first failed call, it holds with no exception
(`OthersAreByteQueues`). With it goes that the double mapping is never more than
one lap ahead, which keeps its copies inside.

netclient's part has rings of 3, two peers that send up to two bytes each, one of
which may be a line end (which becomes two), and may close at any time. Two bytes
are what it takes for both to be in flight in one block or in two.
`Relayed` says that what is written is the beginning of what was sent, each byte
once, and that nothing is left in between when `select` waits; `ReachesTheOther`
that it gets there in the end, unless the client ends itself.

**server_store.** Two threads, two clients, rings of 3 and requests of 2 bytes,
so that the second request of a client wraps, a ring fills exactly, and a recv
sees less than a request or two at once. One client creates one URL and deletes
another, the other client creates that one: the two creates race on the empty
tree. Every close, half-close and reset is possible at every point.
`MutualExclusion` says precisely the holder of the mutex is between lock and
unlock, and `Serialized` that the tree is what the requests leave in it one after
the other. `InStep` is the end-to-end property of the byte path from `recv` to
`process_request`, over the two-part `recv` and `get_all`. `RingsInBounds` says no
`recv` that brings bytes is given a length that overruns the array or unread
data, although a failed `recv`'s -1 is committed like a count and leaves `end`
one short, even at -1. Two threads are enough for mutual exclusion by symmetry of
the code, and the theorems below remove the bound.

**server_live.** Requests of one byte on rings of two, so that the second request
ends exactly at the array's end and sends its thread into the second, blocking
`recv`. A client that has gone is released (`GoneIsReleased`), what was sent is
answered (`SentIsAnswered`), and once the slots are used up and their clients are
gone the process exits (`ServerEnds`). Two exclusions are part of the statements,
since the code has these behaviours:
- *Spinning.* A client that shuts down its sending side and stays makes `recv`
  return 0 for ever; its thread goes round and round and may take the mutex each
  time. The first two properties suppose that no client spins for ever.
- *The second recv.* When the first `recv` fills the array exactly, `read_some`
  calls `recv` again and blocks with a complete request unprocessed until the
  client sends more or leaves. `SentIsAnswered` admits that state.

**ternary_trees.** Three parts. *Requests*: all sequences of up to 6 requests
about `a/b/c`, `a/b/`, `a`, `c/` and `c/a`, in all orders. The URLs are chosen so
that the tree has a node on the way to another URL (`a`), delimiters at two
depths, a delimiter that is created as a URL and deleted, and a branch to the side
(`c`) at which inserts in different orders give different trees. Six requests
build the tree, change it, delete part of it and ask again. `StoreIsSound` says,
of every state, that the store is a search tree whose nodes have statistics
wherever a request reads some, and exactly when a pointer dangles: if and only if
a URL ending in `/` has been deleted, and nothing repairs it. `SafeUntilFreed` is
about steps: until then, a request about a URL not ending in `/` meets no fault
and is a step of `UrlMap`, whatever requests came before.

*Sums*: up to 7 requests about `a/b/c`, `a/b/a` and `a/a`, with updates of one and
of two values. `StatsFollowChildren` relates a delimiter's count and sum to what is
below it. It is checked along `CountedNext`: new URLs do not pass a `/` sideways,
and updates and deletes are of URLs that are there. The section on divergences
says what happens outside. `CountWrap = 8` stands for the range of `unsigned long`.

*Words*: all sequences of inserts and deletes of five keys that share prefixes,
branch to both sides and contain each other, with two values, and all questions
about these and four other keys after each of them; no bound on the number of
calls. `WordsAreFound`: a search finds what was left under its key; a search by
prefix finds a word with the prefix if there is one, and may find nothing if one
has been deleted, since deletes leave the nodes; possible matches are words close
to the prefix; `destroy` reaches every node.

**tables.** *Hashmap*: all sequences of calls on a map of two buckets, four keys and
at most four nodes, without a bound on the number of calls. Keys 1, 2 and 3 share
a bucket that is created with one cell and expands by two, so it passes through
sizes 1, 3, 5 and, contracted, 4; key 4 sits in the other. Three nodes in a bucket
are what it takes for a delete to leave two out of order, and four allow a second
node for a key that is no longer found. The code's numbers are 50 cells and an
expand rate of 300; the small ones make every branch of push, pop and expand
happen, and the theorems below cover the others. `RoomForPush` is the assumption
that `DArray_push` makes and tests only afterwards. `NodesInPlace` holds of every
state, ordered or not: no cell in use has a freed node or `Junk`, and `destroy`
frees everything once. `IsMapInOrder` names the only step that can take a map out
of order, and says that while no bucket is out of order, **whatever calls came
before**, a call is a call of the finite map.

*Trees*: all sequences of calls on either tree with four keys, which may be set
again, and five nodes. Five nodes are enough for all four kinds of rotation
below a root and at it, above subtrees that move, and for a delete of a node with
two subtrees of which the right has more than one level. `TreesFitTogether` is the
pointer structure and what remains true of an AVL tree's heights when deletes have
not restored them; `TreeIsEntryBag` the implementation of the bag by every call of
both trees. `SetKeepsBalance` says that a set leaves an AVL tree balanced if it
was balanced before, whatever sets and deletes brought it there. The nodes
are symmetric: the code never compares two of them.

**containers.** *Arrays*: all sequences of calls on an array created with 2
cells that expands by 2, up to 4 elements of two values, so that it grows twice
and shrinks, and a sort has equal and unequal elements in halves of one and of
two. `ArrayIsSound`: it meets undefined behaviour in two ways only, both after
calls that can be named (a store behind the cells a mergesort shrank; a clear of
cells a resize left unwritten), and otherwise has a cell for the next push; and
`DArray_bin_search` is right about arrays in *descending* order. `ArrayIsKept`:
each call does to the elements in use what it is for; quick and heap sort sort,
and mergesort only loses elements when two or more are left over at the right.

*Lists*: all sequences of calls on up to three lists with three nodes between
them. Three nodes are a first, a middle and a last one; three lists are what a
merge sort of two needs. `ListsWellLinked` holds of all lists, those that a sort
made included. `ListsAreSequences`: each call, with the list and the value it was
given, does its own step on sequences of values - a push appends, a pop takes the
last, an unshift prepends, a shift takes the first, and so for the clears, the
insertions, the merges and the sorts - and answers what that step answers; and
nodes are lost in two places only.

*RadixMap*: all sequences of adds, finds and deletes with four keys of four
binary digits, two values and up to four elements. The keys are such that the
order by the lowest digit is not the order, and that equal keys meet.
`RadixIsEntryBag` is the implementation of the bag, and what the partial sort must
achieve for it: that every call leaves the keys in order.

**programs.** *devpkg*: five URLs, git, gz, bz2, a list of dependencies and a
local file among them, any runs of `-S`, `-F`, `-B` and `-I` with failures and
kills at every step, up to two installs. `RecordsFollowInstalls`: the database
is a part of the installs in their order, whatever was killed when;
`FilesAreKept`: no run loses a record, and what was fetched stays until it has
been installed, except under `-I`.

*Strings*: all sequences of calls on a bstring of up to three characters, in place
or on another string's data or its own, under allocations that are granted in full,
in part or not at all. `Floor` and `StartBuff` are small (the code has 8 and 16), so
that three characters cross several sizes. `DoesToText`: a call does to the text
what `Texts` says or fails as a whole; only `bcatcstr` and `bassigncstr` may have
put down the first characters when they fail. `Terminated`: as long as memory is
granted in full, text and `\0` are inside the cells after any sequence of calls.
`StoresAreKnown` names the calls that store outside when memory runs short, and says
that a protected string is not written.

*Streams*: core streams of up to three bytes of two values, and one of five whose
end, behind the first chunk, holds a separator; reads that give any number of bytes
from one to what they are asked for; all sequences of calls, with strings of up to
`MaxRead` bytes to read into. Sizes of 1, 2 and 3 stand for the code's 16, 8, and
256 and 1024, and `bsbufflength` makes the last one 1, so that a line, a split and a
pushed-back string cross their ends and a split's string grows: its first chunk goes
through the buffer, a later one straight into the string. `IsByteStream`: each call
does its own step of `ByteStream`. A line ends behind the first of its terminators,
a read gives as many bytes as it was asked for if the core does, the pieces of a
split are cut at the separators and, but for the last piece of a split by a string,
hold none, and an empty set of characters gives everything once. Bytes come in their
order and once; only closing and stopping a split by a string lose some. Nothing but
lines, splits and pushing back leaves more in the buffer than was there
(`NotReadAhead`).

*Searches*: `String_find` and the scanner on all strings of up to four bytes of
three values, one of them 255, and needles up to two, in any order of searches.
`FindsFirst`: what is found is a place, the first one if the table is the needle's
own, except a place at the very end; and a search that does not end met byte 255,
or the table of the empty needle.

*Questions*: for functions without state every input is an initial state. All
pairs of a string of up to 6 and one of up to 3 characters of two values, and of
two strings up to 3 over `\0`, `A`, `a` and a byte that is negative as a `char`,
for `SearchesAgree` and `OrdersAgree`. Six characters hold a needle of three
twice, overlapping or not, at both parities, which the unrolled loop of `binstr`
tells apart. All keys of up to five characters of three values for
`OneByteApart`, on words of 12 bits, in which all four functions overflow. Five
headings with all tables of up to six characters of digits, blanks and line ends
for `TablesAreSampled`, with arrays of 3, 2 and 3 for the code's 20, 20 and 200,
so that each overflows in some of them.

**Violations.** `ring_gets`, `server_slots`, `url_dangling`, `hashmap_lost` and
`devpkg_install` each show the code doing other than a line of the repository
says; see below.

`CHECK_DEADLOCK FALSE` is set where the system really may stop: netclient and a
server end, clients may be silent, an array or a search at a fault or in a loop
takes no more calls, a UrlStore behaviour ends at `MaxCalls` or at a fault,
devpkg at `MaxRecords`, and a question has no next step. The map and the trees
never stop and are checked for deadlock, as is the ring of `ring_gets`.

Bounds, by name: `MaxRequest` (bytes a caller asks of a ring), `MaxSent` (bytes
a peer of netclient sends; `MaxSent` bounds no theorem, any number will do), `MaxCalls` and `SumCalls` (requests of a UrlStore
behaviour), `MaxNodes`, `TreeNode`, `NodeId` and `ListId` (nodes and lists alive
at once), `MaxEnd` (elements of an array), `MaxElements` (of a RadixMap, the
size it was created with), `MaxRecords` (installs), `MaxLen` (length of a string
or of what a stream holds), `MaxRead` (of a string that is read into), `Length`, `PieceLength`, `MessageLength`, `Script`
(what clients will send) and the sets given to the other constants.

## Fairness

`StatsServer`'s `FairSpec` assumes weak fairness of `main` and of each thread's
next step: POSIX threads that can run do run. It assumes it of `DeliverReset`: TCP
delivers the reset that a closed socket owes. It assumes nothing of clients, which
may be silent for ever, and nothing about who gets the mutex: a default pthread
mutex does not queue, so strong fairness of `Lock` would promise what the code does
not. That is why `Spinning` has to be excluded.

`MCRings` assumes weak fairness of `Client`, the single thread of netclient:
its loop goes on as long as `select` reports something. Which of two readable
descriptors is served is not left to fairness, since the code serves both in
one round, in a fixed order; that is what `ReachesTheOther` rests on. Peers send
or do not.

## What is proved

TLAPS checks these for every value of the constants that satisfies the named
assumptions: `LengthAssumption` (a ring has at least one cell), `JunkAssumption`
(`Junk` is no byte), `MaxRequestAssumption`, `SizeAssumption` of `MirrorBuffer`
(its length is a positive number of pages), `NLAssumption` of `NetClient` (a line
end is a byte that can be typed; CR, which the client puts before it, is kept apart
from what peers send, so that what was written tells what was added),
`MaxSentAssumption`, `UrlAssumption`, `SamplingsAssumption` and `CountAssumption` of
`UrlStore` (a URL is some characters, an update carries some numbers, a count has a
width), `KeyAssumption` of `TSTree` (keys and prefixes are some characters, no value
is NULL), `NoneAssumption` of `StatsServer`
(`None` is no thread and no client), `MessageAssumption` (a request has a byte),
`RateAssumption` and `SizeAssumption` of the arrays (an array is created with a
cell and expands by at least one), `KeyAssumption` (keys are numbers, in the order
of the strings, and so are their hashes) and `BucketAssumption` of `HashMap` (NULL
is not an array), `NoneAssumption` of `Devpkg` (`None`, for no file, is none of the
contents a file can have) and `NullAssumption` (NULL is no node and no list). TLC
evaluates each of them in a run.

| Theorem | Says |
|---|---|
| `RingBuffer_proofs!TypeCorrect` | `Spec => []TypeOK`: indices always address a cell, no junk is ever stored |
| `RingBuffer_proofs!AlwaysIndicesOrdered` | `Spec => []IndicesOrdered`: `looped` says which index leads |
| `RingBuffer_proofs!AlwaysCountFollowsCalls` | `Spec => CountFollowsCalls` |
| `RingBuffer_proofs!AlwaysByteQueue` | `Spec => IsByteQueue`: every sound call is a step of `ByteQueue` |
| `MirrorBuffer_proofs!AlwaysOneLapAhead` | `Spec => [](TypeOK /\ OneLapAhead)`: copies stay inside the two mappings |
| `MirrorBuffer_proofs!MirrorByteQueue` | `Spec => IsByteQueue`, with no exception |
| `RingBuffer_proofs!SocketByteQueue` | `SocketSpec => IsSocketQueue`: `ByteQueue` up to the first failed call |
| `RingBuffer_proofs!AlwaysRelayed` | `ClientSpec => []Relayed`, any ring length and any number of bytes |
| `UrlStore_proofs!StoreAlwaysSound` | `Spec => []StoreIsSound`, any URLs, values, count width and number of requests |
| `UrlStore_proofs!AlwaysSafeUntilFreed` | `Spec => SafeUntilFreed`: no undefined behaviour, and the refinement of `UrlMap` |
| `UrlStore_proofs!WordsAlwaysFound` | `TSTree`'s `Spec => []WordsAreFound`, any keys, any prefixes asked for and any values |
| `StatsServer_proofs!AlwaysMutualExclusion` | `Spec => []MutualExclusion`, any number of threads and clients |
| `StatsServer_proofs!AlwaysSerialized` | `Spec => []Serialized`, any scripts |
| `StatsServer_proofs!AlwaysRingsInBounds` | `Spec => []RingsInBounds`, any ring length and requests |
| `StatsServer_proofs!AlwaysInStep` | `Spec => []InStep`: the bytes processed are those sent, in order |
| `HashMap_proofs!AlwaysRoomForPush` | `Spec => []RoomForPush`, any expand rate, initial size, keys and hashes |
| `HashMap_proofs!AlwaysNodesInPlace` | `Spec => []NodesInPlace`, in order or not |
| `HashMap_proofs!AlwaysMapInOrder` | `Spec => IsMapInOrder`: what spoils the order, and the refinement of `KeyMap` until it does |
| `Devpkg_proofs!AlwaysFollowsInstalls` | `Spec => []RecordsFollowInstalls`, any URLs and any number of installs |
| `Devpkg_proofs!FilesKept` | `Spec => FilesAreKept` |
| `LinkedList_proofs!AlwaysWellLinked` | `Spec => []ListsWellLinked`, any number of lists and nodes |
| `LinkedList_proofs!AlwaysSequences` | `Spec => ListsAreSequences`: each call is its own step of `Deques`, sorts and merges included, and where nodes are lost |

*Ring.* `TypeOK` is not inductive alone: a commit only yields an index in range
when the call's guard bounds the request by the space or data there is, and that
bound only means something when the indices are ordered as `looped` says. So the
invariant is `TypeOK /\ IndicesOrdered`, and one lemma for each operator of
`RingLayout` (`RingLayout_proofs`) says what it preserves and by how much it
changes the count. The count's equation then follows call by call.

*Rings as queues.* The refinement mapping takes a ring to its unread bytes in
order. Two lemmas carry it: storing data at `end` and committing them appends them,
and a commit at `start` drops as many from the front, whether or not either copy
splits at the array's end. Both are about the cell that holds the `i`-th unread
byte, which is arithmetic modulo `Length`; each is a case distinction on `looped`
and on whether a wrap happens. The rewind of an empty ring changes no unread byte,
since there are none, which is where the read of 0 bytes on a full ring must be
excluded. `SocketRing` uses the same lemmas for what `recv` and `send` take of
what they are offered. In the double mapping byte `i` is at `(start + i) % Length`,
and stepping both indices back by a lap leaves that as it is.

*netclient.* `Relayed` speaks of the moments when `select` waits; between them bytes
are in a ring, with padding behind them. The inductive invariant `ClientInv` says of
each direction that what was sent is what was written, then what the ring holds
without its padding, then what is in the kernel, with line ends replaced (`Conveyed`;
after a write that fell short only a beginning of it). It also says what makes the
ring simple: `read_some` commits the whole block, so a ring is full or empty and its
two indices are equal, and it is empty when its descriptor is read. That is why a
block is never laid behind another one, whatever `start` and `end` are. The two conversions
are folds over characters; what is needed of them is that they respect
concatenation and commute (`RespellPieces`, `CommuteAll`), by induction on the
length. TLC checked `ClientInv` before it was proved.

*URL store.* The invariant `StoreInv` is that the store is finite and has no cycle,
that every delimiter and every URL has its `Stats`, and that there is a trail from
the root to every node a pointer leads to: the only one, and the way a search for the node's name
takes (`Tree`). What it has to bring under control is that pointers are names:
every property is about walks, and a walk is defined by recursion on what it meets.
- *Walks end.* Each pointer leads to a longer name (`equal`) or to one of the same
  length (`low`, `high`) that lies deeper; a walk of as many steps as there are nodes
  has reached its end (`WalkFollows`), and any sequence that goes as a search goes is
  that walk (`WalkOnly`).
- *Insert.* The new nodes are the rest of the key, behind the end of the search for
  it. None of those names was on a trail (`FreshIsNew`), so old trails stay, and each
  new node's trail is the search with the names up to it. The counts and the means
  an insert or an update changes are on live nodes and stay in their type, without
  touching a pointer (`SameLinksKeep`).
- *Delete.* Of a URL it touches no pointer. Of a delimiter it frees the node and what
  is below `equal`; the pointer above stays, so from then on some trail ends at a
  freed node (`CutTree`), and no later insert or delete mends it.

`StoreIsSound` follows from the trails. For `UrlMap`, a search in an unfreed store
ends at the key's own node or at none, so each answer is the set's, and the set of
valued nodes changes by the URL inserted or deleted. The statistics' *values*
(`StatsFollowChildren`) are not in the invariant.

*Plain tree.* `WordsAlwaysFound` is about `TSTree`, whose nodes are freed by
`TSTree_destroy` only. With its values left out the tree is a store no node of which
has been freed (`Bare`), so inserts, walks and trails are the ones above. The
invariant `PlainInv` adds that a node's value is what the calls left under its name,
that every deleted key still has its node, and that a way down only ends at a key
that was inserted (`EndsAreKeys`). A search by prefix that starts at a node then
comes to a word or to the end of a deleted key, and in time, since each step
lengthens the trail (`DownToValue`); if there is no node for the prefix, there is none
for anything longer (`PrefixesAreNodes`), and the search has passed every word that
the prefix starts with, the longest last (`PassesPrefixes`). What
`TSTree_possible_match_by_prefix` collects stays among the nodes that pointers lead to
from the prefix, all of which agree with it up to its last character (`AddsWithin`).

*Server: the tree.* `Serialized` compares the tree with a history variable that
applies the requests one by one. A create replaces the tree when its thread saw no
root, so it must be shown that what it saw at `call` still holds at `back`. The
inductive invariant adds: the thread's connection is known once it has accepted
(`Located`, `Asked`), a thread at `back` has seen whether there is a root *now*
(`RootKnown`: nobody else is in process_request, by mutual exclusion), and
without a root there are no URLs (`NoRootNoUrls`). The proof has a step per
action; recv, the rings and the clients only matter as frames.

*Server: the bytes.* `RingsInBounds` and `InStep` rest on a second invariant,
`RInv`, which says of each thread where its ring can be at each place of the loop
(`RingOK`) and how its ring and data agree with the stream of its client
(`StreamOK`). The ring is empty before every first `recv`, because `get_all` takes
all there is; so the first `recv` of a round lays consecutive bytes of the stream
from `start` on (`CellsInStep`), and a second one begins at cell 0. The one way out
is an error's -1, committed like a count: it leaves `end` one short, at -1 even
(`MovedBack`), but then the connection is reset and its pending error has been
reported, so the next `send` fails and the loop ends before another `recv`. A
client's own steps change nothing a thread has received, and no two threads have
the same client.

*Hashmap.* One invariant, `MapInv`, gives all three theorems; TLC checked it before
it was proved. It says that each bucket is an array with a cell left and no more
than `MaxCells` of them, that its cells in use hold different live nodes whose keys
belong there, and that all live nodes are in some bucket. It must not say that the
keys are in order, which a delete may spoil, so its proof needs that the search is
harmless in any bucket: it returns -1 or a place in use that holds the key
(`SearchAnswers`, by induction on the half that is left, which also shows that the
loop ends). In a bucket that is in order it returns -1 only where no node has the
key; this is all that the order is needed for. A sorted push and a delete are
brought to what they do to the cells (`Inserts`, `Emptied`), and from there to the
nodes (`ComesIn`, `GoesOut`) and their order; that the new element's place exists,
and that it is where the key belongs, is one lemma each. An array is bounded because
no bucket holds a node twice (`HoldsAtMost`, a count of the nodes). For `KeyMap`,
buckets in order have no two nodes of one key (`OrderedApart`), so the map is what
each node says, and each call is shown to be the call of `KeyMap` of that name. After
the step the buckets may be out of order: only the nodes' keys matter then.

*devpkg.* The records follow the installs only together with what is on its way:
between the install command and the exit, the last install is of the URL at hand
and has no record yet (`Pending`), first as the program's place, then as the line
in the stdio buffer. With the types and the bounds (`Bounded`) this is inductive,
and TLC checked it as such before it was proved. `FilesAreKept` is a property of
steps: the steps that write the database only append, which includes -S, that
creates it when there is none.

*Lists.* A list's nodes are what `next` leads through from `first`, `count` of
them; `Linked` says that there is such a sequence, that `prev` leads back, that it
ends at `last`, and that the nodes of two lists are apart. The invariant is
inductive as it stands, but its proof needs what a pointer assignment does to
*all* nodes behind it. Three facts reduce that to the nodes a call touches: the way
through a list is unique and is what `Chain` computes node by node (by induction on
the length); it visits no node twice, since `prev` leads back; and if a call
changes one list's nodes only, the ways through the others stay (`WayIsKept`,
`OneWayChanged`). What remains is to give, for push, unshift and unlink, the new
way: the old one with a node more or less. The merge loop of `list_algos.c` is a
recursive function, and its result is known by induction on the nodes it has moved.
The refinement of `Deques` says the same of the values along the way, one lemma
for each call: the nodes' values go where `Deques` puts them, and the answer is
its answer. Of the merge loop the abstract step only
says that one of the two lists is emptied and that the other keeps an end of its
values; the induction on its rounds (`MovedLargerTrims`) says that each of the two
has lost values at its front only, how many the rounds have taken together, and
that they are not both empty.
`LeaksOnlyBy` compares the nodes alive with those on some way before and after.

*Induction.* The library's induction theorems take an operator as a parameter,
which the installed provers cannot instantiate. `LinkedList_proofs`, `HashMap_proofs`,
`RingBuffer_proofs` and `UrlStore_proofs` get induction on numbers from well-foundedness stated of a *set* of numbers (`LeastOf`,
`ByInduction`), and unfold recursive functions by showing that some function
satisfies their equation. That is enough for sequences, for a search by halves and for walks in a tree of
which it is known that it is finite.

*Only model-checked.* All liveness (`ReachesTheOther`, `GoneIsReleased`,
`SentIsAnswered`, `ServerEnds`), since the prover does not do fairness and ENABLED.
`StatsFollowChildren`, which compares a count with the number of nodes below it and a
sum with their means: both are inductions over sets of nodes. The trees of `bstree.c`
with `EntryBag` (`TreesFitTogether`), whose walks are recursive over the heap; `RadixMap` and the sorts of arrays (`KeysInOrder`,
`ArrayIsSound`); bstrlib with `ByteStream`, the string searches,
the hash functions and `Reports` (`Terminated`, `DoesToText`, `SearchesAgree`,
`OrdersAgree`, `OneByteApart`, `TablesAreSampled`), which are recursive over
characters or bits. The recursive operators of the string modules are out of this
prover's reach; `BSTree` and `RadixMap` are in the plan.

## Where code and documentation part

Five are runs:

- **`ring_gets`**, `src/ringbuffer.c:116`. "Wrong result length" (line 124) is
  meant to refuse a result of another length than asked for. `check(blength(result)
  == amount, ...)` expands to a negation of `blength(result)` alone, so it refuses
  almost nothing; on wrapped data a request shorter than the tail gets the whole
  tail back, while `start` moves by the amount.
- **`server_slots`**, `bin/stats_server.c:64`. "Maximum 10 clients at the same
  time" (`README.md:5`). Each thread accepts once and exits; `main` creates ten
  threads ever. The eleventh client waits for ever, however many have left.
- **`url_dangling`**, `src/tstree.c:331`. After `delete a/b/` the test at
  `test/proc_request_tests.c:64-65` expects an answer to `read a/b/c`. The node is
  freed and its parent's pointer stays; the next request follows it, in the
  `debug()` of `process_request` at the latest.
- **`hashmap_lost`**, `src/hashmap.c:172`. `Hashmap_delete` puts the last node of
  the bucket where the deleted one was; a bucket is searched by halves, so a key
  that is still stored may not be found again. "got null on delete"
  (`test/hashmap_tests.c:68`) is what the test says of a key that was set and
  not deleted yet. A set of such a key adds a second node for it, and a later
  delete of that one brings the first one's data back.
- **`devpkg_install`**, `devpkg/commands.c:106`. "install: devpkg -I <url>"
  (`devpkg/README:6`). `check(rc != -1, ...)` is `if((!rc != -1))`, which is true
  of every `rc`: -I always leaves there, after it has removed what had been
  fetched. `InstallInstalls` asks for what the line promises where nothing stands
  in its way: a database that -S has made, a URL of an archive or a repository that
  is not recorded yet, and no command that fails. In the trace -S is followed by
  -I of a git URL, which ends without a record.

Others were found while modelling; those of the store and the containers were
confirmed against the compiled functions. The first five are behaviours of
`UrlStore`; the guards of `LeafNext` and `CountedNext` keep the checked properties
away from them, each by name:

- *Drift above a delimiter.* "any changes made in the children will also be
  reflected backward to the parent" (`README.md:6`). A delimiter's mean is
  `sum / n`, and creating or deleting a URL below it changes `n`. `update_tracer`
  takes the *current* mean out of the sum above, not the one it had put in, so
  once `n` has changed the sum above is off for good. `LeafParentSum` is therefore
  stated of delimiters with only URLs below.
- *Sideways delimiters.* `TSTree_delim_insert_base` pushes every delimiter it
  visits, also one it passes to `low` or `high` (`src/tstree.c:53`). A URL that
  passes `a/` sideways, such as `ab`, is counted in `a/`. `NotSideways` excludes it.
- *Deleting twice.* `delete` answers "deleted" for a node that has no value (a URL
  deleted before, or a node on the way to one) and takes one off the parent's `n`
  each time, which is unsigned (`src/tstree.c:343`).
- *A delimiter created late.* `create a/b/` after `create a/b/c` replaces the
  delimiter's statistics with empty ones (`src/tstree.c:65`).
- *Updates need `a/b/`.* Any update that finds its URL crashes while there is no
  node `a/b/` (the `debug()` of `src/proc_request.c:73`); an update of a node that
  has no `stat` copies from NULL (line 68). `Updatable` names both.

Of netclient and devpkg:

- *The whole block.* `read_some` gives the ring all the memory it allocated and
  looks at the count afterwards (`bin/netclient.c:53`), so uninitialised bytes are
  sent behind every piece. An end of input is read again and again; a `write`
  that takes part of the data ends the client.
- *Unnoticed failures.* A `tar` that fails after the download is not noticed for
  gz archives, bz2 archives are unpacked with the options for gz, and -B builds
  whatever tree is there.
- *Records.* A program killed between its install command and its end has
  installed without a record, since the line is still in a stdio buffer. What
  `DB_find` answers is not used, so a package may be recorded twice.

Of the containers:

- *No rotations after a delete.* `AVL_node_delete` has a loop that rotates up from
  the deleted node, after an `if` all of whose branches return
  (`src/bstree.c:423-428`). So deletes leave the heights as they were, and the tree
  may go out of balance; `HeightsCover` says what is left, and `SetKeepsBalance`
  starts from trees that are in balance.
- *The end after a set past it.* `DArray_set` sets `end` to the index, so the
  element is not in use and the next push overwrites it (`src/lcthw/darray.h:34`).
  Hashmap never sets past `end`.
- *A search in the other order.* `DArray_bin_search` goes right when the middle is
  *larger* than the element (`src/darray.c:16`), the reverse of the order that
  `DArray_push_sort` keeps.
- *Mergesort.* The loop that copies what is left of the right half counts the
  other index (`src/darray_algos.c:89-90`) and repeats one element; the cells are
  allocated anew, as many as there are elements, and `max` stays.
- *Clear after a resize.* It frees cells that nothing has written
  (`src/darray.c:63`).
- *A loop that does not loop.* `LIST_FOREACH` continues while the node *is* the
  one it should stop at. On lists of two and more its body never runs: bubble sort
  and merge sort leave the list as it is, `List_clear_destroy` frees nothing.
  `test/list_algos_tests.c:32` says "Words are not sorted after bubble sort" of
  just that.
- *A check that always fails.* `AVLTree_compare_cb` has no return before its
  `error:` label, so it returns -1 for every node and `AVLTree_check` stops at the
  first (`src/bstree.c:36-48`). It only logs, and is not modelled.

Of the strings and the programs that read tables:

- *String_find.* The static table is set up for the first needle of the process
  and used for all (`src/string_algos.c:35`); a match at the very end is not seen
  (line 22); a jump of 0 for byte 255 repeats for ever.
- *No room for the `\0`.* `bassign`, `bassignmidstr` and `breplace` ask for as
  many cells as there are characters. The sizes are rounded up past that while
  memory is granted in full (`Terminated`); with the smaller size they store one
  past the end (`StoresAreKnown`). So may `bvcformata`, and `bfromcstrrangealloc`,
  whose halving of a refused size goes below what it needs; `brtrimws` and
  `btrimws` test `mlen > i` and store at `i + 1`, one past a string whose size is
  its length.
- *Splitting by a string* misses a separator that directly follows another
  (`src/lcthw/bstrlib.c:2775`). On a stream, `bssplitstrcb` looks at the end of
  the stream before it looks for the separator: when a read through the buffer
  has met the end, what it brought is handed over unsearched, so a stream of
  fewer than 256 bytes is not split at all. It loses what it has over-read when
  its callback stops it. An empty separator "causes each character of
  the stream to be iterated" (`src/lcthw/bstrlib.c:2512-2513`); what is handed
  over is the chunks, as they are read (`Chunks` in `ByteStream`).
- *Comparing.* `bstrnicmp` returns the difference of the characters as they are,
  unsigned, though it found the lowered ones different; `OrdersAgree` says which
  functions agree.
- *reporter.* A file that ends with a separator counts its last number twice, one
  that starts with a separator a 0, and a number of as many digits as the array
  holds, or more than 200 numbers, overrun it (`reporter.c:22-38`).
- *proc.* Digits of a longer number show behind a shorter one that follows it, as
  `num` is never cleared (`proc.c:59`); at the end of the file a number that was
  never set is pushed (line 78), and what keeps it from being sampled is that every
  column is taken to be as long as the second one (line 84).

## What the models leave out

- Bytes are positions in a stream (server) or members of a small set (elsewhere);
  characters are numbers. Parsing a request by spaces is not modelled: a request
  is an operation and a URL. In the server, bytes that are not exactly one request
  are either a wrong format or a request about some other URL.
- `bsplit`'s array has no NULL after its last entry, where `update_request`
  (`src/proc_request.c:69`) stops looking, and one-word requests read an entry that
  is not there. `bstrList`'s own allocation is not in the models of bstrlib.
- `list` prints every URL into one megabyte (`src/proc_request.c:108`); the capacity
  of the other text buffers (100 and 150 bytes) is not modelled either.
- `sumsq`, `min`, `max` and the standard deviation; floating-point rounding. A
  mean is rounded down to an integer, the same way each time it is taken out or
  put back.
- What `read` prints. It prints the statistics of the packet `create` made, which
  no request updates (`update` replaces the node's): a listed hazard, not a run.
- Memory that is fresh from `malloc` is taken as zero in the tree's nodes, as it
  is from the kernel; recycled memory is the fault `recycled`. Elsewhere it is
  `Junk`. Failing allocations are modelled for bstrings only; leaks (but for
  lists) and the failing system calls of set-up (`mmap`, `listen`,
  `pthread_create`, `nonblock`, `client_connect`) are not; a failing `accept`
  is, with its `exit(-1)`.
- Nothing is left out of a failing `recv` of the server: its -1 is committed and
  `end` goes back by one, so the ring forgets its newest byte. `InStep` therefore
  excuses the count of bytes on a reset connection, and only there.
- A traversal's callback that returns other than 0, which stops it; a map or a tree
  with another compare function than the default one (in a Hashmap the nodes would
  still be sorted by the default one, `src/hashmap.c:10`). The hash a node stores:
  keys that compare equal have equal hashes.
- `Merge_sort` of an odd number of lists above one, which reads behind its
  array; `List_clear`, which frees values only; what `List_clear_destroy` of one
  element reads from the node it has just freed: its loop is taken to end there.
- A RadixMap filled past its size: `add` does not compare `end` with `max`
  (`src/radixmap.c:83`), so that callers must.
- Needles with bytes from 128 on, for which `String_setup_skipchars` indexes the
  table below its start, through a signed `char`.
- In bstrlib: NULL and destroyed arguments, `bjoin` without a separator (which
  dereferences it), lengths near `INT_MAX`, and where `realloc` moves the
  data.
- In devpkg, what -L prints; `Command_depends` and what follows line 106 of
  `commands.c`, which nothing reaches.
- urlor: it reads routes from a file and URLs from stdin into calls of TSTree and
  bstrlib that are modelled. It refuses a route unless it has two columns and then
  reads the third, behind the end of the list.
- The suffix tree is unfinished: its edges are used uninitialised. The files of
  `stat_server/` are drafts that no build rule uses, `my_hash` has no caller,
  and `echo_server` is the set-up of a listening socket. `devpkg/bstrlib.c` and
  `stat_server/bstrlib.c` are copies of the library that is modelled.

## Plan

The system's parts are modelled as far as the section above says; what is left is
proof, in this order:

1. `BSTree`: the pointer structure of `TreesFitTogether` under rotations, deletes and
   replacements. Everything but reachability is local to the nodes a call touches, and
   the trails of `UrlStore_proofs` show how to carry reachability.
2. `UrlStore`: that a delimiter's count is the number of its children
   (`CountIsChildren`), by comparing the sets of children before and after a request.
3. `RadixMap`: that a call leaves the keys in order, from a counting sort that is
   stable on each digit.
