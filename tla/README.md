# Finn (djinni): a verification project

Finn is a fork of djinni. From an IDL file it generates the code by which C++, Java, Objective-C,
Swift and Python call each other, and it ships the support libraries which that code uses. What is
hard is what the printed code and the support libraries *do*: objects that live on one side and are
stood for on the other, freed by destructors, reference counts or garbage collectors, on threads
nobody chose; addresses that are used again; exceptions that cross a border of plain C; strings in
three encodings; and, in the generator, files that import each other and overwrite each other. This
project models those parts in TLA+, checks them with TLC and proves the most important results with
TLAPS.

Paths below are relative to the repository's root (`src/` in `PROJECT.json` is that root).

## 1. Inventory

| Component | State | Operations | Where |
|---|---|---|---|
| Proxy cache | map (type, address) -> weak pointer; one mutex | `get`, `remove` (from `~Handle`) | `support-lib/proxy_cache_*.hpp` |
| Its four instances | the kind of weak pointer | upgrade, expiry | `support-lib/objc`, `support-lib/jni` |
| Java proxies of C++ objects | `nativeRef`, `destroyed`; a `CppProxyHandle` on the heap | calls, `_toJava`, `_fromJava`, `_djinni_private_destroy`, `finalize` | `JavaGenerator.scala`, `JNIGenerator.scala`, `djinni_support.hpp` |
| JNI run time | registry of initializers, `g_cachedJVM`, the env of each thread, global references | `jniInit`, `jniShutdown`, `jniGetThreadEnv`, `~DetachOnExit`, `GlobalRefDeleter` | `djinni_support.cpp`, `djinni_main.cpp` |
| JNI exceptions | the pending exception of each thread, `jni_exception` objects | `jniExceptionCheck`, `jniSetPendingFromCurrent` | the same, `JNIGenerator.scala` |
| JNI text, enums, flags | the loop of a conversion; tables of enum constants | UTF-8, UTF-16 and `wchar_t` both ways | `djinni_support.cpp`, `Marshal.hpp` |
| Python exceptions | a thread-local handle; `ExceptionHelper.c_data_set` | set, take, translate, throw, raise | `support-lib/cwrapper`, `support-lib/py`, both Python generators |
| Python wrappers | `DjinniWrapper.ref_count`; `c_data_set` (a `MultiSet` with a lock); `CppProxy._cpp_impl` | `fromPy`, `toPy`, `get`, `wrap`, add/dec ref, `__del__`, `__delete` | `PythonGenerator.scala`, `CWrapperGenerator.scala`, `support.py` |
| Python containers, records | `c_data_set` of each type | element callbacks | the same, `pycffi_marshal.py` |
| IDL parser | `fileStack`, `visitedFiles` | `parseFile`, `importFile`, `parseExternFile` | `parser.scala` |
| Resolver | scopes | duplicates, constants, deriving | `resolver.scala` |
| Generators | `writtenFiles`, the list of output files | `createFile`, `createFileOnce`, `getSuperRecord`, printing | `src/source/*Generator.scala`, `generator.scala`, `Main.scala` |
| Platform threads, extension libraries, Swift, Objective-C marshalling | none | conversions, starting a thread | `extension-libs`, `support-lib/objc`, `support-lib/swift` |
| Tests, examples, IDE plug-in, vendored code | - | - | `test-suite`, `example`, `intellij-plugin`, `deps` |

**How they interact.** Passing an object across a border asks the proxy cache of that direction for
its proxy; the cache calls back into an allocator of the other language while it holds its mutex,
and every proxy's destructor calls the cache. The Java side adds a collector and finalizer threads,
a number (`nativeRef`) that stands for a pointer, and an env that C++ needs on whatever thread it
lets go of a Java object. The Python side has no proxy cache: a counted `DjinniWrapper` crosses
instead, and C callbacks go the other way. Every call may end in an exception, which the exception
code carries over the border. The generator is one sequential program: the parser hands all
declarations to the resolver, which hands them to the generators, and these share one table of
written files.

**What is hard**, with the properties it calls for:

* *Races of lookup, last release and cleanup.* A weak pointer expires before its Handle cleans the
  map. An object must have one live proxy at a time, always the right one; a late destructor must
  not evict it; entries may not dangle; the mutex must be given back and never be asked for by its
  holder. (ProxyCache)
* *Releases that run into each other.* What dies when the last reference goes may hold the last
  reference to something else, whose end needs the lock that is held. (ProxyCache, PyRelease)
* *Addresses used again.* Keys of the cache, cffi handles and wrappers are addresses. What arrives
  must be what was sent, and an address that is still on its way must not be freed. (ProxyCache,
  PyWrapper)
* *Freeing by hand, by count and by collector.* Nothing is freed twice, used after it is freed, or
  kept for ever. (JniCppProxy, PyWrapper)
* *Beginnings and ends.* A library that loads half-way, is unloaded, or whose objects die after
  their thread or the JVM has gone. (JniRuntime)
* *Exceptions through C and through the JVM.* The caller sees the exception its callee ended with;
  none is lost, shows up in another call, or is leaked. (PyExceptions, JniRuntime)
* *Text.* Sequences cut short, overlong or half a pair, in three encodings. (JniText)
* *A step that fails half-way.* Allocators that throw, conversions that raise between two arguments,
  results that are read before the exception is looked for. (all of these)
* *Files and records that refer to each other.* Diamonds and cycles of imports, two names of one
  file, two types that write one file, chains of records. (IdlParser, IdlFront, IdlRecords)

`PROJECT.json` lists every hazard at its line, with the properties that watch it. Where the code simply
does what the hazard says (an exception goes astray, a destroyed proxy is found), the model does it
too, the property at hand says what it leaves out, and the hazard has a note instead of a property.

## 2. Modules

| Module | Models | Proofs |
|---|---|---|
| `ProxyIdentity` | what the cache promises (abstract) | |
| `ProxyCache` | the cache, its mutex, Handles, weak pointers | `ProxyCacheProofs` |
| `JniCppProxy` | the life of a Java `CppProxy` | `JniCppProxyProofs` |
| `JniRuntime` | loading, threads, exceptions and global references of JNI | `JniRuntimeProofs` |
| `JniText` | strings between C++ and Java | `JniTextProofs` |
| `PyExceptions` | exceptions between Python and C++ | `PyExceptionsProofs` |
| `PyWrapper` | objects between Python and C++ | `PyWrapperProofs` |
| `PyRelease` | objects of Python and C++ that hold each other | `PyReleaseProofs` |
| `IdlParser` | the walk through imports | `IdlFrontProofs` |
| `IdlFront` | a run of the generator, EXTENDS `IdlParser` | `IdlFrontProofs` |
| `IdlRecords` | the fields a record inherits | |
| `MC*` | instances for TLC | |

### ProxyCache and ProxyIdentity

`mutex` and `mapping` are `m_mutex` and `m_mapping`; a Handle is `tagOf`, `objOf` of its proxy, and
`state` is where the proxy is between its birth and the end of `~Handle`. Each thread has a `pc`
and the locals of its call. `get()` is `GetCall`, `GetLock`, `GetFind` (find and upgrade, pruning an
expired entry), `GetAlloc` or one of its failures, then `GetReturn` or `GetUnwind`; `~Handle` is
`RmLock`, `RmCheck` (find and `is_expired`), `RmTemp`, `RmUnlock`, `DropObj`. Steps are cut where
another thread can see or change something: outside the mutex at every access, inside it wherever
destructors, collectors or weak pointers of other threads can move.

`WeakKind` tells the instances apart. A `std::weak_ptr` is asked without owning. Reading a
`__weak id` retains it for the length of an expression (`temp`), which may make the reader the last
owner. A `WeakReference` is cleared by the collector (`Collect`), long before the finalizer runs
(`Finalize`). An allocator may throw before its Handle exists ("early") or after ("late").

`ProxyIdentity` is the promise in `proxy_cache_interface.hpp:43`: looking up is one atomic step,
the same object gives the same proxy for as long as anybody owns it. `RefinesIdentity` says that
`ProxyCache` implements it under the mapping `AbsProxy`, `AbsUsed`, `AbsResult`: a lookup takes
effect when the weak pointer is upgraded or the new proxy is put into the map, and a proxy is
forgotten when its weak pointers expire, not when its Handle is cleaned up.

### JniCppProxy

`java`, `javaRefs`, `destroyed` are the Java object; `handle`, `implOf` its `CppProxyHandle`;
`cache` is `jniCppProxyCache`, whose `get` and `remove` are single steps here because ProxyCache
shows that they behave so. Its keys are addresses: several implementations share one (`AddrOf`),
each is born once (`born`), and one is born only where no other lives, so that a proxy of a former
object is told from one of the object that is there. A method is `CallCheck` (the Java assertion),
`CallEnter`, `CallExit`; an argument is `ArgRead` (`GetLongField`) and `ArgCopy`; destruction is
`GetAndSet` and `Free`, from `Destroy` or from `Finalize`. Constants say what a program does: which
proxies it destroys by hand (`Closeable`), which one of its finalizers may bring back
(`Resurrectable`), whether Java assertions are on (`Asserts`). Destroying by hand leaves the entry,
as the proxy is alive when `remove()` looks; it is found in place of a proxy for as long as Java
refers to it (`ByHand`), also by a later object at its address.

### JniRuntime

Every thread has a stack of frames of user code that alternate between Java and C++; a frame runs,
waits for the one above, or is `back` from a call whose outcome it has not looked at. `Load` starts
`jniInit()`, on a thread that does nothing else meanwhile (`loader`); it runs the initializers one
by one (`Initialize`, `Loaded`), any of which may fail. Most failures are looked for at once
(`InitFails`). A class that is not found is not: `jniFindClass()` calls `NewGlobalRef()` with the
exception of `FindClass()` pending (`FindClassFails`), which the JVM may let pass
(`FindClassChecked`) or answer by ending the process (`FindClassAborts`). `Unload` is
`jniShutdown()`. `attached[t]` says whether the JVM has an env for `t`, `detacher[t]` whether its
`DetachOnExit` exists; `auto` tells the two builds apart. `pending`, `thrown`, `obj` and `kept` are
exceptions on their way or kept by a `std::exception_ptr`; `SetPending` and `ThrowFromJava`
translate them. `refs` are the owners of global references, `own` and `shared` the owners of
JavaProxies, `leaked` the owners that died where nothing could be deleted (no JVM, or no env).
`ended` says why the process was ended: by the JVM while loading, by `assert`/`abort` for a thread
without env, by a C++ exception of another kind, by `DetachOnExit` without a JVM. Those ends are
behaviours of the code, and the model stops there.

### JniText

A string is sent to the other language and comes back: `leg` is "there", then "back". An action is
one round of the loop of one of the four conversions, and `Return` starts the way back. `str` is the
string *and the code unit behind it*, because decoding looks at it: a NUL behind a `std::string` or
`std::u16string`, anything of `AfterChars` behind the array of `GetStringChars`, which
`jniWStringFromString()` decodes in place. Where that unit is the second half of a pair whose first
half ends the array (`EndsInPair`), the function takes it along: the properties say so, and that
nothing else from outside is taken along by any of the four. `utf8_decode_check`,
`utf16_decode_check`, `utf8_encode` and `utf16_encode` compute what the bit operations of the source
compute, by `\div` and `%`.

### PyExceptions

Each thread has a stack of frames that alternate between Python and C++. `raised` and `thrown` are
the exception in flight in the innermost frame, `pending` is `s_exception_state.handle`, `error` is
`c_data_set`, `obj` are C++ exception objects, of which a `py_exception` owns a handle.
`ExceptFromPy` and `ThrowFromPy` carry a Python exception into C++, `TranslateStd` or `TranslatePy`,
`FromHandle` and `RaiseFromCpp` one of C++ into Python. The kinds of result matter, because the code
looks at the result before or after it looks for the exception; where it reads through the null
result of a failed callback, the process has crashed (`Crash`). C++ code of the threads in
`Keepers` keeps exceptions and throws them again; on the threads in `Dels`, `__del__` methods run
while an exception is in transit.

### PyWrapper and PyRelease

`wrapped` and `count` are a `DjinniWrapper`, `self` is `c_data_set` (a handle stands for its
`PythonProxy` too), `impl` is `CppProxy._cpp_impl`; `pyRefs` and `cppRefs` are what the threads
refer to. A conversion runs in steps (`at`, `arg`), and threads interleave between any two, since
cffi gives up the GIL in every C function. `DecRef` and `Delete` are the two halves of
`___wrapper_dec_ref`. What is one step: making a handle, its `PythonProxy` and its wrapper in
`fromPy()`, because no other thread knows any of the three before it returns, and a destructor with
the `__delete` callback it makes, because nothing else refers to that handle by then.
A wrapper that a failed call has forgotten is in `lost`.

`PyRelease` opens that last step up for objects that hold each other: `holds[o]` is what an object
refers to in the other language, and the end of one is the chain of `~PythonProxy`, `___delete`,
`MultiSet.remove`, `__del__` and `___wrapper_dec_ref`, a stack of callbacks on one thread, each of
which takes the lock of its interface's set (`Assert`, `Remove`, `Unlock`).

### IdlParser, IdlFront and IdlRecords

`IdlParser` is `parseFile()`: `stack` is `fileStack` with the locals of each call, `visited` is
`visitedFiles`, `idl` what is returned. Files and paths are told apart: `Normal` is what
`normalizePath` makes of a reference, and two paths may be one file. Missing and broken files and
cycles end it. `IdlFront` adds the rest of a run: the resolver refuses duplicate names, and the
generators go through all declarations with `written` (`writtenFiles`), `disk` and `outFiles`;
`createFile()` refuses a path that is taken, `createFileOnce()` (`Once`) passes over it. Three
generators stand for all. C++ writes a file for each type. Python writes two for a record
(`PyFiles`: `foo.py`, or `foo_base.py` where the record is extended, and `foo_helper.py`). The C
wrapper has one prefix for interfaces and another for the rest (`CFiles`). Paths are lower-cased by
`OutPath`. Each generator has a directory of its own and any of them may be off, as their options are
independent.
`IdlRecords` is the tail recursion that gathers the fields a record inherits.

## 3. What is checked

Twelve runs; each property of the nine that pass has a mutant of the code's model that breaks it
(`*_Something` definitions next to the ones they replace).

| Run | Instance | Shows |
|---|---|---|
| `cache_weak_ptr` | 2 threads, 2 objects at one address, 4 proxies, `std::weak_ptr`, early failures | one live proxy, no stale entry, the mutex is always given back, refinement |
| `cache_java_weak` | 2 threads, a finalizer, 3 proxies, `WeakReference` | with a collector, dead proxies leave in the end; refinement |
| `cache_objc_weak` | 2 types, 3 objects, two of them one after the other at one address, `__weak id`, late failures | no wrong proxy, of another type, another address or a former object, and no live one evicted, even where the mutex is lost |
| `cache_objc_release` | 2 threads, 1 object, `__weak id` | **violation**: `remove()` waits for itself |
| `jni_proxy` | 2 threads, 2 finalizers, 3 objects at 2 addresses, 2 proxies, one of which may be destroyed by hand and brought back, no assertions | a Handle is deleted once, and in the end; the other proxy is never used after it is freed; what the cache holds for an object is its own proxy, or one that was destroyed by hand |
| `jni_runtime` | 2 Java threads, 1 of C++, 2 exceptions, 1 JavaProxy, 3 frames | no native code before its singletons, no call with an exception pending but one in `jniFindClass()`, references and owners go together, exceptions arrive |
| `jni_text` | 4 bytes, 3 UTF-16 units or 3 code points, all at borders of ranges | loops stay inside, C++ gets UTF-8, strings come back, but for one unit behind an array that is read in place |
| `py_exc` | 2 threads, 3 frames, results of all kinds; one thread keeps exceptions and runs `__del__` | handles are owned once on both threads, the other's exceptions arrive |
| `py_wrapper` | 2 threads, one object on each side, 2 each of handles, wrappers, proxies; one failing call | counts are right, what arrives is what was sent, nothing is kept |
| `py_release` | 1 thread, Python - C++ - Python, one interface | **violation**: the second `___delete` waits for the first |
| `idl_front` | all projects of 3 IDL files, a YAML file, a second path of one, a missing and a broken one; 7 choices of names, kinds and generators | a file is read once and left after its imports, cycles and only cycles are refused, a path keeps the text of its first claimant and only Python leaves files out, it ends |
| `idl_extends` | all choices of bases for 4 records | **violation**: a record's ancestors lose fields |

**Bounds.** Two threads suffice for the races that the code can lose: every conflict is between one
step of a call and one call that overtakes it, and the proofs remove the bound. Two objects at one
address are the least for reuse; three proxies are one that dies, one that replaces it and one that
comes after. Three frames (`MaxDepth`) are a call, a callback and a call in it, so that each
language is caller and callee and a frame is in the middle. `MaxLost` bounds the wrappers that lose
a reference. In `jni_text` the code units are the first and last of every range that a comparison of
the source tells apart; four bytes are the longest sequence, and three units a pair with a
neighbour; behind the array of `GetStringChars` lies a NUL, a high or a low surrogate. In `jni_proxy`
and `cache_objc_weak` two of three objects follow each other at one address, beside one elsewhere. In
`idl_front` two imports each make diamonds, and three files a cycle that does not pass the root; the
names are those of a record's files, and ones that differ in case.

**Deadlock.** Exceptions are raised once each, objects and proxies are born once, strings are sent
once and the process may end, so behaviours of those models stop; their cfgs turn TLC's deadlock
check off (a real deadlock is the subject of `NoSelfDeadlock` in `cache_objc_release`, of
`LockReleased` and of `SetEmptied`). `py_wrapper` and `idl_front` go on for ever or stutter when
done, and TLC checks them for deadlock. `Symmetry` is used only in runs without liveness.

**Fairness.** Weak fairness of each thread's `Step`: a thread inside a call keeps running. Nothing
is assumed of who gets the mutex next, as `std::mutex` promises nothing; against an endless stream of
lookups a destructor may starve, and so `EventuallyForgotten` speaks of behaviours in which calls of
`get()` stop some day. Finalizers are weakly fair: the virtual machine runs the finalizers of what it
has collected. Nothing makes the collector run. In `PyWrapper` collection is strongly fair for each
`CppProxy`, since the thread on which the interpreter collects it is busy in between. `IdlFront` is a
single program that keeps running (`Main`). `PyRelease` has fair steps of threads, so that its
counterexample is a thread that is stuck, not one that is idle. `JniRuntime`, `PyExceptions` and
`JniText` state safety only, and no fairness.

## 4. What is proved

All theorems hold for any sets of threads, objects, addresses, exceptions, files and strings, in
`PyWrapperProofs` for any finite sets of threads and of CppProxies. No obligation is left open, and
every safety property that a passing run checks is stated by a theorem.

**ProxyCacheProofs.** The inductive invariant `IInv` adds to the types: the thread inside a critical
section is the owner of the mutex (`LockInv`); a call in progress has a caller that owns the
implementation (`CallInv`), so its address cannot be used again under it; between `GetFind` and
`GetAlloc` the key is free (`AllocInv`); every entry is that of a proxy whose Handle has yet to
remove it, and every live proxy has its entry (`HandleInv`, `RemoveInv`); two living objects have
two addresses (`AddrInv`). None of the properties is inductive alone: uniqueness needs that a live
proxy is *in the map*, and that needs that no late `remove()` takes its entry, which needs that
entries and addresses agree. From it: `ProxyUnique`, `ProxyRight`, `EntriesFresh`, `LiveCached`,
`SelfDeadlockFree` (under its two hypotheses: no `__weak id`, no late failure) and `Refinement`,
which maps initial states to initial states and every step to a step of `ProxyIdentity` or a stutter.

**JniCppProxyProofs.** `IInv` says that `destroyed` is set before anybody is freeing, by one thread,
and that an unfreed proxy that is reachable has its Handle. `FreedOnce` holds of every proxy,
`UseSafe` of those that are neither `Closeable` nor `Resurrectable`, whatever happens to the others.
`CacheSafe` needs that two living objects have two addresses (`OneEach`): a proxy that is found and was
not destroyed has its Handle (`FlagFirst`), which keeps its object alive, so that this is the object
asked for. What is exempt is a single proxy that was itself destroyed by hand.

**JniRuntimeProofs.** `IInv` adds to the types how loading goes on (`Loading`: a library that failed
to load leaves a JVM but no native code above it), that the thread that loads does nothing else, and
has an exception pending only inside `jniFindClass()` (`LoaderWaits`), that frames alternate and
that a frame faces the outcome of the one that was above it (`Stacks`), that the exception objects
in use are alive (`Alive`) and that every live owner has its reference (`Refs`). From it
`ReadyBeforeUse`, `NonePending` (which names that one call of `NewGlobalRef()` as the exception),
`RefsKept`, and `Arrival`, an action property: at any depth, in both directions, and through
exceptions that are kept and thrown again on other threads.

**JniTextProofs.** `DecodeEncoded8` and `DecodeEncoded16`: decoding finds the code point that was
encoded, for all 1,112,064 scalar values, by arithmetic. The inductive invariant adds to the types
what lies behind the string (`Ends`): a NUL is no continuation byte and no low surrogate, so a
sequence that is cut short is refused *before* the index passes the end; behind the array that is
read in place it may pass it by one, where that completes a pair (`Inside`). From it `TypeCorrect`,
`StaysInside` and `WritesUTF8`, with no assumption on what lies behind a string. That a sequence
appended to a well-formed string keeps it well-formed is `WellFormedAppend`. `EncodeDecoded8` is the
converse: where a well-formed sequence stands, there is a scalar value whose encoding it is.
`RoundTrip` is `StringsComeBack`, for strings of any length. An induction over the string is out of
reach, and not needed: while the first loop runs, the pairs of places at which it stood, in the
string it read and in the one it wrote, form a set `P` (`Linked`); at every pair of `P` but the
last, the same code point stands in both strings, encoded as each is, and the pair behind it is in
`P` too. A round of the first loop adds a pair (`LinkedRound`), which needs that it is at the border
of a sequence or of a pair of surrogates, and not in the middle of one (`Border`: in a well-formed
string no sequence goes on behind the end of another, `BorderBehind8`). The second loop starts at
the pair of zeros and, by `DecodeEncoded8` and `DecodeEncoded16`, goes from pair to pair, so that
what it has written is what was to be read up to the place it is linked with (`Coming`). For strings
of Java's this is what `Repaired` makes of them, in which half a pair is read, and so written, as
U+FFFD; and where the first loop takes a unit along that lies behind the array, it is the string
with that unit which comes back (`Source`).

**PyExceptionsProofs.** `IInv` gives every handle of `c_data_set` exactly one owner (a slot or a
`py_exception` that is thrown or kept), and follows the identity of the exception from the frame
that ended to the one that looks. `HandlesOwned` holds of all threads; `SlotInTransit` of those that
are not in `Dels`, `Arrival` of those that are in neither `Keepers` nor `Dels`, beside others that
are; `NullNeverRead` where methods return no strings and binaries.

**PyWrapperProofs.** `RefsCounted` relates a number to the size of a set of owners: CppProxies and
conversions under way. It is not inductive alone. A count may only be raised by somebody who owns the
wrapper already, so `IInv` has that a conversion at rest owns nothing (`Resting`), that Python has no
name for a collected CppProxy (`NamedLive`) and that a CppProxy never stands for an object of Python
(`ProxyOfCpp`), beside `HandlesHeld` and `RightObject`, which need the counts in turn: a handle or an
address is used again only when nobody owns it. Every action changes the owners of at most one
wrapper by one element, and the library's theorems on finite sets give the new cardinality; that is
where threads and CppProxies have to be finite (`FiniteAssumption`). From it `CountsRight`,
`HandlesRight`, `ArrivesRight`, `NoProxyOfOwn`, and the action property `ProxyKeepsImpl`: as long as a
CppProxy lives, its wrapper cannot be deleted and made again for something else.

**PyReleaseProofs.** The run `py_release` shows a thread that waits for itself, so the theorems say when
none does. Take any ranking of the interfaces in which every Python object comes below those that it
reaches through one object of C++ (`Ranking`; there is none if an object reaches one of its own
interface). Then a thread waits for locks above all that it holds (`LocksInOrder`), and among any
threads one waits for none of them (`NoCircleForms`): of the locks that are waited for take one of the
highest rank, and ask whom its owner waits for. The invariant says that a callback inside which
another runs holds the lock of its set, that no lock is held otherwise, and that callbacks nest in the
order of the ranks (`Nested`, `Locked`, `Ascending`). `NothingLeft` needs no ranking: whatever has a
handle is about to lose it, or is held by a thread, or by an object of C++ that a thread or another
one with a handle holds (`Kept`); where references form no circle (`Grounded`, kept from `Init`), the
last of these cases cannot go on for ever. That a set is empty *in the end* is liveness, which fails in
`py_release`. The theorems ask of the constants that `PyObjs`, `CppObjs`, `Threads` and `None` have
nothing in common (`Distinct`).

**IdlFrontProofs.** The invariant of the walk says that what was visited is on the stack or
returned, and that each frame has gathered what its imports before `next` returned: from it
`FilesReadOnce` and `FrontImportsLeftFirst`, for every project. `FrontParses` says that a run of the
program refines the parser. `FirstClaimKept`: when the program ends well, a path holds the text of
the first declaration and generator that claimed it, a file was left out only by a generator that
uses `createFileOnce()`, and what is listed is what was written. `WhatIsParsed` is
`ParsedIsReachable`: the files that are reached are those that no set closed under imports can do
without (`Reached`), so that nothing recursive has to be proved about. What has been visited is in
every such set (`VisitedReached`); the visited files that are no longer on the stack are closed
under imports when the stack is empty, which is `ImportsLeftFirst` at the end; among them is no set
of which every member imports another (`LeftUntangled`: a file is left after its imports, so one of
the set would have to come first), and a file that is refused as circular closes one with the frames
above it on the stack. That each file is parsed once follows from what each frame has gathered,
which is disjoint from what the others have and is, for all frames together, what was visited
(`Holds`). `FrontTyped` is the type invariant.

**Only model-checked**: liveness (`LockReleased`, `EventuallyForgotten`, `EventuallyFreed`,
`WrapperFreed`, `Ends`), which is out of this prover's reach, as are fairness and ENABLED; and
`SetEmptied` and `IdlRecords`, whose runs show violations.

## 5. Findings

1. `proxy_cache_impl.hpp:116`: with `__weak id` entries, `remove()` may release the last reference
   to a proxy while it holds the mutex, whose `~Handle` then waits for that mutex
   (`cache_objc_release`).
2. `support.py:22`: `MultiSet.remove` deletes a handle with its lock held; the Python object that
   dies with it may hold a C++ object that holds another Python object of the interface, whose
   `___delete` asks for the same lock on the same thread (`py_release`).
3. `generator.scala:458`: the accumulator passes on the fields of one round only, so a record with
   three records above it is generated without those of the record it extends (`idl_extends`).

Seen while modelling, with no run of their own:

* The check of a call's result compares a number with a null pointer and raises an AssertionError in
  place of the exception of a method that returns one (`exception.py:40`, `RaiseFromCpp`).
* `jniWStringFromString()` decodes the array of `GetStringChars` in place, which JNI does not
  terminate: `utf16_decode_check()` looks behind a high surrogate at its end, and joins it with what
  may lie there (`djinni_support.cpp:489` and `:571`, `EndsInPair` in `IndexInRange` and
  `JavaComesBack`).
* When an initializer does not find its class, `jniFindClass()` calls `NewGlobalRef()` with the
  exception pending (`djinni_support.cpp:209`, `FindClassFails`; the exception in `NoCallPending`).
* Python files are lost without a word: to the helper of a record `foo` the file of a type `foo_helper`,
  to a record `foo` that of an interface `Foo`, whatever the file system, in the order of the
  declarations (`PythonGenerator.scala:1029` and `:1105`, `generator.scala:603`). The C wrapper, whose
  paths have prefixes, does not refuse such names, and need not be generated.
* A Java constructor that fails in `newCppProxy()` destroys its Handle under the mutex
  (`djinni_support.hpp:454`, the hypothesis of `SelfDeadlockFree`).
* "The proxy must already be gone" (`proxy_cache_impl.hpp:107`) is not so for a Java proxy that is
  destroyed by hand: it stays in the cache and is handed out again, even for a later object at the same
  address (`ByHand`). Such a proxy is a freed Handle for
  a thread that is past its assertion, or as an argument (`JavaGenerator.scala:172`,
  `djinni_support.hpp:405`, the hypotheses of `UseSafe`).
* A JavaProxy that dies on a thread without env aborts (`djinni_support.cpp:172`), though the comment
  at line 101 lets late deletions of references pass; `~DetachOnExit` without a JVM reads a null
  pointer (`djinni_support.cpp:81`).
* `takePyException()` leaves an empty exception behind, so that C++ code that throws it a second time
  loses it (`wrapper_marshal.cpp:98`, `Keepers`); a `__del__` method that calls C++ takes an exception
  in transit (`exception.py:32`, `Dels`).
* The result of a failed callback is converted before the exception is looked for; for strings and
  binaries that reads a null pointer (`CWrapperGenerator.scala:744`, `Crash`).
* An argument that is refused leaks the ones converted before it (`PythonGenerator.scala:735`,
  `lost`).
* Nothing checks the name behind `extends` (`generator.scala:476`); constants of u8, u16 and u32 are
  checked against the signed ranges (`resolver.scala:161`).

## 6. Plan

Done: ProxyCache with its abstraction, JniCppProxy, JniRuntime, JniText, PyExceptions, PyWrapper and
IdlFront, all with proofs of every safety property that is checked; PyRelease, with the conditions under
which it does not deadlock; and IdlRecords. Next:

1. **PyContainers**: lists, sets and maps by callbacks; what arrives is what was sent or an exception;
   composed with the pending slot of PyExceptions.
2. **ThreadLocal**: the map of tags, and values that are made again while a thread's are destroyed.

**Not modelled, and why.** Printing of code, YAML export and the command line have no behaviour over
time. The Objective-C, Swift and JNI marshalling of other values is stateless. Type expressions,
constants and deriving clauses are resolved in one pass over a tree, whose errors are comparisons.
Loading libraries, build files, the IDE plug-in, examples and vendored code are not the program's own
logic. The model covers a small share of the repository's lines for that reason: more than 26,000 of
them are vendored (`json.hpp`, `optional.hpp`), most of the others are generated code of the test
suite and of the examples, of which each file repeats the same patterns, and Scala that prints text;
the parts that keep state over time, where this project looks, are some two thousand. Memory ordering
is taken as sequentially consistent: every shared access here is under a mutex, under the GIL or an
atomic with the default order; `g_cachedJVM`, which is neither, is set and cleared while nothing else
of the library runs. `Handle::assign()`, by which an Objective-C initialiser fills its Handle, is part
of the allocation: the proxy has not been handed out by then. With a 16-bit `wchar_t`, wide strings
are copied, which `JniText` leaves out.

## 7. Running it

    tlc -config ProxyCacheWeakPtr.cfg MCProxyCache
    tlapm ProxyCacheProofs.tla

`PROJECT.json` names the module and the cfg of every run, and the source lines of every definition.
