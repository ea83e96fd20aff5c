------------------------------- MODULE Loader -------------------------------
(***************************************************************************)
(* SnappyLoader and the static initializers that call it.  The classes     *)
(* Snappy and BitShuffle are initialized once, by whichever thread touches *)
(* them first; each asks SnappyLoader, under its monitor, for an object    *)
(* with the native methods, and the first of them loads the library.       *)
(* Snappy.cleanUp and the OSGi activator take the objects away again, part *)
(* of it without the monitor.                                              *)
(***************************************************************************)
EXTENDS Naturals, Sequences

CONSTANTS Threads,
          SystemProps,     \* settings that -D options may give, see Settings
          FileProps,       \* settings that the properties file may give
          Bundled,         \* may the jar have a library for this platform
          Preinstalled,    \* may java.library.path have one
          MaxCleanUps,     \* bound: calls of cleanUp, start and stop
          NULL

\* use: org.xerial.snappy.use.systemlib (or the deprecated disable.bundled.libs);
\* path: org.xerial.snappy.lib.path names a folder with a library.
Settings == [use : {TRUE, FALSE, NULL}, path : {TRUE, FALSE, NULL}]

Classes == {"Snappy", "BitShuffle"}
\* A library file: the user's own in lib.path, or the one that the initialization
\* of a class extracted (a UUID in its name makes it distinct from every other).
Files == {"given"} \union Classes

ASSUME LoaderAssumption ==
    /\ SystemProps \subseteq Settings /\ FileProps \subseteq Settings
    /\ Bundled \subseteq BOOLEAN /\ Preinstalled \subseteq BOOLEAN
    /\ MaxCleanUps \in Nat
    /\ NULL \notin Threads \union Files

VARIABLES
    props,           \* the system properties after loadSnappySystemProperties
    bundled, preinstalled,
    isLoaded,
    api,             \* api["Snappy"] is snappyApi, api["BitShuffle"] bitshuffleApi
    nativeLibFile,
    content,         \* content[f]: "absent", "partial" or "whole"
    monitor,         \* the thread inside a synchronized method of SnappyLoader
    bundle,          \* the OSGi bundle: "off", "changing" or "on"
    class,           \* class[c]: "new", "running", "done" or "failed"
    impl,            \* impl[c]: the static field of class c
    pc,
    work,            \* what t does: a class to initialize, "cleanUp", "start", "stop"
    loads,           \* ghost: what System.load was given each time it succeeded
    linked,          \* ghost: the activator linked a library
    cleanUps,        \* calls of cleanUp, start and stop so far
    disturbed        \* ghost: classes whose field a clean-up cleared before it was returned

configVars == <<props, bundled, preinstalled>>
loaderVars == <<isLoaded, api, nativeLibFile, content, loads>>
classVars == <<class, impl>>
bundleVars == <<bundle, linked>>
vars == <<configVars, loaderVars, classVars, bundleVars, monitor, pc, work, cleanUps,
          disturbed>>

\* A property of the file counts only when the system property is not set.
loadSnappySystemProperties(sys, file) ==
    [n \in {"use", "path"} |-> IF sys[n] # NULL THEN sys[n] ELSE file[n]]

Init ==
    /\ \E sys \in SystemProps, file \in FileProps :
         props = loadSnappySystemProperties(sys, file)
    /\ bundled \in Bundled /\ preinstalled \in Preinstalled
    /\ isLoaded = FALSE
    /\ api = [c \in Classes |-> NULL]
    /\ nativeLibFile = NULL
    /\ content = [f \in Files |->
                    IF f = "given" /\ props["path"] = TRUE THEN "whole" ELSE "absent"]
    /\ monitor = NULL
    /\ bundle = "off"
    /\ class = [c \in Classes |-> "new"]
    /\ impl = [c \in Classes |-> NULL]
    /\ pc = [t \in Threads |-> "idle"]
    /\ work = [t \in Threads |-> NULL]
    /\ loads = <<>>
    /\ linked = FALSE
    /\ cleanUps = 0
    /\ disturbed = {}

At(t, label) == pc[t] = label
Goto(t, label) == pc' = [pc EXCEPT ![t] = label]

(***************************************************************************)
(* Initialization of a class.  loadSnappyApi and loadBitShuffleApi differ  *)
(* only in the field they use; both hold the monitor from enterMonitor to  *)
(* returnApi or fail.                                                      *)
(***************************************************************************)

\* The JVM runs the static initializer of a class at most once.
initClass(t, c) ==
    /\ At(t, "idle") /\ class[c] = "new"
    /\ class' = [class EXCEPT ![c] = "running"]
    /\ work' = [work EXCEPT ![t] = c]
    /\ Goto(t, "enter")
    /\ UNCHANGED <<configVars, loaderVars, bundleVars, impl, monitor, cleanUps, disturbed>>

\* mutant: asks whether the library is loaded, not whether the field is set
enterMonitor_Loaded(t) ==
    /\ At(t, "enter") /\ monitor = NULL
    /\ monitor' = t
    /\ Goto(t, IF isLoaded THEN "return" ELSE "find")
    /\ UNCHANGED <<configVars, loaderVars, bundleVars, classVars, work, cleanUps, disturbed>>

\* An api that is already there is returned; otherwise the library is loaded
\* unless an earlier call did.
enterMonitor(t) ==
    /\ At(t, "enter") /\ monitor = NULL
    /\ monitor' = t
    /\ Goto(t, IF api[work[t]] # NULL THEN "return" ELSE IF isLoaded THEN "set" ELSE "find")
    /\ UNCHANGED <<configVars, loaderVars, bundleVars, classVars, work, cleanUps, disturbed>>

\* mutant: an explicit lock without a finally
fail_KeepsMonitor(t) ==
    /\ class' = [class EXCEPT ![work[t]] = "failed"]
    /\ Goto(t, "idle")
    /\ work' = [work EXCEPT ![t] = NULL]
    /\ UNCHANGED <<impl, monitor>>

\* A SnappyError or UnsatisfiedLinkError leaves the synchronized method and the
\* static initializer: the class can never be used.
fail(t) ==
    /\ class' = [class EXCEPT ![work[t]] = "failed"]
    /\ monitor' = NULL
    /\ Goto(t, "idle")
    /\ work' = [work EXCEPT ![t] = NULL]
    /\ UNCHANGED impl

stay(t, label) == Goto(t, label) /\ UNCHANGED <<classVars, monitor, work>>

\* loadNativeLibrary assigns nativeLibFile what findNativeLibrary returned.
found(t, f) == nativeLibFile' = f /\ stay(t, "load")

findNativeLibrary(t) ==
    /\ At(t, "find")
    /\ \/ props["use"] = TRUE /\ found(t, NULL)
       \/ props["use"] # TRUE /\ content["given"] # "absent" /\ found(t, "given")
       \/ /\ props["use"] # TRUE /\ content["given"] = "absent"
          /\ IF bundled THEN stay(t, "extract") ELSE fail(t)
          /\ UNCHANGED nativeLibFile
    /\ UNCHANGED <<configVars, isLoaded, api, content, loads, bundleVars, cleanUps, disturbed>>

\* The copy is whole, or short although no call failed, or an IOException leaves
\* a part of it or nothing behind and findNativeLibrary returns null.
extractLibraryFile(t) ==
    /\ At(t, "extract")
    /\ \/ /\ \E w \in {"whole", "partial"} : content' = [content EXCEPT ![work[t]] = w]
          /\ stay(t, "verify") /\ UNCHANGED nativeLibFile
       \/ /\ \E w \in {"absent", "partial"} : content' = [content EXCEPT ![work[t]] = w]
          /\ found(t, NULL)
    /\ UNCHANGED <<configVars, isLoaded, api, loads, bundleVars, cleanUps, disturbed>>

\* The copy is compared with the resource; reading either may fail as well.
contentsEquals(t) ==
    /\ At(t, "verify")
    /\ \/ content[work[t]] = "whole" /\ found(t, work[t])
       \/ content[work[t]] # "whole" /\ fail(t) /\ UNCHANGED nativeLibFile
       \/ found(t, NULL)
    /\ UNCHANGED <<configVars, isLoaded, api, content, loads, bundleVars, cleanUps, disturbed>>

\* mutant: isLoaded is not set
loadNativeLibrary_Forgets(t) ==
    /\ At(t, "load")
    /\ \/ stay(t, "set") /\ loads' = Append(loads, "whole")
       \/ fail(t) /\ UNCHANGED loads
    /\ UNCHANGED <<configVars, isLoaded, api, nativeLibFile, content, bundleVars, cleanUps,
                   disturbed>>

\* System.load of the file, or System.loadLibrary when there is none.  Linking a
\* file may fail although it is there.
loadNativeLibrary(t) ==
    LET lib == IF nativeLibFile # NULL THEN content[nativeLibFile]
               ELSE IF preinstalled THEN "whole" ELSE "absent"
    IN  /\ At(t, "load")
        /\ \/ /\ lib # "absent"
              /\ loads' = Append(loads, lib)
              /\ isLoaded' = TRUE
              /\ stay(t, "set")
           \/ fail(t) /\ UNCHANGED <<isLoaded, loads>>
        /\ UNCHANGED <<configVars, api, nativeLibFile, content, bundleVars, cleanUps, disturbed>>

\* setSnappyApi(new SnappyNative()), or bitshuffleApi = new BitShuffleNative().
setApi(t) ==
    /\ At(t, "set")
    /\ api' = [api EXCEPT ![work[t]] = work[t]]
    /\ stay(t, "return")
    /\ UNCHANGED <<configVars, isLoaded, nativeLibFile, content, loads, bundleVars, cleanUps,
                   disturbed>>

\* The field is read again, and its value becomes the class's impl.
returnApi(t) ==
    /\ At(t, "return")
    /\ impl' = [impl EXCEPT ![work[t]] = api[work[t]]]
    /\ class' = [class EXCEPT ![work[t]] = "done"]
    /\ monitor' = NULL
    /\ work' = [work EXCEPT ![t] = NULL]
    /\ Goto(t, "idle")
    /\ UNCHANGED <<configVars, loaderVars, bundleVars, cleanUps, disturbed>>

(***************************************************************************)
(* Snappy.cleanUp, and the start and stop of the OSGi bundle.              *)
(***************************************************************************)

Begin(t, what, label) ==
    /\ At(t, "idle") /\ cleanUps < MaxCleanUps
    /\ cleanUps' = cleanUps + 1
    /\ work' = [work EXCEPT ![t] = what]
    /\ Goto(t, label)
    /\ UNCHANGED <<configVars, loaderVars, classVars, monitor, disturbed>>

\* A static method of Snappy runs once the class is initialized.
cleanUp(t) == class["Snappy"] = "done" /\ Begin(t, "cleanUp", "file") /\ UNCHANGED bundleVars

\* System.loadLibrary comes first; if it throws, the bundle stays off.
start(t) ==
    /\ bundle = "off" /\ Begin(t, "start", "install")
    /\ linked' = TRUE /\ bundle' = "changing"

stop(t) ==
    /\ bundle = "on" /\ Begin(t, "stop", "reset")
    /\ bundle' = "changing" /\ UNCHANGED linked

Finish(t) ==
    /\ Goto(t, "idle")
    /\ work' = [work EXCEPT ![t] = NULL]
    /\ bundle' = CASE work[t] = "start" -> "on" [] work[t] = "stop" -> "off" [] OTHER -> bundle

\* What follows cleanUpExtractedNativeLib, and what follows setSnappyApi.
AfterFile(t) ==
    IF work[t] = "stop" THEN Finish(t) ELSE Goto(t, "reset") /\ UNCHANGED <<work, bundle>>
AfterSet(t) ==
    IF work[t] = "stop" THEN Goto(t, "file") /\ UNCHANGED <<work, bundle>> ELSE Finish(t)

\* clearSnappy or clearBitShuffle clears the field of c.  That disturbs an
\* initialization only when its thread has set the field, or has seen it set, and
\* is about to read it again for its return statement.
Interferes(c) ==
    disturbed' = disturbed \union {d \in {c} : \E u \in Threads : At(u, "return") /\ work[u] = c}

\* cleanUpExtractedNativeLib looks at nativeLibFile without the monitor.  The
\* result of delete() is ignored.
deleteLib(t) ==
    /\ At(t, "file")
    /\ IF nativeLibFile # NULL /\ content[nativeLibFile] # "absent"
         THEN /\ \/ content' = [content EXCEPT ![nativeLibFile] = "absent"]
                 \/ UNCHANGED content
              /\ Goto(t, "clearSnappy")
              /\ UNCHANGED <<work, bundle>>
         ELSE AfterFile(t) /\ UNCHANGED content
    /\ UNCHANGED <<configVars, isLoaded, api, nativeLibFile, loads, classVars, linked, monitor,
                   cleanUps, disturbed>>

clearSnappy(t) ==
    /\ At(t, "clearSnappy")
    /\ api' = [api EXCEPT !["Snappy"] = NULL]
    /\ Interferes("Snappy")
    /\ Goto(t, "clearBitShuffle")
    /\ UNCHANGED <<configVars, isLoaded, nativeLibFile, content, loads, classVars, bundleVars,
                   monitor, work, cleanUps>>

clearBitShuffle(t) ==
    /\ At(t, "clearBitShuffle")
    /\ api' = [api EXCEPT !["BitShuffle"] = NULL]
    /\ Interferes("BitShuffle")
    /\ AfterFile(t)
    /\ UNCHANGED <<configVars, isLoaded, nativeLibFile, content, loads, classVars, linked,
                   monitor, cleanUps>>

\* The synchronized setSnappyApi: null, or a new SnappyNative when the bundle starts.
setSnappyApi(t) ==
    /\ pc[t] \in {"reset", "install"} /\ monitor = NULL
    /\ api' = [api EXCEPT !["Snappy"] = IF At(t, "install") THEN "Snappy" ELSE NULL]
    /\ AfterSet(t)
    /\ UNCHANGED <<configVars, isLoaded, nativeLibFile, content, loads, classVars, linked,
                   monitor, cleanUps, disturbed>>

\* A step of a thread inside one of the calls.
step(t) ==
    \/ enterMonitor(t) \/ findNativeLibrary(t) \/ extractLibraryFile(t) \/ contentsEquals(t)
    \/ loadNativeLibrary(t) \/ setApi(t) \/ returnApi(t)
    \/ deleteLib(t) \/ clearSnappy(t) \/ clearBitShuffle(t) \/ setSnappyApi(t)

Next ==
    \E t \in Threads :
        \/ \E c \in Classes : initClass(t, c)
        \/ cleanUp(t) \/ start(t) \/ stop(t)
        \/ step(t)

Spec == Init /\ [][Next]_vars

\* A runnable thread runs.  Each thread takes the monitor finitely often, so that
\* an unfair monitor cannot starve one for ever.
FairSpec == Spec /\ \A t \in Threads : WF_vars(step(t))

(***************************************************************************)
(* Properties                                                              *)
(***************************************************************************)

\* loadNativeLibrary: however the two initializers, clean-ups and failed attempts
\* interleave, the library is loaded at most once, and isLoaded says whether it was
\* (a second System.load of another copy would link the natives twice).  A library
\* that was not copied properly is never linked, whichever step of it went wrong.
LoadedOnce == loads \in {<<>>, <<"whole">>} /\ (isLoaded <=> loads = <<"whole">>)

\* loadSnappyApi and loadBitShuffleApi: a class that was initialized has its impl,
\* whatever clean-ups did before or at the same time, except in one case and always
\* in that one: a clean-up without the monitor cleared the field of this very class
\* after the initializer had set it or seen it set, and before the return statement
\* read it again.  An impl is there only when a library with its native methods was
\* linked, by the loader or by the activator.
ImplReady ==
    \A c \in Classes : /\ class[c] = "done" => (impl[c] = c <=> c \notin disturbed)
                       /\ impl[c] # NULL => isLoaded \/ linked

\* Every initialization and every clean-up comes to an end, also the ones that wait
\* for the monitor of an initialization that fails.
CallsEnd == \A t \in Threads : ~At(t, "idle") ~> At(t, "idle")
=============================================================================
