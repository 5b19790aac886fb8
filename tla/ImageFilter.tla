---------------------------- MODULE ImageFilter -----------------------------
(***************************************************************************)
(* The threaded image filter of cw08/zad1: thread_count threads compute    *)
(* the pixels of out_image from in_image, each those with its remainder,   *)
(* and add what they did to pixels_processed under a semaphore that they   *)
(* only try; main joins them and saves the image (main.c, filter.c,        *)
(* pgm.c).                                                                 *)
(*                                                                         *)
(* A pixel is abstracted to how often it was written.  thread_progress     *)
(* only reads pixels_processed to print it.  That malloc and               *)
(* pthread_create succeed is assumed; main does not check the latter.      *)
(***************************************************************************)
EXTENDS Integers, FiniteSets

CONSTANTS
  Arguments,  \* sets of arguments: threads, width, height and filter size
  Patience    \* the 5 in processed > count + 5

VARIABLES
  args,              \* the arguments in use
  main, i,           \* where main is, and its loop index
  th,                \* th[t]: where thread t is
  pixel, processed,  \* the local variables of thread t
  seen,              \* seen[t]: the pixels_processed that t has read
  pixels_processed,
  pp_sem,
  out_image          \* out_image[d]: how often pixel d was written

vars == <<args, main, i, th, pixel, processed, seen, pixels_processed, pp_sem,
          out_image>>
locals == <<th, pixel, processed, seen>>

NoArguments == [threads |-> 0, width |-> 0, height |-> 0, size |-> 0]
Threads == 0 .. args.threads - 1
pixel_count == args.width * args.height

Init ==
  /\ args = NoArguments
  /\ main = "start" /\ i = 0
  /\ th = <<>> /\ pixel = <<>> /\ processed = <<>> /\ seen = <<>>
  /\ pixels_processed = 0 /\ pp_sem = 1
  /\ out_image = <<>>
-----------------------------------------------------------------------------
(***************************************************************************)
(* filter.c and pgm.c: which pixels are read and which one is written.     *)
(***************************************************************************)

(* fmaxl and fminl with 0 and bound - 1.                                   *)
Clamp(v, bound) == IF v < 0 THEN 0 ELSE IF v > bound - 1 THEN bound - 1 ELSE v

Index(x, y) == y * args.width + x

(* apply_filter: the pixels it reads for x, y.                             *)
FilterReads(x, y) ==
  LET near == 0 .. args.size - 1
      c    == args.size \div 2
  IN {Index(Clamp(x - c + p, args.width), Clamp(y - c + q, args.height))
        : p \in near, q \in near}

X(d) == d % args.width
Y(d) == d \div args.width
-----------------------------------------------------------------------------
(***************************************************************************)
(* main.                                                                   *)
(***************************************************************************)
Load(a) ==
  /\ main = "start"
  /\ args' = a
  /\ \/ main' = IF a.threads <= 0 THEN "failed" ELSE "create"
     \/ main' = "failed"
  /\ out_image' = [d \in 0 .. a.width * a.height - 1 |-> 0]
  /\ th' = [t \in 0 .. a.threads - 1 |-> "none"]
  /\ pixel' = [t \in 0 .. a.threads - 1 |-> 0]
  /\ processed' = pixel' /\ seen' = pixel'
  /\ UNCHANGED <<i, pixels_processed, pp_sem>>

FirstPixel(t) == t

Create ==
  /\ main = "create"
  /\ th' = [th EXCEPT ![i] = "filter"]
  /\ pixel' = [pixel EXCEPT ![i] = FirstPixel(i)]
  /\ IF i + 1 = args.threads THEN main' = "join" /\ i' = 0
     ELSE i' = i + 1 /\ UNCHANGED main
  /\ UNCHANGED <<args, processed, seen, pixels_processed, pp_sem, out_image>>

Join ==
  /\ main = "join"
  /\ th[i] = "done"
  /\ IF i + 1 = args.threads THEN main' = "save" /\ UNCHANGED i
     ELSE i' = i + 1 /\ UNCHANGED main
  /\ UNCHANGED <<args, locals, pixels_processed, pp_sem, out_image>>

Save ==
  /\ main = "save"
  /\ main' \in {"saved", "failed"}
  /\ UNCHANGED <<args, i, locals, pixels_processed, pp_sem, out_image>>
-----------------------------------------------------------------------------
(***************************************************************************)
(* thread_run.                                                             *)
(***************************************************************************)

(* pgm_set_pixel of the filtered pixel, ++processed, and the test whether  *)
(* to report it.                                                           *)
FilterPixel(t) ==
  /\ th[t] = "filter"
  /\ pixel[t] < pixel_count
  /\ out_image' = [out_image EXCEPT ![Index(X(pixel[t]), Y(pixel[t]))] = @ + 1]
  /\ processed' = [processed EXCEPT ![t] = @ + 1]
  /\ IF processed[t] + 1 > args.threads + Patience
     THEN th' = [th EXCEPT ![t] = "try"] /\ UNCHANGED pixel
     ELSE pixel' = [pixel EXCEPT ![t] = @ + args.threads] /\ UNCHANGED th
  /\ UNCHANGED <<args, main, i, seen, pixels_processed, pp_sem>>

(* Mutant: the semaphore is not taken.                                     *)
TryNothing(t) == th' = [th EXCEPT ![t] = "read"] /\ UNCHANGED <<pp_sem, pixel>>

sem_trywait(t) ==
  IF pp_sem > 0
  THEN pp_sem' = pp_sem - 1 /\ th' = [th EXCEPT ![t] = "read"] /\ UNCHANGED pixel
  ELSE /\ th' = [th EXCEPT ![t] = "filter"]
       /\ pixel' = [pixel EXCEPT ![t] = @ + args.threads]
       /\ UNCHANGED pp_sem

Try(t) ==
  /\ th[t] = "try"
  /\ sem_trywait(t)
  /\ UNCHANGED <<args, main, i, processed, seen, pixels_processed, out_image>>

(* pixels_processed += processed is a read and a write.                    *)
ReadProcessed(t) ==
  /\ th[t] = "read"
  /\ seen' = [seen EXCEPT ![t] = pixels_processed]
  /\ th' = [th EXCEPT ![t] = "add"]
  /\ UNCHANGED <<args, main, i, pixel, processed, pixels_processed, pp_sem,
                 out_image>>

AddProcessed(t) ==
  /\ th[t] = "add"
  /\ pixels_processed' = seen[t] + processed[t]
  /\ processed' = [processed EXCEPT ![t] = 0]
  /\ th' = [th EXCEPT ![t] = "post"]
  /\ UNCHANGED <<args, main, i, pixel, seen, pp_sem, out_image>>

Post(t) ==
  /\ th[t] = "post"
  /\ pp_sem' = pp_sem + 1
  /\ seen' = [seen EXCEPT ![t] = 0]
  /\ th' = [th EXCEPT ![t] = "filter"]
  /\ pixel' = [pixel EXCEPT ![t] = @ + args.threads]
  /\ UNCHANGED <<args, main, i, processed, pixels_processed, out_image>>

Return(t) ==
  /\ th[t] = "filter"
  /\ pixel[t] >= pixel_count
  /\ th' = [th EXCEPT ![t] = "done"]
  /\ UNCHANGED <<args, main, i, pixel, processed, seen, pixels_processed,
                 pp_sem, out_image>>

Next == \/ Create \/ Join \/ Save \/ \E a \in Arguments : Load(a)
        \/ \E t \in Threads : \/ FilterPixel(t) \/ Try(t) \/ ReadProcessed(t)
                              \/ AddProcessed(t) \/ Post(t) \/ Return(t)

Spec == Init /\ [][Next]_vars
-----------------------------------------------------------------------------
(***************************************************************************)
(* Properties.                                                             *)
(***************************************************************************)

(* The threads' pixels are disjoint, and together they are all: no pixel   *)
(* is written twice, and the image that is saved has every pixel, whatever *)
(* the number of threads, also if there are more threads than pixels.      *)
EveryPixelOnce ==
  /\ \A d \in DOMAIN out_image : out_image[d] <= 1
  /\ main = "save" => \A d \in DOMAIN out_image : out_image[d] = 1

(* The pixels that each thread has processed and not reported, numbered.   *)
Unreported == UNION {{t} \X (1 .. processed[t]) : t \in Threads}
Written == {d \in DOMAIN out_image : out_image[d] > 0}

(* Progress is exact: pixels_processed and what the threads have not yet   *)
(* reported are the pixels written; no addition is lost to a race, and the *)
(* progress never passes 100%.                                             *)
ProgressExact ==
  pixels_processed + Cardinality(Unreported) = Cardinality(Written)

(* Whatever the size of filter and image, apply_filter only reads pixels   *)
(* of the image.                                                           *)
ReadsInsideImage ==
  \A t \in Threads : th[t] = "filter" /\ pixel[t] < pixel_count =>
    FilterReads(X(pixel[t]), Y(pixel[t])) \subseteq DOMAIN out_image

(* However the threads interleave, the saved image is complete, was made   *)
(* from pixels of the input only, and the progress that was shown is true  *)
(* (main.c:46-74, filter.c:45-72).                                         *)
ImageComplete == EveryPixelOnce /\ ProgressExact /\ ReadsInsideImage
-----------------------------------------------------------------------------
(***************************************************************************)
(* The inductive invariant behind ImageComplete.                           *)
(***************************************************************************)
ArgumentType == [threads : Int, width : Nat, height : Nat, size : Nat]

(* Type correctness.                                                       *)
TypeOK ==
  /\ args \in ArgumentType
  /\ main \in {"start", "create", "join", "save", "saved", "failed"} /\ i \in Nat
  /\ th \in [Threads -> {"none", "filter", "try", "read", "add", "post", "done"}]
  /\ {pixel, processed, seen} \subseteq [Threads -> Nat]
  /\ pixels_processed \in Nat /\ pp_sem \in {0, 1}
  /\ out_image \in [0 .. pixel_count - 1 -> Nat]

(* main creates the threads and joins them one after the other.            *)
MainInv ==
  /\ main = "start" =>
       args.threads = 0 /\ i = 0 /\ pixels_processed = 0 /\ pp_sem = 1
  /\ main \in {"create", "join", "save"} => args.threads > 0
  /\ main = "create" =>
       i < args.threads /\ \A t \in Threads : t >= i => th[t] = "none"
  /\ main = "join" =>
       i < args.threads /\ \A t \in Threads : t < i => th[t] = "done"
  /\ main = "save" => \A t \in Threads : th[t] = "done"

(* A thread stays with the pixels of its remainder.                        *)
SharesInv ==
  \A t \in Threads :
    /\ IF th[t] = "none" THEN pixel[t] = 0 ELSE pixel[t] % args.threads = t
    /\ th[t] = "done" => pixel[t] >= pixel_count

(* Thread t has filtered pixel d.                                          *)
Passed(t, d) == \/ d < pixel[t]
                \/ d = pixel[t] /\ th[t] \in {"try", "read", "add", "post"}

(* A pixel is written, and only once, when its thread has filtered it.     *)
ImageInv ==
  \A d \in DOMAIN out_image :
    out_image[d] = IF \E t \in Threads : d % args.threads = t /\ Passed(t, d)
                   THEN 1 ELSE 0

(* One thread at a time is between sem_trywait and sem_post; the progress  *)
(* that it has read is still the progress.                                 *)
Reports(t) == th[t] \in {"read", "add", "post"}
SemInv ==
  /\ \A t \in Threads : Reports(t) => pp_sem = 0
  /\ \A t, u \in Threads : Reports(t) /\ Reports(u) => t = u
  /\ \A t \in Threads : th[t] = "add" => seen[t] = pixels_processed

IInv == /\ TypeOK /\ MainInv /\ SharesInv /\ ImageInv /\ SemInv
        /\ IsFiniteSet(Unreported) /\ ProgressExact
=============================================================================
