--------------------------------- MODULE MyCp ----------------------------------
(***************************************************************************)
(* src/file-system/my-cp/my_cp.go: copies files and, with -r, directories. *)
(* A path is a sequence of names, and the file system a function from      *)
(* paths to the contents of a file or to DIR.                              *)
(***************************************************************************)
EXTENDS Integers, Sequences, SequencesExt

CONSTANTS
  FileSystems,   \* what may be there at first
  Commands,      \* the arguments: [srcPath, destPath, mod]
  buff_size,
  MaxPath,       \* PATH_MAX: names in the longest path a call takes
  DIR

RECURSIVE_FLAG == 1
NOCLOBBER == 2

VARIABLES
  args, orig,      \* the command line, and the file system when it was entered
  fs,
  next,            \* the source in hand, of args.srcPath
  todo,            \* the stack of recursiveCopy: pairs of a destination and a source
  buff, off, cpc,  \* of copyFile: the buffer, the offset in both files, where it is
  skipped          \* destinations that were left alone, or for which a call has failed

vars == <<args, orig, fs, next, todo, buff, off, cpc, skipped>>

Zeros == [k \in 1 .. buff_size |-> 0]

Init ==
  /\ args \in Commands /\ orig \in FileSystems /\ fs = orig
  /\ next = 1 /\ todo = <<>> /\ buff = Zeros /\ off = 0 /\ skipped = {}
  \* More than one source needs a directory.
  /\ cpc = IF Len(args.srcPath) > 1 /\ (args.destPath \notin DOMAIN fs \/ fs[args.destPath] # DIR)
           THEN "done" ELSE "main"

\* The flag is shifted down to its bit, and mod with it.
Shift == [f \in {1, 2, 4} |-> IF f = 1 THEN 0 ELSE IF f = 2 THEN 1 ELSE 2]
checkMod(mod, flag) == (mod \div 2 ^ Shift[flag]) % 2 = 1

Exists(p) == p \in DOMAIN fs
IsDir(p) == Exists(p) /\ fs[p] = DIR

makeDestPath(dest, src) == IF IsDir(dest) THEN Append(dest, Last(src)) ELSE dest

\* A source: a file is copied, a directory with -r; one that is not there ends the program.
MainTurn ==
  /\ cpc = "main"
  /\ IF next > Len(args.srcPath) \/ ~Exists(args.srcPath[next])
     THEN cpc' = "done" /\ UNCHANGED <<next, todo>>
     ELSE LET src == args.srcPath[next] IN
          /\ next' = next + 1 /\ cpc' = "take"
          /\ todo' = IF IsDir(src) /\ ~checkMod(args.mod, RECURSIVE_FLAG) THEN <<>>
                     ELSE <<<<makeDestPath(args.destPath, src), src>>>>
  /\ UNCHANGED <<args, orig, fs, buff, off, skipped>>

Ancestors(p) == {SubSeq(p, 1, k) : k \in 0 .. Len(p)}   \* of which p itself is one
Children(p) == {q \in DOMAIN fs : Len(q) = Len(p) + 1 /\ IsPrefix(p, q)}

\* recursiveCopy: the entries ReadDir returns, which are not all when it fails; if there is
\* any, the destination and what is above it are made as far as they can.  An error goes
\* into a copy of errors, which nobody reads.
recursiveCopy ==
  /\ cpc = "take" /\ todo # <<>> /\ IsDir(todo[1][2])
  /\ \E dirEntries \in SUBSET Children(todo[1][2]) :
       LET To(q) == Append(todo[1][1], Last(q))
           entries == SetToSeq(dirEntries)
           path == {p \in Ancestors(todo[1][1]) : Len(p) <= MaxPath} IN
       /\ todo' = [k \in DOMAIN entries |-> <<To(entries[k]), entries[k]>>] \o Tail(todo)
       /\ fs' = IF dirEntries = {} \/ \E p \in path : Exists(p) /\ ~IsDir(p) THEN fs
                ELSE [p \in DOMAIN fs \union path |-> IF Exists(p) THEN fs[p] ELSE DIR]
       /\ skipped' = skipped \union {To(q) : q \in Children(todo[1][2]) \ dirEntries}
  /\ UNCHANGED <<args, orig, next, buff, off, cpc>>

\* copyFile, up to its loop; without O_TRUNC.
CopyOpens ==
  /\ cpc = "take" /\ todo # <<>> /\ ~IsDir(todo[1][2])
  /\ LET dest == todo[1][1] IN
     IF \/ IsDir(dest) \/ ~IsDir(Front(dest)) \/ Len(dest) > MaxPath
        \/ checkMod(args.mod, NOCLOBBER) /\ Exists(dest)
     THEN /\ skipped' = skipped \union {dest} /\ todo' = Tail(todo)
          /\ UNCHANGED <<fs, cpc>>
     ELSE /\ fs' = IF Exists(dest) THEN fs
                   ELSE [p \in DOMAIN fs \union {dest} |-> IF p = dest THEN <<>> ELSE fs[p]]
          /\ \/ cpc' = "loop" /\ UNCHANGED <<todo, skipped>>
             \/ skipped' = skipped \union {dest} /\ todo' = Tail(todo) /\ UNCHANGED cpc
  /\ buff' = Zeros /\ off' = 0
  /\ UNCHANGED <<args, orig, next>>

Overwrite(content, at, data) ==
  SubSeq(content, 1, at) \o data \o SubSeq(content, at + Len(data) + 1, Len(content))

\* A turn of the loop writes the whole buffer, whatever the read has put into it, or a part
\* of it when the write fails; the loop goes on only if as much was written as was read.
CopyBlock ==
  LET dest == todo[1][1]
      src == fs[todo[1][2]]
      end == IF off + buff_size < Len(src) THEN off + buff_size ELSE Len(src)
      data == SubSeq(src, off + 1, end) IN
  /\ cpc = "loop"
  /\ buff' = Overwrite(buff, 0, data)
  /\ \E outputCount \in (IF data = <<>> THEN {0} ELSE 0 .. buff_size) :
       /\ fs' = [fs EXCEPT ![dest] = Overwrite(@, off, SubSeq(buff', 1, outputCount))]
       /\ off' = off + outputCount
       /\ IF data # <<>> /\ outputCount = Len(data) THEN UNCHANGED <<todo, cpc>>
          ELSE todo' = Tail(todo) /\ cpc' = "take"
       /\ skipped' = IF data # <<>> /\ outputCount < buff_size THEN skipped \union {dest} ELSE skipped
  /\ UNCHANGED <<args, orig, next>>

\* A read that fails ends the loop like the end of the file.
CopyFails ==
  /\ cpc = "loop" /\ cpc' = "take"
  /\ todo' = Tail(todo) /\ skipped' = skipped \union {todo[1][1]}
  /\ UNCHANGED <<args, orig, fs, next, buff, off>>

TakeNext ==
  /\ cpc = "take" /\ todo = <<>> /\ cpc' = "main"
  /\ UNCHANGED <<args, orig, fs, next, todo, buff, off, skipped>>

copyFile == CopyOpens \/ CopyBlock \/ CopyFails
Next == MainTurn \/ recursiveCopy \/ copyFile \/ TakeNext

\* One goroutine.
Fairness == WF_vars(Next)

Spec == Init /\ [][Next]_vars /\ Fairness

-------------------------------------------------------------------------------

Blocks(n) == (n + buff_size - 1) \div buff_size

\* What a copy of src over old must look like: the bytes of src, then up to a whole block
\* what the block before left in the buffer (zeros in the first), then what old had there.
CopyOf(src, old) ==
  LET size == Blocks(Len(src)) * buff_size
      Byte(k) == IF k <= Len(src) THEN src[k]
                 ELSE IF k > size THEN old[k]
                 ELSE IF k > buff_size THEN src[k - buff_size] ELSE 0
  IN  [k \in 1 .. (IF size > Len(old) THEN size ELSE Len(old)) |-> Byte(k)]

\* The destination of a file below the source s.
Target(s, p) ==
  LET d == args.destPath
      top == IF d \in DOMAIN orig /\ orig[d] = DIR THEN Append(d, Last(s)) ELSE d
  IN  top \o SubSeq(p, Len(s) + 1, Len(p))

\* At the end every file below a source that was taken has its copy, block for block, where
\* it belongs, unless it or what it is in was skipped, or two go to the same place; and no
\* other file has changed, with -n none that was there.
TreeCopied ==
  cpc = "done" =>
    LET taken == {args.srcPath[k] : k \in 1 .. next - 1}
        goes == {s \in taken : orig[s] # DIR \/ checkMod(args.mod, RECURSIVE_FLAG)}
        jobs == {<<s, p>> \in goes \X DOMAIN orig : IsPrefix(s, p) /\ orig[p] # DIR}
        Before(p) == IF p \in DOMAIN orig THEN orig[p] ELSE <<>>
    IN  /\ \A j \in jobs :
             LET t == Target(j[1], j[2])
             IN  Ancestors(t) \intersect skipped = {} /\ (\A i \in jobs \ {j} : Target(i[1], i[2]) # t)
                   => fs[t] = CopyOf(orig[j[2]], Before(t))
        /\ \A p \in DOMAIN orig :
             fs[p] # orig[p] => ~checkMod(args.mod, NOCLOBBER) /\ \E j \in jobs : p = Target(j[1], j[2])

CopyEnded == cpc = "done"
===============================================================================
