----------------------------- MODULE MCFileCopy -----------------------------
(***************************************************************************)
(* A node with one fixed file and one drop-in directory beside it, and one *)
(* log tree with a directory inside; a link to a directory elsewhere, an   *)
(* old file, and a special file that nobody has linked yet.                *)
(***************************************************************************)
EXTENDS FileCopyProperties

CONSTANTS slash, etc, drop, log, sub, old, new, alias, fifo, absent

MCInodes == {slash, etc, drop, log, sub, old, new, alias, fifo}
MCKind == [i \in MCInodes \cup {absent} |->
             IF i = absent THEN "absent"
             ELSE IF i \in {slash, etc, drop, log, sub} THEN "dir"
             ELSE IF i = alias THEN "link"
             ELSE IF i = fifo THEN "other" ELSE "file"]
MCDepth == (slash :> 0) @@ (etc :> 1) @@ (log :> 1) @@ (drop :> 2) @@ (sub :> 2)
MCNames == 1 .. 2
MCInitial ==
  [e \in {slash, etc, drop, log, sub, alias} \X MCNames |->
     CASE e = <<slash, 1>> -> etc
       [] e = <<slash, 2>> -> log
       [] e = <<etc, 1>>   -> old
       [] e = <<etc, 2>>   -> drop
       [] e = <<drop, 1>>  -> old
       [] e = <<drop, 2>>  -> new
       [] e = <<log, 1>>   -> sub
       [] e = <<log, 2>>   -> new
       [] e = <<sub, 1>>   -> new
       [] e = <<alias, 1>> -> new
       [] e = <<alias, 2>> -> new
       [] OTHER            -> absent]
MCJobs == <<[kind |-> "file",   path |-> <<1, 1>>, includes |-> {},    windowed |-> FALSE],
            [kind |-> "listed", path |-> <<1, 2>>, includes |-> {2},   windowed |-> FALSE],
            [kind |-> "tree",   path |-> <<2>>,    includes |-> {1,2}, windowed |-> TRUE]>>

=============================================================================
