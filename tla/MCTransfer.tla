------------------------------ MODULE MCTransfer -------------------------------
(***************************************************************************)
(* The programs that carry files and lines from one place to another: a    *)
(* behaviour is one of FileTransfer's, of LogArchive's, of MyCp's or of    *)
(* UdpLog's, while the variables of the others stay at their start.        *)
(***************************************************************************)
EXTENDS FileTransfer

CONSTANTS Logs, Others, NewLog, EOF, DIR, Client, MaxTexts

VARIABLES
  program,
  orig, logs, arch, arch_dir, entries, file, pos, at_end, error, file_buf, apc, failed, log_file,
  args, before, fs, next, todo, buff, off, cppc, skipped,
  cpc, sent, answers, queue, reply, len, log, unlogged, udp_server

\* Two files of one name, or of a name that begins with the other; one of whole pages, the
\* other missing, empty or of a page and a half.
MCRequests ==
  {<<[size |-> 2, base |-> <<"a">>], [size |-> s, base |-> b]>> :
     s \in {NOFILE, 0, 3}, b \in {<<"a">>, <<"a", "b">>}}

\* Nothing; names without a gap and with one.
MCDirectories ==
  {{}, {<<<<"a", "b">>, 0>>, <<<<"a">>, 0>>}, {<<<<"a">>, 0>>, <<<<"a">>, 2>>}}

\* Files around a buffer of three bytes.
A == INSTANCE LogArchive WITH
       PAGESIZE <- 3, Contents <- {<<>>, <<1, 2>>, <<1, 2, 3>>, <<1, 2, 3, 4>>}

\* d and d/e are directories; f is short, d/g whole, d/e/f two blocks; t a directory with a
\* longer f in it.
Tree ==
  [p \in {<<>>, <<"d">>, <<"d", "e">>, <<"f">>, <<"d", "g">>, <<"d", "e", "f">>, <<"t">>,
          <<"t", "f">>} |->
     CASE p = <<"f">> -> <<1>> [] p = <<"d", "g">> -> <<2, 3>> [] p = <<"d", "e", "f">> -> <<4, 5, 6>>
       [] p = <<"t", "f">> -> <<7, 8, 9, 10, 11>> [] OTHER -> DIR]

C == INSTANCE MyCp WITH
       FileSystems <- {Tree}, buff_size <- 2, MaxPath <- 7,
       Commands <- [srcPath : {<<<<"f">>>>, <<<<"d">>>>, <<<<"f">>, <<"d">>>>, <<<<"d", "e", "f">>, <<"f">>>>,
                               <<<<"f">>, <<"x">>>>},
                    destPath : {<<"t">>, <<"f">>, <<"y">>, <<"y", "z">>}, mod : 0 .. 7]
                   \union [srcPath : {<<<<"d">>>>}, destPath : {<<"d", "e">>}, mod : {1, 3}],
       orig <- before, cpc <- cppc

U == INSTANCE UdpLog WITH server <- udp_server

archiveVars ==
  <<orig, logs, arch, arch_dir, entries, file, pos, at_end, error, file_buf, apc, failed, log_file>>
cpVars == <<args, before, fs, next, todo, buff, off, cppc, skipped>>
udpVars == <<cpc, sent, answers, queue, reply, len, log, unlogged, udp_server>>
mcvars == <<program, vars, archiveVars, cpVars, udpVars>>

\* A program that does not run has one start only; what is no log has one content.
MCInit ==
  /\ program \in {"transfer", "archive", "cp", "udp"}
  /\ Init
  /\ program # "transfer" => opType = "POST" /\ listing = {} /\ size[2] = 0 /\ base[1] = base[2]
  /\ A!Init /\ \A f \in Others : orig[f] = <<>>
  /\ program # "archive" => arch_dir /\ \A f \in DOMAIN orig : orig[f] = <<>>
  /\ C!Init
  /\ program # "cp" => args.mod = 0 /\ args.srcPath = <<<<"f">>>> /\ args.destPath = <<"t">>
  /\ U!Init
  /\ program # "udp" => len = "enough"

MCNext ==
  /\ UNCHANGED program
  /\ \/ program = "transfer" /\ Next /\ UNCHANGED <<archiveVars, cpVars, udpVars>>
     \/ program = "archive" /\ A!Next /\ UNCHANGED <<vars, cpVars, udpVars>>
     \/ program = "cp" /\ C!Next /\ UNCHANGED <<vars, archiveVars, udpVars>>
     \/ program = "udp" /\ U!Next /\ UNCHANGED <<vars, archiveVars, cpVars>>

MCSpec ==
  /\ MCInit /\ [][MCNext]_mcvars
  /\ \/ program = "transfer" /\ Fairness
     \/ program = "archive" /\ A!Fairness
     \/ program = "cp" /\ C!Fairness
     \/ program = "udp" /\ U!Fairness

-------------------------------------------------------------------------------

\* What is carried arrives as it was, except for the losses, the extra bytes and the
\* collisions named: see DownloadsKept, OldFilesKept and Casualties, LogArchive!ArchiveKept,
\* MyCp!TreeCopied and UdpLog!AnsweredIsLogged.
TransferKept ==
  /\ program = "transfer" => DownloadsKept /\ OldFilesKept /\ Casualties
  /\ program = "archive" => A!ArchiveKept
  /\ program = "cp" => C!TreeCopied
  /\ program = "udp" => U!AnsweredIsLogged

Ended ==
  \/ program = "transfer" /\ ClientEnded
  \/ program = "archive" /\ A!ArchiveEnded
  \/ program = "cp" /\ C!CopyEnded
  \/ program = "udp" /\ U!ServerEnded

\* The client, the archive and the copy come to their end, and the UDP server after an OFF
\* has reached its socket, whatever else fails.  The one thing that keeps the client is a
\* connection the server has dropped without closing it: then all other downloads are over.
TransferEnds ==
  (program = "udp" => U!OffArrived) ~> (Ended \/ (program = "transfer" /\ Stranded))
===============================================================================
