---------------------------- MODULE MCMindmapFile ----------------------------
(* Instances of MindmapFile for TLC. *)
EXTENDS MindmapFile

\* A root alone; a root with a topic in a topic; a root with two topics, one of them
\* with a mark, a topic in it and a line to the other.
Maps ==
  {<<Self(1, 0)>>,
   <<Open(1, 0), Open(2, 0), Self(3, 0), Close, Close>>,
   <<Open(1, 0), Open(2, 0), Mark, Self(3, 0), Tag("arrow", 1, 4), Close,
     Self(4, 0), Close>>}

\* A root with an icon that another program wrote as <icon ...></icon>, and one with such
\* a line to a topic in it.
PairedMaps ==
  {<<Open(1, 0), Tag("openmark", 0, 0), Tag("end", 0, 0), Close>>,
   <<Open(1, 0), Tag("openarrow", 1, 2), Tag("end", 0, 0), Self(2, 0), Close>>}

==============================================================================
