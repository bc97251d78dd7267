---------------------------- MODULE MCEvf2Reader ----------------------------
\* Instances of Evf2Reader.
EXTENDS Evf2Reader

\* Images of three segment files and of one; the numbers are the chunks of
\* their tables.
ThreeFiles == <<<<1>>, <<1, 1>>, <<1>>>>
OneFile == <<<<2>>>>

\* All files of an image, in the order of their numbers and not.
InOrder == {<<1>>}
AnyOrderOfThree == {<<1, 2, 3>>, <<2, 3, 1>>}
=============================================================================
