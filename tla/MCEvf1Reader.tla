---------------------------- MODULE MCEvf1Reader ----------------------------
\* Instances of Evf1Reader.
EXTENDS Evf1Reader

\* Images of two segment files and of three; the numbers are the chunks of
\* their tables.
TwoFiles == <<<<2, 1>>, <<2>>>>
ThreeFiles == <<<<1>>, <<1, 1>>, <<1>>>>

\* All files of an image, in the order of their numbers and not.
AnyOrder == {<<1, 2>>, <<2, 1>>}
AnyOrderOfThree == {<<1, 2, 3>>, <<1, 3, 2>>, <<2, 3, 1>>}
=============================================================================
