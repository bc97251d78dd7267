---- MODULE MCWriterLocking ----
\* Instances of WriterLocking.
EXTENDS WriterLocking

\* Once goroutines have met at the file, no property but TypeOK looks at the file,
\* at what was read from it or at what leads to it, and no guard ever does.
View == IF met THEN <<mu, buf, hashed, pc, part, pieces, callVars, faults, accepted>>
        ELSE vars
====
