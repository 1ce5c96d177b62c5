CONSTANTS
    Name = {n1, n2}
    NULL = NULL
    Bad = Bad
    MaxFd = 4
    MaxEntries = 3
    MaxPath = 3
SPECIFICATION Spec
SYMMETRY Alike
INVARIANT RunningStayOpen
PROPERTIES ListedProgramsLoad FailedLoadCloses RunsWhatIsNamed
