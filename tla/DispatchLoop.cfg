CONSTANTS
  Jobs = {1, 2, 3, 4}
  Cards = {c1, c2}
  JobSpecs <- MCJobSpecs
SPECIFICATION Spec
PROPERTIES FirstIsServed StopsEnd
