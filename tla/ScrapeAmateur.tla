--------------------------- MODULE ScrapeAmateur ---------------------------
(* The catalogue's functions of the sites that sell or index FC2 and other *)
(* self-published movies. *)
EXTENDS ScrapeSteps, Sequences

(* FC2Movie that assigns the error of the visit over that of its callbacks. *)
FC2MovieAssigns == <<Given("ID", "url"), Given("Number", "url"), Visit("article", "assign", <<
  On("headerInfo", <<Set("Title", "h3"), Set("Genres", "tags"), Set("Details", "maker"), Set("Date", "Releasedate")>>),
  On("Sale Day", <<Set("Date", "")>>),
  When("other Product ID", <<Fail>>),
  On("iframe", <<Visit("contents", "ignore", <<On("body div", <<Set("Summary", "")>>)>>)>>),
  On("MainitemThumb", <<SetURL("Thumb", "src")>>),
  On("runtime", <<Set("Details", "")>>),
  On("SampleImages", <<AddURL("Previews", "href")>>),
  Copy("Cover", "Thumb"),
  CopyFirst("Cover", "Previews")>>)>>

(* fc2.go: an article that names another product id is an error *)
FC2Movie == <<Given("ID", "url"), Given("Number", "url"), Visit("article", "keep", <<
  On("headerInfo", <<Set("Title", "h3"), Set("Genres", "tags"), Set("Details", "maker"), Set("Date", "Releasedate")>>),
  On("Sale Day", <<Set("Date", "")>>),
  When("other Product ID", <<Fail>>),
  On("iframe", <<Visit("contents", "ignore", <<On("body div", <<Set("Summary", "")>>)>>)>>),
  On("MainitemThumb", <<SetURL("Thumb", "src")>>),
  On("runtime", <<Set("Details", "")>>),
  On("SampleImages", <<AddURL("Previews", "href")>>),
  Copy("Cover", "Thumb"),
  CopyFirst("Cover", "Previews")>>)>>

(* fc2hub.go *)
FC2HubMovie == <<Given("ID", "url"), Visit("video", "assign", <<
  On("h1", <<Set("Title", "")>>),
  On("summary", <<Set("Summary", "")>>),
  On("number", <<Text("Number", "")>>),
  On("genre", <<AddText("Genres", "")>>),
  On("maker", <<Set("Details", "")>>),
  On("gallery", <<AddText("Previews", "href")>>),
  On("ld+json", <<Text("Title", "name"), Default("Summary", "description"), Text("Details", "director"),
                  Default("Genres", "genre"), Text("Actors", "actor"), Text("Number", "identifier"),
                  Set("Cover", "image"), Set("Date", "datePublished")>>),
  CopyFirst("Cover", "Previews"),
  Copy("Thumb", "Cover"),
  If("Number", <<If("Title", <<Given("Homepage", "title")>>)>>)>>)>>

FC2HubSearch == <<VisitAny("search", "assign", <<
  When("Location of a video", FC2HubMovie \o <<IfOK(<<Given("Results", "info")>>)>>)>>)>>

(* fc2ppvdb.go: the id of the answer is the one the page names *)
FC2PPVDBMovie == <<Given("ID", "url"), Given("Number", "url"), Visit("article", "assign", <<
  On("img", <<SetURL("Cover", "src")>>),
  On("h2", <<Set("Title", "")>>),
  On("row id", <<Set("ID", "")>>),
  On("row actors", <<AddText("Actors", "")>>),
  On("row date", <<Set("Date", "")>>),
  On("row", <<Set("Details", "")>>)>>)>>

(* javfree.go: the first preview becomes the cover *)
JAVFREEMovie == <<Given("ID", "url"), Visit("entry", "assign", <<
  On("entry-header", <<Set("Title", ""), Given("Number", "url")>>),
  On("post-author", <<Set("Details", ""), Set("Date", "next")>>),
  On("entry-content", <<IfText("", <<Overflow("First", "Previews")>>)>>),
  Copy("Cover", "First"),
  Copy("Thumb", "Cover")>>)>>

JAVFREESearch == <<Visit("search", "assign", <<On("article", <<AddURL("Results", "href")>>)>>)>>

(* gcolle.go: the page behind the question of age takes the place of the first *)
GcolleMovie == <<Given("ID", "url"), Given("Number", "url"), Visit("product", "assign", <<
  When("age_check", <<Given("Age", "asked"), Visit("checked", "ignore", <<Clear("Age")>>)>>),
  Unless("Age", <<
    On("h1", <<Set("Title", "")>>),
    On("summary", <<Set("Summary", "")>>),
    On("genre", <<Add("Genres", "")>>),
    On("cover", <<SetURL("Cover", "href"), SetURL("Thumb", "src")>>),
    On("div img", <<AddURL("Previews", "src")>>),
    On("div a img", <<AddURL("Previews", "src")>>),
    On("row date", <<Set("Date", "")>>),
    On("maker", <<Default("Details", "b")>>)>>),
  Visit("score", "ignore", <<On("score json", <<Set("Score", "rating")>>)>>)>>)>>

(* pcolle.go *)
PcolleMovie == <<Given("ID", "url"), Given("Number", "url"), Visit("product", "assign", <<
  On("row maker", <<Set("Details", "")>>),
  On("row title", <<Set("Title", "")>>),
  On("row date", <<Set("Date", "")>>),
  Else("title-04", <<Default("Title", "")>>),
  On("item_description", <<Set("Summary", "fo-14"), Default("Summary", "")>>),
  On("part1", <<SetURL("Thumb", "href"), Copy("Cover", "Thumb")>>),
  On("item_tags", <<Add("Genres", "")>>),
  On("item_images", <<AddURL("Previews", "href")>>),
  CopyFirst("Cover", "Previews")>>)>>
=============================================================================
